-------------------------- MODULE PeripheralsProofs --------------------------
(***************************************************************************)
(* Theorems about what surrounds the queues and the router: the outputs,   *)
(* for every reconnect interval and any number of runs of the process and  *)
(* of packets; what the backends acquire and release, for every            *)
(* configuration; and, from the theorems about the audio path, the camera  *)
(* and the video encoder, the properties of Peripherals as a whole.        *)
(***************************************************************************)
EXTENDS Peripherals, SequenceTheorems, TLAPS

-----------------------------------------------------------------------------
(* The invariant of a file *)

Using == {"serving", "failed", "flushing"}

(* Until this run publishes, the final file is that of an earlier run, and the
   H.264 sink works only where there is none. *)
FinalIsOlder ==
  /\ final.run <= run
  /\ owner \in Using \cup {"new"} => final.run < run
  /\ kind = "h264" /\ owner \in Using => final = File!Absent

(* A sink that is used writes the .part file of this run. *)
PartIsOwn ==
  /\ owner \in Using => part.run = run
  /\ step # "idle" => owner = "flushing"
  /\ step # "idle" => part.whole /\ part.packets = accepted[run]

FileInv ==
  /\ File!TypeOK /\ FinalIsOlder /\ PartIsOwn /\ PublishedIsWhole
  /\ session = "none" /\ misuse = "none"

-----------------------------------------------------------------------------
(* The invariant of an RTSP session *)

(* Impl's flag connected says whether there is a session, and nobody connects
   twice.  Only a Flush that failed has tried a second trailer. *)
ConnectedIsLive ==
  /\ session = IF connected THEN "live" ELSE "none"
  /\ owner = "new" \/ step = "connecting" => ~connected
  /\ owner = "gone" => ~connected
  /\ misuse \in {"none", "retried"}
  /\ misuse = "retried" => owner \in {"closing", "gone"} /\ ~flushed /\ ~connected

(* What is left of the interval and what has passed of it make the interval. *)
WaitIsWhole == owner \in {"new", "serving"} => wait + since >= Interval

(* A call in progress is an Open or a Write. *)
CallsInProgress == step # "idle" => owner \in {"new", "serving"}

(* The type invariant in three parts. *)
Places ==
  /\ kind = "rtsp"
  /\ owner \in {"new", "serving", "failed", "flushing", "closing", "gone"}
  /\ step \in {"idle", "connecting", "sending"}
  /\ session \in {"none", "live"}
  /\ server \in {"up", "down"}
  /\ verdict \in {"none", "ok", "retryable", "fatal", "rejected"}
  /\ misuse \in {"none", "leaked", "trailer twice", "retried"}

Flags ==
  /\ open \in BOOLEAN /\ flushed \in BOOLEAN /\ required \in BOOLEAN
  /\ reconnect \in BOOLEAN /\ connected \in BOOLEAN /\ linked \in BOOLEAN

Numbers == wait \in 0 .. Interval /\ since \in 0 .. Interval

RtspInv ==
  /\ Places /\ Flags /\ Numbers
  /\ ConnectedIsLive /\ WaitIsWhole /\ CallsInProgress
  /\ final = File!Absent

SinksInv == IF IsFile THEN FileInv ELSE RtspInv

-----------------------------------------------------------------------------
(* A file *)

(* Opening truncates or creates the .part file, or leaves both files alone. *)
LEMMA FileOpenKeeps ==
  ASSUME FileInv, IsFile, UNCHANGED rtspVars,
         File!Open \/ File!OpenRefused \/ File!OpenFails
  PROVE  FileInv'
<1> USE SinksAssumption DEF SinksAssumption, FileInv, File!TypeOK, File!Files, File!Runs, rtspVars
<1>1. CASE File!Open
  <2>1. /\ part' = [run |-> run, packets |-> 0, whole |-> FALSE]
        /\ owner = "new" /\ owner' = "serving" /\ stream' = "good"
        /\ open' = TRUE /\ flushed' = FALSE
        /\ UNCHANGED <<kind, step, run, accepted, final>>
        /\ kind = "h264" => final = File!Absent
    BY <1>1 DEF File!Open, File!PathIsFree, File!File
  <2>2. File!TypeOK'
    <3>1. part' \in File!Files /\ final' \in File!Files /\ accepted' \in [File!Runs -> Nat]
      BY <2>1
    <3>2. QED
      BY <2>1, <3>1
  <2>3. FinalIsOlder' /\ PartIsOwn'
    BY <2>1 DEF FinalIsOlder, PartIsOwn, Using
  <2>4. QED
    BY <2>1, <2>2, <2>3 DEF PublishedIsWhole, File!PublishedIsWhole
<1>2. CASE File!OpenRefused
  BY <1>2 DEF File!OpenRefused, File!fileVars, FinalIsOlder, PartIsOwn, PublishedIsWhole,
              File!PublishedIsWhole, Using
<1>3. CASE File!OpenFails
  <2>1. /\ part' = part \/ part' = [run |-> run, packets |-> 0, whole |-> FALSE]
        /\ owner = "new" /\ owner' = "gone"
        /\ UNCHANGED <<kind, step, open, flushed, run, stream, accepted, final>>
    BY <1>3 DEF File!OpenFails, File!File
  <2>2. File!TypeOK'
    <3>1. [run |-> run, packets |-> 0, whole |-> FALSE] \in File!Files
      OBVIOUS
    <3>2. part' \in File!Files /\ final' \in File!Files
      BY <2>1, <3>1
    <3>3. QED
      BY <2>1, <3>2
  <2>3. FinalIsOlder' /\ PartIsOwn'
    BY <2>1 DEF FinalIsOlder, PartIsOwn, Using
  <2>4. QED
    BY <2>1, <2>2, <2>3 DEF PublishedIsWhole, File!PublishedIsWhole
<1>4. QED
  BY <1>1, <1>2, <1>3

(* Writing touches the .part file of this run only. *)
LEMMA FileWriteKeeps ==
  ASSUME FileInv, IsFile, UNCHANGED rtspVars, File!WriteStep \/ File!StopWriting
  PROVE  FileInv'
<1> USE SinksAssumption DEF SinksAssumption, FileInv, File!TypeOK, File!Files, File!Runs, rtspVars
<1>1. CASE File!WriteSucceeds
  BY <1>1 DEF File!WriteSucceeds, File!Writable, File!OnDisk, File!File, File!Absent,
              FinalIsOlder, PartIsOwn, PublishedIsWhole, File!PublishedIsWhole, Using
<1>2. CASE File!WriteRejected \/ File!StopWriting
  BY <1>2 DEF File!WriteRejected, File!StopWriting, File!Writable, File!fileVars, FinalIsOlder,
              PartIsOwn, PublishedIsWhole, File!PublishedIsWhole, Using
<1>3. CASE File!WriteFails
  BY <1>3 DEF File!WriteFails, File!Writable, File!OnDisk, File!File, FinalIsOlder, PartIsOwn,
              PublishedIsWhole, File!PublishedIsWhole, Using
<1>4. QED
  BY <1>1, <1>2, <1>3 DEF File!WriteStep

(* Flush makes the .part file whole before it publishes it. *)
LEMMA FileFlushKeeps ==
  ASSUME FileInv, IsFile, UNCHANGED rtspVars, File!FlushStep
  PROVE  FileInv'
<1> USE SinksAssumption DEF SinksAssumption, FileInv, File!TypeOK, File!Files, File!Runs, rtspVars
<1>1. CASE File!FinishFile
  BY <1>1 DEF File!FinishFile, File!File, FinalIsOlder, PartIsOwn, PublishedIsWhole,
              File!PublishedIsWhole, Using
<1>2. CASE File!FinishFails
  BY <1>2 DEF File!FinishFails, File!OnDisk, File!File, FinalIsOlder, PartIsOwn,
              PublishedIsWhole, File!PublishedIsWhole, Using
<1>3. CASE File!CloseStream \/ File!CloseStreamFails \/ File!PublishFails
  BY <1>3 DEF File!CloseStream, File!CloseStreamFails, File!PublishFails, File!fileVars,
              FinalIsOlder, PartIsOwn, PublishedIsWhole, File!PublishedIsWhole, Using
<1>4. CASE File!Publish
  BY <1>4 DEF File!Publish, File!File, File!Absent, FinalIsOlder, PartIsOwn, PublishedIsWhole,
              File!PublishedIsWhole, Using
<1>5. QED
  BY <1>1, <1>2, <1>3, <1>4 DEF File!FlushStep

(* Close, a kill, the next run, and somebody who tidies up. *)
LEMMA FileEndKeeps ==
  ASSUME FileInv, IsFile, UNCHANGED rtspVars,
         \/ File!Close \/ File!Crash \/ File!Restart \/ File!Tidy \/ File!Rest
         \/ UNCHANGED File!vars
  PROVE  FileInv'
<1> USE SinksAssumption DEF SinksAssumption, FileInv, File!TypeOK, File!Files, File!Runs, rtspVars
<1>1. CASE File!Close
  <2>1. /\ \/ part' = part
           \/ part' = [run |-> part.run, packets |-> accepted[run], whole |-> part.whole]
        /\ owner = "closing" /\ owner' = "gone" /\ stream' = "none" /\ open' = FALSE
        /\ UNCHANGED <<kind, step, flushed, run, accepted, final>>
    BY <1>1 DEF File!Close, File!File
  <2>2. File!TypeOK'
    <3>1. part' \in File!Files /\ final' \in File!Files /\ accepted' \in [File!Runs -> Nat]
      BY <2>1
    <3>2. QED
      BY <2>1, <3>1
  <2>3. FinalIsOlder' /\ PartIsOwn'
    BY <2>1 DEF FinalIsOlder, PartIsOwn, Using
  <2>4. QED
    BY <2>1, <2>2, <2>3 DEF PublishedIsWhole, File!PublishedIsWhole
<1>2. CASE File!Crash
  BY <1>2 DEF File!Crash, FinalIsOlder, PartIsOwn, PublishedIsWhole, File!PublishedIsWhole,
              Using
<1>3. CASE File!Restart
  <2>1. File!TypeOK'
    <3>1. kind' \in {"h264", "mp4"}
      BY <1>3 DEF File!Restart
    <3>2. run' \in 1 .. MaxRuns
      BY <1>3 DEF File!Restart
    <3>3. owner' = "new" /\ step' = step /\ open' = open /\ stream' = stream /\ flushed' = FALSE
      BY <1>3 DEF File!Restart
    <3>4. accepted' \in [1 .. MaxRuns -> Nat]
      BY <1>3 DEF File!Restart
    <3>5. part' \in File!Files /\ final' \in File!Files
      BY <1>3 DEF File!Restart
    <3>6. QED BY <3>1, <3>2, <3>3, <3>4, <3>5
  <2>2. FinalIsOlder' /\ PartIsOwn'
    BY <1>3 DEF File!Restart, FinalIsOlder, PartIsOwn, Using
  <2>3. QED
    BY <1>3, <2>1, <2>2 DEF File!Restart, PublishedIsWhole, File!PublishedIsWhole
<1>4. CASE File!Tidy
  <2>1. /\ part' = part \/ part' = [run |-> 0, packets |-> 0, whole |-> FALSE]
        /\ final' = final \/ final' = File!Absent
        /\ File!Absent = [run |-> 0, packets |-> 0, whole |-> FALSE]
        /\ owner = "gone"
        /\ UNCHANGED <<kind, owner, step, open, flushed, run, stream, accepted>>
    BY <1>4 DEF File!Tidy, File!File, File!Absent
  <2>2. File!TypeOK'
    <3>1. [run |-> 0, packets |-> 0, whole |-> FALSE] \in File!Files
      OBVIOUS
    <3>2. part' \in File!Files /\ final' \in File!Files
      BY <2>1, <3>1
    <3>3. QED
      BY <2>1, <3>2
  <2>3. FinalIsOlder' /\ PartIsOwn'
    BY <2>1 DEF FinalIsOlder, PartIsOwn, Using
  <2>4. QED
    BY <2>1, <2>2, <2>3 DEF PublishedIsWhole, File!PublishedIsWhole
<1>5. CASE File!Rest \/ UNCHANGED File!vars
  BY <1>5 DEF File!Rest, File!vars, File!fileVars, FinalIsOlder, PartIsOwn, PublishedIsWhole,
              File!PublishedIsWhole, Using
<1>6. QED
  BY <1>1, <1>2, <1>3, <1>4, <1>5

(* The four together. *)
LEMMA FileKeeps ==
  ASSUME FileInv, IsFile, UNCHANGED rtspVars, File!Next \/ UNCHANGED File!vars
  PROVE  FileInv'
BY FileOpenKeeps, FileWriteKeeps, FileFlushKeeps, FileEndKeeps DEF File!Next

(* No step makes another kind of sink. *)
LEMMA FileStaysFile ==
  ASSUME IsFile, File!Next
  PROVE  kind' = kind
BY DEF File!Next, File!Open, File!OpenRefused, File!OpenFails, File!WriteStep,
       File!WriteSucceeds, File!WriteRejected, File!WriteFails, File!StopWriting,
       File!FlushStep, File!FinishFile, File!FinishFails, File!CloseStream,
       File!CloseStreamFails, File!Publish, File!PublishFails, File!Close, File!Crash,
       File!Restart, File!Tidy, File!Rest, File!vars

-----------------------------------------------------------------------------
(* An RTSP session *)

(* Names stay names. *)
LEMMA PlacesKept ==
  ASSUME Places, UNCHANGED fileVars,
         Rtsp!Next \/ UNCHANGED Rtsp!vars
  PROVE  Places'
<1> USE SinksAssumption DEF SinksAssumption, Places, Rtsp!netVars, Rtsp!rtspVars, Rtsp!config
<1>1. CASE Rtsp!OpenStep
  BY <1>1 DEF Rtsp!OpenStep, Rtsp!BeginOpen, Rtsp!OpenRejected, Rtsp!OpenConnects, Rtsp!OpenFails,
              Rtsp!OpenWaits, Rtsp!NetworkFailed, Rtsp!Connected, Rtsp!ReleaseFormat,
              Rtsp!ScheduleNextReconnect, Rtsp!Unscheduled
<1>2. CASE Rtsp!WriteStep
  BY <1>2, ZenonT(40)
  DEF Rtsp!WriteStep, Rtsp!WriteDropped, Rtsp!BeginReconnect, Rtsp!ReconnectSucceeds,
      Rtsp!ReconnectFails, Rtsp!BeginSend, Rtsp!Sent, Rtsp!SendFails, Rtsp!WriteVerdict,
      Rtsp!Retryable, Rtsp!Writable, Rtsp!NetworkFailed, Rtsp!Connected,
      Rtsp!ReleaseFormat, Rtsp!ScheduleNextReconnect, Rtsp!Unscheduled
<1>3. CASE \/ Rtsp!PacketRejected \/ Rtsp!StopWriting
          \/ Rtsp!FlushDisconnected \/ Rtsp!FlushSucceeds \/ Rtsp!FlushFails \/ Rtsp!Close
  BY <1>3, ZenonT(40)
  DEF Rtsp!PacketRejected, Rtsp!StopWriting, Rtsp!FlushDisconnected, Rtsp!FlushSucceeds,
      Rtsp!FlushFails, Rtsp!Close, Rtsp!Writable, Rtsp!ReleaseFormat
<1>4. CASE Rtsp!ServerDown \/ Rtsp!ServerUp
  <2>1. server' \in {"up", "down"}
    BY <1>4 DEF Rtsp!ServerDown, Rtsp!ServerUp
  <2>2. UNCHANGED <<kind, owner, step, session, verdict, misuse>>
    BY <1>4 DEF Rtsp!ServerDown, Rtsp!ServerUp
  <2>3. QED
    BY <2>1, <2>2
<1>5. CASE Rtsp!Tick \/ Rtsp!Rest \/ UNCHANGED Rtsp!vars
  <2>1. UNCHANGED <<kind, owner, step, session, server, verdict, misuse>>
    BY <1>5 DEF Rtsp!Tick, Rtsp!Rest, Rtsp!vars
  <2>2. QED
    BY <2>1
<1>6. QED
  BY <1>1, <1>2, <1>3, <1>4, <1>5 DEF Rtsp!Next

(* Flags stay flags. *)
LEMMA FlagsKept ==
  ASSUME Flags, UNCHANGED fileVars,
         Rtsp!Next \/ UNCHANGED Rtsp!vars
  PROVE  Flags'
<1> USE SinksAssumption DEF SinksAssumption, Flags, Rtsp!netVars, Rtsp!rtspVars, Rtsp!config
<1>1. CASE Rtsp!OpenStep
  BY <1>1 DEF Rtsp!OpenStep, Rtsp!BeginOpen, Rtsp!OpenRejected, Rtsp!OpenConnects, Rtsp!OpenFails,
              Rtsp!OpenWaits, Rtsp!NetworkFailed, Rtsp!Connected, Rtsp!ReleaseFormat,
              Rtsp!ScheduleNextReconnect, Rtsp!Unscheduled
<1>2. CASE Rtsp!WriteStep
  BY <1>2 DEF Rtsp!WriteStep, Rtsp!WriteDropped, Rtsp!BeginReconnect, Rtsp!ReconnectSucceeds,
              Rtsp!ReconnectFails, Rtsp!BeginSend, Rtsp!Sent, Rtsp!SendFails, Rtsp!WriteVerdict,
              Rtsp!Retryable, Rtsp!Writable, Rtsp!NetworkFailed, Rtsp!Connected,
              Rtsp!ReleaseFormat, Rtsp!ScheduleNextReconnect, Rtsp!Unscheduled
<1>3. CASE \/ Rtsp!PacketRejected \/ Rtsp!StopWriting
          \/ Rtsp!FlushDisconnected \/ Rtsp!FlushSucceeds \/ Rtsp!FlushFails \/ Rtsp!Close
  BY <1>3 DEF Rtsp!PacketRejected, Rtsp!StopWriting, Rtsp!FlushDisconnected, Rtsp!FlushSucceeds,
              Rtsp!FlushFails, Rtsp!Close, Rtsp!Writable, Rtsp!ReleaseFormat
<1>4. CASE \/ Rtsp!ServerDown \/ Rtsp!ServerUp \/ Rtsp!Tick \/ Rtsp!Rest
          \/ UNCHANGED Rtsp!vars
  BY <1>4 DEF Rtsp!ServerDown, Rtsp!ServerUp, Rtsp!Tick, Rtsp!Rest, Rtsp!vars
<1>5. QED
  BY <1>1, <1>2, <1>3, <1>4 DEF Rtsp!Next

(* Each call leaves the time to the next reconnection alone, or begins a new
   interval with a failure, or ends the use of the sink with one. *)
LEMMA CallsTime ==
  ASSUME Rtsp!OpenStep \/ Rtsp!WriteStep, CallsInProgress
  PROVE  \/ UNCHANGED <<wait, since>>
         \/ since' = 0 /\ wait' = Interval
         \/ since' = 0 /\ wait' = wait /\ owner' \notin {"new", "serving"}
<1>1. CASE Rtsp!OpenStep
  BY <1>1 DEF Rtsp!OpenStep, Rtsp!BeginOpen, Rtsp!OpenRejected, Rtsp!OpenConnects,
              Rtsp!OpenFails, Rtsp!OpenWaits, Rtsp!NetworkFailed, Rtsp!ScheduleNextReconnect,
              Rtsp!rtspVars
<1>2. CASE Rtsp!WriteStep /\ ~Rtsp!SendFails
  BY <1>2 DEF Rtsp!WriteStep, Rtsp!WriteDropped, Rtsp!BeginReconnect, Rtsp!ReconnectSucceeds,
              Rtsp!ReconnectFails, Rtsp!BeginSend, Rtsp!Sent, Rtsp!NetworkFailed,
              Rtsp!ScheduleNextReconnect, Rtsp!rtspVars
<1>3. CASE Rtsp!SendFails
  <2>1. since' = 0 /\ (reconnect => wait' = Interval) /\ (~reconnect => wait' = wait)
    BY <1>3 DEF Rtsp!SendFails, Rtsp!NetworkFailed, Rtsp!ScheduleNextReconnect, Rtsp!Unscheduled
  <2>2. ~reconnect => owner' = "failed"
    BY <1>3 DEF Rtsp!SendFails, Rtsp!WriteVerdict
  <2>3. QED
    BY <2>1, <2>2
<1>4. QED
  BY <1>1, <1>2, <1>3

(* The two counters stay within the interval. *)
LEMMA NumbersKept ==
  ASSUME Numbers, CallsInProgress, UNCHANGED fileVars,
         Rtsp!Next \/ UNCHANGED Rtsp!vars
  PROVE  Numbers'
<1> USE SinksAssumption DEF SinksAssumption, Numbers, Rtsp!netVars, Rtsp!rtspVars, Rtsp!config
<1>1. CASE Rtsp!OpenStep \/ Rtsp!WriteStep
  BY <1>1, CallsTime
<1>2. CASE \/ Rtsp!PacketRejected \/ Rtsp!StopWriting
          \/ Rtsp!FlushDisconnected \/ Rtsp!FlushSucceeds \/ Rtsp!FlushFails \/ Rtsp!Close
  BY <1>2 DEF Rtsp!PacketRejected, Rtsp!StopWriting, Rtsp!FlushDisconnected, Rtsp!FlushSucceeds,
              Rtsp!FlushFails, Rtsp!Close, Rtsp!Writable, Rtsp!ReleaseFormat
<1>3. CASE \/ Rtsp!ServerDown \/ Rtsp!ServerUp \/ Rtsp!Tick \/ Rtsp!Rest
          \/ UNCHANGED Rtsp!vars
  BY <1>3 DEF Rtsp!ServerDown, Rtsp!ServerUp, Rtsp!Tick, Rtsp!Rest, Rtsp!vars
<1>4. QED
  BY <1>1, <1>2, <1>3 DEF Rtsp!Next

(* Where the flag agrees with the session, releasing it is one trailer or none. *)
LEMMA ReleaseEndsSession ==
  ASSUME Flags, session = IF connected THEN "live" ELSE "none",
         Rtsp!ReleaseFormat(connected, session)
  PROVE  connected' = FALSE /\ session' = "none" /\ misuse' = misuse
<1>1. CASE connected
  BY <1>1 DEF Flags, Rtsp!ReleaseFormat
<1>2. CASE ~connected
  BY <1>2 DEF Flags, Rtsp!ReleaseFormat
<1>3. QED
  BY <1>1, <1>2

(* The flag follows the session through every call, and says rightly whether a
   trailer is due. *)
LEMMA SessionsKept ==
  ASSUME Flags, CallsInProgress, ConnectedIsLive, UNCHANGED fileVars,
         Rtsp!Next \/ UNCHANGED Rtsp!vars
  PROVE  ConnectedIsLive'
<1> USE DEF Flags, CallsInProgress, ConnectedIsLive, Rtsp!netVars, Rtsp!rtspVars, Rtsp!config
<1>1. CASE Rtsp!OpenStep
  <2>1. CASE Rtsp!BeginOpen
    BY <2>1 DEF Rtsp!BeginOpen
  <2>2. CASE Rtsp!OpenRejected
    BY <2>2 DEF Rtsp!OpenRejected
  <2>3. CASE Rtsp!OpenConnects
    BY <2>3 DEF Rtsp!OpenConnects, Rtsp!Connected
  <2>4. CASE Rtsp!OpenFails
    BY <2>4, ReleaseEndsSession DEF Rtsp!OpenFails
  <2>5. CASE Rtsp!OpenWaits
    BY <2>5, ReleaseEndsSession DEF Rtsp!OpenWaits
  <2>6. QED
    BY <1>1, <2>1, <2>2, <2>3, <2>4, <2>5 DEF Rtsp!OpenStep
<1>2. CASE Rtsp!WriteStep
  <2>1. CASE Rtsp!WriteDropped \/ Rtsp!BeginSend \/ Rtsp!Sent
    BY <2>1 DEF Rtsp!WriteDropped, Rtsp!BeginSend, Rtsp!Sent, Rtsp!Writable
  <2>2. CASE Rtsp!BeginReconnect
    BY <2>2, ReleaseEndsSession DEF Rtsp!BeginReconnect, Rtsp!Writable
  <2>3. CASE Rtsp!ReconnectSucceeds \/ Rtsp!ReconnectFails
    BY <2>3, ReleaseEndsSession
    DEF Rtsp!ReconnectSucceeds, Rtsp!ReconnectFails, Rtsp!Connected
  <2>4. CASE Rtsp!SendFails
    <3>1. /\ connected' = FALSE /\ session' = "none" /\ misuse' = misuse
          /\ owner' = owner \/ owner' = "failed"
          /\ flushed' = flushed
      BY <2>4, ReleaseEndsSession DEF Rtsp!SendFails
    <3>2. QED
      BY <2>4, <3>1 DEF Rtsp!SendFails
  <2>5. QED
    BY <1>2, <2>1, <2>2, <2>3, <2>4 DEF Rtsp!WriteStep
<1>3. CASE Rtsp!PacketRejected \/ Rtsp!StopWriting
  BY <1>3 DEF Rtsp!PacketRejected, Rtsp!StopWriting, Rtsp!Writable
<1>4. CASE Rtsp!FlushDisconnected
  BY <1>4 DEF Rtsp!FlushDisconnected
<1>5. CASE Rtsp!FlushSucceeds
  BY <1>5 DEF Rtsp!FlushSucceeds, Rtsp!ReleaseFormat
<1>6. CASE Rtsp!FlushFails
  BY <1>6 DEF Rtsp!FlushFails, Rtsp!ReleaseFormat
<1>7. CASE Rtsp!Close
  BY <1>7, ReleaseEndsSession DEF Rtsp!Close
<1>8. CASE \/ Rtsp!ServerDown \/ Rtsp!ServerUp \/ Rtsp!Tick \/ Rtsp!Rest
          \/ UNCHANGED Rtsp!vars
  BY <1>8 DEF Rtsp!ServerDown, Rtsp!ServerUp, Rtsp!Tick, Rtsp!Rest, Rtsp!vars
<1>9. QED
  BY <1>1, <1>2, <1>3, <1>4, <1>5, <1>6, <1>7, <1>8 DEF Rtsp!Next

(* A sink that has been given up is not served again. *)
LEMMA NotServedAgain ==
  ASSUME Rtsp!OpenStep \/ Rtsp!WriteStep, CallsInProgress, owner' \in {"new", "serving"}
  PROVE  owner \in {"new", "serving"}
BY DEF Rtsp!OpenStep, Rtsp!BeginOpen, Rtsp!OpenRejected, Rtsp!OpenConnects,
       Rtsp!OpenFails, Rtsp!OpenWaits, Rtsp!WriteStep, Rtsp!WriteDropped, Rtsp!BeginReconnect,
       Rtsp!ReconnectSucceeds, Rtsp!ReconnectFails, Rtsp!BeginSend, Rtsp!Sent, Rtsp!SendFails,
       Rtsp!Writable, CallsInProgress

(* A failure starts the interval again, a tick moves it. *)
LEMMA WaitKept ==
  ASSUME Numbers, CallsInProgress, WaitIsWhole, UNCHANGED fileVars,
         Rtsp!Next \/ UNCHANGED Rtsp!vars
  PROVE  WaitIsWhole'
<1> USE SinksAssumption DEF SinksAssumption, Numbers, CallsInProgress, WaitIsWhole,
        Rtsp!netVars, Rtsp!rtspVars, Rtsp!config
<1>1. CASE Rtsp!OpenStep \/ Rtsp!WriteStep
  BY <1>1, CallsTime, NotServedAgain
<1>2. CASE \/ Rtsp!PacketRejected \/ Rtsp!StopWriting
          \/ Rtsp!FlushDisconnected \/ Rtsp!FlushSucceeds \/ Rtsp!FlushFails \/ Rtsp!Close
  BY <1>2 DEF Rtsp!PacketRejected, Rtsp!StopWriting, Rtsp!FlushDisconnected, Rtsp!FlushSucceeds,
              Rtsp!FlushFails, Rtsp!Close, Rtsp!Writable, Rtsp!ReleaseFormat
<1>3. CASE \/ Rtsp!ServerDown \/ Rtsp!ServerUp \/ Rtsp!Tick \/ Rtsp!Rest
          \/ UNCHANGED Rtsp!vars
  BY <1>3 DEF Rtsp!ServerDown, Rtsp!ServerUp, Rtsp!Tick, Rtsp!Rest, Rtsp!vars
<1>4. QED
  BY <1>1, <1>2, <1>3 DEF Rtsp!Next

(* A call that ends in a failure is no longer in progress. *)
LEMMA CallsKept ==
  ASSUME CallsInProgress, UNCHANGED fileVars,
         Rtsp!Next \/ UNCHANGED Rtsp!vars
  PROVE  CallsInProgress'
<1> USE SinksAssumption DEF SinksAssumption, CallsInProgress,
        Rtsp!netVars, Rtsp!rtspVars, Rtsp!config
<1>1. CASE Rtsp!OpenStep
  BY <1>1 DEF Rtsp!OpenStep, Rtsp!BeginOpen, Rtsp!OpenRejected, Rtsp!OpenConnects, Rtsp!OpenFails,
              Rtsp!OpenWaits, Rtsp!NetworkFailed, Rtsp!Connected, Rtsp!ReleaseFormat,
              Rtsp!ScheduleNextReconnect, Rtsp!Unscheduled
<1>2. CASE Rtsp!WriteStep
  BY <1>2 DEF Rtsp!WriteStep, Rtsp!WriteDropped, Rtsp!BeginReconnect, Rtsp!ReconnectSucceeds,
              Rtsp!ReconnectFails, Rtsp!BeginSend, Rtsp!Sent, Rtsp!SendFails, Rtsp!WriteVerdict,
              Rtsp!Retryable, Rtsp!Writable, Rtsp!NetworkFailed, Rtsp!Connected,
              Rtsp!ReleaseFormat, Rtsp!ScheduleNextReconnect, Rtsp!Unscheduled
<1>3. CASE \/ Rtsp!PacketRejected \/ Rtsp!StopWriting
          \/ Rtsp!FlushDisconnected \/ Rtsp!FlushSucceeds \/ Rtsp!FlushFails \/ Rtsp!Close
  BY <1>3 DEF Rtsp!PacketRejected, Rtsp!StopWriting, Rtsp!FlushDisconnected, Rtsp!FlushSucceeds,
              Rtsp!FlushFails, Rtsp!Close, Rtsp!Writable, Rtsp!ReleaseFormat
<1>4. CASE \/ Rtsp!ServerDown \/ Rtsp!ServerUp \/ Rtsp!Tick \/ Rtsp!Rest
          \/ UNCHANGED Rtsp!vars
  BY <1>4 DEF Rtsp!ServerDown, Rtsp!ServerUp, Rtsp!Tick, Rtsp!Rest, Rtsp!vars
<1>5. QED
  BY <1>1, <1>2, <1>3, <1>4 DEF Rtsp!Next

(* The parts together. *)
LEMMA RtspKeeps ==
  ASSUME RtspInv, UNCHANGED fileVars, Rtsp!Next \/ UNCHANGED Rtsp!vars
  PROVE  RtspInv'
<1>1. File!Absent' = File!Absent /\ final' = final
  BY DEF fileVars, File!Absent, File!File
<1>2. QED
  BY <1>1, PlacesKept, FlagsKept, NumbersKept, SessionsKept, WaitKept, CallsKept DEF RtspInv

-----------------------------------------------------------------------------
(* The theorems *)

(* The invariant holds at first. *)
LEMMA InitIsSafe == CreatePacketSink => SinksInv
<1> USE SinksAssumption DEF SinksAssumption, SinksInv, IsFile
<1>1. CASE File!Init /\ NoSession
  <2>1. /\ part = [run |-> 0, packets |-> 0, whole |-> FALSE] /\ final = part
        /\ File!Absent = part /\ run = 1
    BY <1>1 DEF File!Init, File!File, File!Absent
  <2>2. File!TypeOK
    <3>1. part \in File!Files
      BY <2>1 DEF File!Files
    <3>2. accepted \in [File!Runs -> Nat] /\ run \in File!Runs
      BY <1>1 DEF File!Init, File!Runs
    <3>3. QED
      BY <1>1, <2>1, <3>1, <3>2 DEF File!Init, File!TypeOK
  <2>3. FinalIsOlder /\ PartIsOwn
    BY <1>1, <2>1 DEF File!Init, FinalIsOlder, PartIsOwn, Using
  <2>4. IsFile /\ session = "none" /\ misuse = "none"
    BY <1>1 DEF File!Init, NoSession
  <2>5. QED
    BY <2>1, <2>2, <2>3, <2>4 DEF FileInv, PublishedIsWhole, File!PublishedIsWhole
<1>2. CASE Rtsp!Init /\ NoFile
  <2>1. Places /\ Numbers
    BY <1>2 DEF Rtsp!Init, Places, Numbers
  <2>2. Flags
    BY <1>2 DEF Rtsp!Init, Flags
  <2>3. ConnectedIsLive /\ CallsInProgress
    BY <1>2 DEF Rtsp!Init, ConnectedIsLive, CallsInProgress
  <2>4. WaitIsWhole /\ final = File!Absent
    BY <1>2 DEF Rtsp!Init, NoFile, WaitIsWhole
  <2>5. QED
    BY <2>1, <2>2, <2>3, <2>4 DEF RtspInv, Places
<1>3. QED
  BY <1>1, <1>2 DEF CreatePacketSink

(* Every step is one of the sink that was made. *)
LEMMA StepsAreOfOneKind ==
  ASSUME SinksInv, [Next]_vars
  PROVE  /\ kind' = kind
         /\ IsFile => UNCHANGED rtspVars /\ (File!Next \/ UNCHANGED File!vars)
         /\ ~IsFile => UNCHANGED fileVars /\ (Rtsp!Next \/ UNCHANGED Rtsp!vars)
<1>1. CASE IsFile /\ File!Next /\ UNCHANGED rtspVars
  BY <1>1, FileStaysFile
<1>2. CASE ~IsFile /\ Rtsp!Next /\ UNCHANGED fileVars
  <2>1. kind' = kind
    BY <1>2, RtspKeeps DEF SinksInv, RtspInv, Places
  <2>2. QED
    BY <1>2, <2>1
<1>3. CASE UNCHANGED vars
  BY <1>3 DEF vars, fileVars, rtspVars, File!vars, File!fileVars, Rtsp!vars, Rtsp!rtspVars,
              Rtsp!netVars
<1>4. QED
  BY <1>1, <1>2, <1>3 DEF Next

(* The inductive invariant of the outputs: the final file is an earlier run's
   until this one publishes a .part file that is whole, and the flag connected
   says what there is to release. *)
THEOREM SinksSafe == Spec => []SinksInv
<1>1. ASSUME SinksInv, [Next]_vars PROVE SinksInv'
  BY <1>1, StepsAreOfOneKind, FileKeeps, RtspKeeps DEF SinksInv, IsFile
<1>2. QED
  BY <1>1, InitIsSafe, PTL DEF Spec

(* What has the final name is whole, whatever failed or was killed, for any
   number of runs and packets. *)
THEOREM PublishedFilesAreWhole == Spec => []PublishedIsWhole
<1>1. SinksInv => PublishedIsWhole
  BY DEF SinksInv, FileInv, RtspInv, PublishedIsWhole, File!PublishedIsWhole
<1>2. QED
  BY <1>1, SinksSafe, PTL

(* On every path that releases an RTSP session a trailer is tried before it is freed,
   none that succeeded is followed by another, and only a Flush that fails tries a
   second one after one that failed; no session outlives its sink. *)
THEOREM SessionsAreEnded == Spec => []SessionsAreReleased
<1>1. SinksInv => SessionsAreReleased
  BY DEF SinksInv, FileInv, RtspInv, ConnectedIsLive, SessionsAreReleased,
         Rtsp!SessionsAreReleased
<1>2. QED
  BY <1>1, SinksSafe, PTL

(* The program replaces a recording only by a whole and later one. *)
THEOREM RecordingsAreKept == Spec => RecordingIsKept
<1> DEFINE Kept ==
      final # File!Absent /\ owner # "gone" =>
        final' = final \/ (kind = "mp4" /\ final'.whole /\ final'.run > final.run)
<1>1. ASSUME SinksInv, [Next]_vars PROVE [Kept]_final
  <2>1. CASE ~IsFile
    BY <1>1, <2>1, StepsAreOfOneKind DEF fileVars
  <2>2. CASE IsFile /\ File!Publish
    <3>1. /\ FileInv /\ final' = part /\ step = "renaming"
      BY <1>1, <2>2 DEF SinksInv, File!Publish
    <3>2. owner = "flushing" /\ part.run = run /\ part.whole /\ final.run < run
      BY <3>1 DEF FileInv, PartIsOwn, FinalIsOlder, Using
    <3>3. kind = "h264" => final = File!Absent
      BY <3>1, <3>2 DEF FileInv, FinalIsOlder, Using
    <3>4. kind \in {"h264", "mp4"}
      BY <2>2 DEF IsFile
    <3>5. final'.run > final.run
      BY <3>1, <3>2 DEF FileInv, File!TypeOK, File!Files, File!Runs
    <3>6. QED
      BY <3>1, <3>2, <3>3, <3>4, <3>5
  <2>3. CASE IsFile /\ File!Tidy
    BY <2>3 DEF File!Tidy
  <2>4. CASE IsFile /\ ~File!Publish /\ ~File!Tidy
    <3>1. final' = final
      BY <1>1, <2>4, StepsAreOfOneKind
      DEF File!Next, File!Open, File!OpenRefused, File!OpenFails, File!WriteStep,
          File!WriteSucceeds, File!WriteRejected, File!WriteFails, File!StopWriting,
          File!FlushStep, File!FinishFile, File!FinishFails, File!CloseStream,
          File!CloseStreamFails, File!PublishFails, File!Close, File!Crash, File!Restart,
          File!Rest, File!vars, File!fileVars
    <3>2. QED
      BY <3>1
  <2>5. QED
    BY <2>1, <2>2, <2>3, <2>4
<1>2. QED
  BY <1>1, SinksSafe, PTL DEF Spec, RecordingIsKept, File!RecordingIsKept

(* An output reconnects only when a whole interval has passed since the last
   failure of the network, for every length of the interval. *)
THEOREM ReconnectsKeepTheirDistance == Spec => ReconnectsAreSpaced
<1> DEFINE Spaced ==
      owner = "serving" /\ step = "idle" /\ step' = "connecting" => since = Interval
<1>1. ASSUME SinksInv, [Next]_vars PROVE [Spaced]_(Rtsp!vars)
  <2>1. CASE IsFile
    <3>1. FileInv'
      BY <1>1, <2>1, StepsAreOfOneKind, FileKeeps DEF SinksInv
    <3>2. QED
      BY <3>1 DEF FileInv, File!TypeOK
  <2>2. CASE ~IsFile
    <3> SUFFICES ASSUME owner = "serving", step = "idle", step' = "connecting"
                 PROVE  since = Interval
      OBVIOUS
    <3>1. RtspInv /\ Rtsp!Next
      BY <1>1, <2>2, StepsAreOfOneKind DEF SinksInv, Rtsp!vars
    <3>2. wait = 0
      BY <3>1 DEF Rtsp!Next, Rtsp!OpenStep, Rtsp!BeginOpen, Rtsp!OpenRejected,
                  Rtsp!OpenConnects, Rtsp!OpenFails, Rtsp!OpenWaits, Rtsp!WriteStep,
                  Rtsp!WriteDropped, Rtsp!BeginReconnect, Rtsp!ReconnectDue,
                  Rtsp!ReconnectSucceeds, Rtsp!ReconnectFails, Rtsp!BeginSend, Rtsp!Sent,
                  Rtsp!SendFails, Rtsp!PacketRejected, Rtsp!StopWriting,
                  Rtsp!FlushDisconnected, Rtsp!FlushSucceeds, Rtsp!FlushFails, Rtsp!Close,
                  Rtsp!Rest, Rtsp!vars, Rtsp!ServerDown, Rtsp!ServerUp, Rtsp!Tick
    <3>3. since \in 0 .. Interval /\ wait + since >= Interval
      BY <3>1 DEF RtspInv, WaitIsWhole, Numbers
    <3>4. Interval \in Nat
      BY SinksAssumption DEF SinksAssumption
    <3>5. QED
      BY <3>2, <3>3, <3>4
  <2>3. QED
    BY <2>1, <2>2
<1>2. QED
  BY <1>1, SinksSafe, PTL DEF Spec, ReconnectsAreSpaced, Rtsp!ReconnectsAreSpaced

-----------------------------------------------------------------------------
(* What the backends hold *)

(* The devices that hold resources. *)
Devices == Back!Elements(Back!OpenOrder)

(* Of the first n steps of a device's Open those that acquire are held. *)
Acquired(d, n) ==
  \A i \in 1 .. n :
    Back!OpenSteps(Back!Kind(d))[i] \in Back!Elements(Back!CloseOrder(Back!Kind(d))) =>
      <<d, Back!OpenSteps(Back!Kind(d))[i]>> \in resources

(* A device that is wanted and open holds all it acquires. *)
Opened(d) == Back!Wanted(d) => Acquired(d, Len(Back!OpenSteps(Back!Kind(d))))

(* A resource belongs to a device, and Close gives it back or Infer does, if the MPP
   encoder has not forgotten it. *)
Owned(h) ==
  /\ h = <<h[1], h[2]>> /\ h[1] \in Devices
  /\ h = Back!Forgotten => setup.video_encoder = "mpp"
  /\ \/ h \in {Back!Outputs, Back!Forgotten}
     \/ h[2] \in Back!Elements(Back!CloseOrder(Back!Kind(h[1])))

(* What it is used through is there. *)
Usable(h) == \A r \in Back!Through(h[2]) : <<h[1], r>> \in resources

(* The types of what the argument looks at. *)
BackTypes ==
  /\ setup \in Back!Setups
  /\ progress \in {"opening", "running", "stopping", "stopped"}
  /\ device \in 1 .. 7 /\ opening \in 0 .. 11 /\ plan \in Seq(Devices)

(* The devices before the current one are open, and so is what it acquired. *)
OpeningHolds ==
  /\ opening <= Len(Back!Steps)
  /\ Back!Wanted(Back!Current) => Acquired(Back!Current, opening)
  /\ \A i \in 1 .. device - 1 : Opened(Back!OpenOrder[i])

(* All devices are open. *)
RunningHolds == \A i \in 1 .. 7 : Opened(Back!OpenOrder[i])

(* What is held is still to be closed, or given back by Infer, or forgotten. *)
StopPlanned ==
  \A h \in resources :
    h \in {Back!Outputs, Back!Forgotten} \/ h[1] \in Back!Elements(plan)

(* The inductive invariant. *)
BackInv ==
  /\ BackTypes
  /\ progress = "opening" => OpeningHolds
  /\ progress = "running" => RunningHolds
  /\ progress \in {"stopping", "stopped"} => StopPlanned
  /\ progress = "stopped" => plan = <<>> /\ Back!Outputs \notin resources
  /\ \A h \in resources : Owned(h) /\ Usable(h)

(* The steps of each kind; a mock or a checksum has none. *)
LEMMA EveryKind ==
  ASSUME NEW k
  PROVE  \/ Back!OpenSteps(k) = <<>> /\ Back!CloseOrder(k) = <<>>
         \/ Back!OpenSteps(k) = Back!V4l2Open /\ Back!CloseOrder(k) = Back!V4l2Close
         \/ Back!OpenSteps(k) = Back!AlsaOpen /\ Back!CloseOrder(k) = Back!AlsaClose
         \/ Back!OpenSteps(k) = Back!JpegOpen /\ Back!CloseOrder(k) = Back!JpegClose
         \/ Back!OpenSteps(k) = Back!RknnOpen /\ Back!CloseOrder(k) = Back!RknnClose
         \/ Back!OpenSteps(k) = Back!FfmpegVideoOpen /\ Back!CloseOrder(k) = Back!FfmpegVideoClose
         \/ Back!OpenSteps(k) = Back!FfmpegAudioOpen /\ Back!CloseOrder(k) = Back!FfmpegAudioClose
         \/ Back!OpenSteps(k) = Back!MppOpen /\ Back!CloseOrder(k) = Back!MppClose
<1>1. CASE k = "v4l2"
  BY <1>1 DEF Back!OpenSteps, Back!CloseOrder
<1>2. CASE k = "alsa"
  BY <1>2 DEF Back!OpenSteps, Back!CloseOrder
<1>3. CASE k = "jpeg"
  BY <1>3 DEF Back!OpenSteps, Back!CloseOrder
<1>4. CASE k = "rknn"
  BY <1>4 DEF Back!OpenSteps, Back!CloseOrder
<1>5. CASE k = "ffmpeg_video"
  BY <1>5 DEF Back!OpenSteps, Back!CloseOrder
<1>6. CASE k = "ffmpeg_audio"
  BY <1>6 DEF Back!OpenSteps, Back!CloseOrder
<1>7. CASE k = "mpp"
  BY <1>7 DEF Back!OpenSteps, Back!CloseOrder
<1>8. CASE k \notin {"v4l2", "alsa", "jpeg", "rknn", "ffmpeg_video", "ffmpeg_audio", "mpp"}
  BY <1>8 DEF Back!OpenSteps, Back!CloseOrder
<1>9. QED
  BY <1>1, <1>2, <1>3, <1>4, <1>5, <1>6, <1>7, <1>8

(* Open has at most nine steps. *)
LEMMA StepsAreFew ==
  ASSUME NEW k
  PROVE  /\ Len(Back!OpenSteps(k)) \in 0 .. 11
         /\ DOMAIN Back!OpenSteps(k) = 1 .. Len(Back!OpenSteps(k))
<1>1. CASE Back!OpenSteps(k) = Back!V4l2Open
  BY <1>1 DEF Back!V4l2Open
<1>2. CASE Back!OpenSteps(k) = Back!AlsaOpen
  BY <1>2 DEF Back!AlsaOpen
<1>3. CASE Back!OpenSteps(k) = Back!JpegOpen
  BY <1>3 DEF Back!JpegOpen
<1>4. CASE Back!OpenSteps(k) = Back!RknnOpen
  BY <1>4 DEF Back!RknnOpen
<1>5. CASE Back!OpenSteps(k) = Back!FfmpegVideoOpen
  BY <1>5 DEF Back!FfmpegVideoOpen
<1>6. CASE Back!OpenSteps(k) = Back!FfmpegAudioOpen
  BY <1>6 DEF Back!FfmpegAudioOpen
<1>7. CASE Back!OpenSteps(k) = Back!MppOpen
  BY <1>7 DEF Back!MppOpen, Back!MppLibraries
<1>8. CASE Back!OpenSteps(k) = <<>>
  BY <1>8
<1>9. QED
  BY <1>1, <1>2, <1>3, <1>4, <1>5, <1>6, <1>7, <1>8, EveryKind

(* What Close gives back has an order. *)
LEMMA CloseIsSequence ==
  ASSUME NEW k
  PROVE  /\ DOMAIN Back!CloseOrder(k) = 1 .. Len(Back!CloseOrder(k))
         /\ Len(Back!CloseOrder(k)) \in Nat
<1>1. CASE Back!CloseOrder(k) = Back!V4l2Close
  BY <1>1 DEF Back!V4l2Close
<1>2. CASE Back!CloseOrder(k) = Back!AlsaClose
  BY <1>2 DEF Back!AlsaClose
<1>3. CASE Back!CloseOrder(k) = Back!JpegClose
  BY <1>3 DEF Back!JpegClose
<1>4. CASE Back!CloseOrder(k) = Back!RknnClose
  BY <1>4 DEF Back!RknnClose
<1>5. CASE Back!CloseOrder(k) = Back!FfmpegVideoClose
  BY <1>5 DEF Back!FfmpegVideoClose
<1>6. CASE Back!CloseOrder(k) = Back!FfmpegAudioClose
  BY <1>6 DEF Back!FfmpegAudioClose
<1>7. CASE Back!CloseOrder(k) = Back!MppClose
  BY <1>7 DEF Back!MppClose
<1>8. CASE Back!CloseOrder(k) = <<>>
  BY <1>8
<1>9. QED
  BY <1>1, <1>2, <1>3, <1>4, <1>5, <1>6, <1>7, <1>8, EveryKind

(* Open acquires what a resource is used through before it, *)
LEMMA OpenedThrough ==
  ASSUME NEW k, NEW i \in DOMAIN Back!OpenSteps(k), NEW r \in Back!Through(Back!OpenSteps(k)[i]),
         Back!OpenSteps(k)[i] \in Back!Elements(Back!CloseOrder(k))
  PROVE  /\ r \in Back!Elements(Back!CloseOrder(k))
         /\ \E j \in DOMAIN Back!OpenSteps(k) : j < i /\ Back!OpenSteps(k)[j] = r
<1>1. CASE Back!OpenSteps(k) = Back!V4l2Open /\ Back!CloseOrder(k) = Back!V4l2Close
  BY <1>1 DEF Back!V4l2Open, Back!V4l2Close, Back!Elements, Back!Through
<1>2. CASE Back!OpenSteps(k) = Back!AlsaOpen /\ Back!CloseOrder(k) = Back!AlsaClose
  BY <1>2 DEF Back!AlsaOpen, Back!AlsaClose, Back!Elements, Back!Through
<1>3. CASE Back!OpenSteps(k) = Back!JpegOpen /\ Back!CloseOrder(k) = Back!JpegClose
  BY <1>3 DEF Back!JpegOpen, Back!JpegClose, Back!Elements, Back!Through
<1>4. CASE Back!OpenSteps(k) = Back!RknnOpen /\ Back!CloseOrder(k) = Back!RknnClose
  BY <1>4 DEF Back!RknnOpen, Back!RknnClose, Back!Elements, Back!Through
<1>5. CASE Back!OpenSteps(k) = Back!FfmpegVideoOpen /\ Back!CloseOrder(k) = Back!FfmpegVideoClose
  BY <1>5 DEF Back!FfmpegVideoOpen, Back!FfmpegVideoClose, Back!Elements, Back!Through
<1>6. CASE Back!OpenSteps(k) = Back!FfmpegAudioOpen /\ Back!CloseOrder(k) = Back!FfmpegAudioClose
  BY <1>6 DEF Back!FfmpegAudioOpen, Back!FfmpegAudioClose, Back!Elements, Back!Through
<1>7. CASE Back!OpenSteps(k) = Back!MppOpen /\ Back!CloseOrder(k) = Back!MppClose
  <2> DEFINE steps == Back!MppOpen
  <2>1. /\ DOMAIN steps = 1 .. 11 /\ steps[1] = "mpp_library" /\ steps[2] = "rga_library"
        /\ steps[3] = "symbols" /\ steps[4] = "group"
    BY DEF Back!MppOpen, Back!MppLibraries
  <2>2. {"mpp_library", "group"} \subseteq Back!Elements(Back!MppClose)
    BY DEF Back!MppClose, Back!Elements
  <2>3. i \in 1 .. 11 /\ r \in Back!Through(steps[i])
        /\ steps[i] \in Back!Elements(Back!MppClose)
    BY <1>7, <2>1
  <2>4. steps[i] \in {"encoder", "config", "group", "nv12", "rgb", "rga_library", "mpp_library"}
    BY <2>3 DEF Back!MppClose, Back!Elements
  <2> HIDE DEF steps
  <2>5. CASE r = "mpp_library"
    <3>1. i # 1
      BY <2>1, <2>3, <2>5 DEF Back!Through
    <3>2. QED
      BY <1>7, <2>1, <2>2, <2>3, <2>5, <3>1 DEF steps
  <2>6. CASE r # "mpp_library"
    <3>1. r = "group" /\ steps[i] \in {"nv12", "rgb"}
      BY <2>3, <2>4, <2>6 DEF Back!Through
    <3>2. i # 1 /\ i # 2 /\ i # 3 /\ i # 4
      BY <2>1, <3>1
    <3>3. QED
      BY <1>7, <2>1, <2>2, <2>3, <3>1, <3>2 DEF steps
  <2>7. QED
    BY <2>5, <2>6
<1>8. CASE Back!OpenSteps(k) = <<>> /\ Back!CloseOrder(k) = <<>>
  BY <1>8 DEF Back!Elements, Back!Through
<1>9. QED
  BY <1>1, <1>2, <1>3, <1>4, <1>5, <1>6, <1>7, <1>8, EveryKind

(* No Close knows of what the MPP encoder forgot, *)
LEMMA CloseForgets ==
  ASSUME NEW k
  PROVE  "forgotten" \notin Back!Elements(Back!CloseOrder(k))
<1>1. CASE Back!CloseOrder(k) \in {Back!V4l2Close, Back!AlsaClose, Back!JpegClose, <<>>}
  BY <1>1 DEF Back!V4l2Close, Back!AlsaClose, Back!JpegClose, Back!Elements
<1>2. CASE Back!CloseOrder(k) \in {Back!RknnClose, Back!FfmpegVideoClose}
  BY <1>2 DEF Back!RknnClose, Back!FfmpegVideoClose, Back!Elements
<1>3. CASE Back!CloseOrder(k) \in {Back!FfmpegAudioClose, Back!MppClose}
  BY <1>3 DEF Back!FfmpegAudioClose, Back!MppClose, Back!Elements
<1>4. QED
  BY <1>1, <1>2, <1>3, EveryKind

(* and Close gives back what is used through another before that one. *)
LEMMA ClosedThrough ==
  ASSUME NEW k, NEW i \in DOMAIN Back!CloseOrder(k), NEW j \in DOMAIN Back!CloseOrder(k),
         Back!CloseOrder(k)[i] \in Back!Through(Back!CloseOrder(k)[j])
  PROVE  j < i
<1>1. CASE Back!CloseOrder(k) = Back!V4l2Close
  BY <1>1 DEF Back!V4l2Close, Back!Through
<1>2. CASE Back!CloseOrder(k) = Back!AlsaClose
  BY <1>2 DEF Back!AlsaClose, Back!Through
<1>3. CASE Back!CloseOrder(k) = Back!JpegClose
  BY <1>3 DEF Back!JpegClose, Back!Through
<1>4. CASE Back!CloseOrder(k) = Back!RknnClose
  BY <1>4 DEF Back!RknnClose, Back!Through
<1>5. CASE Back!CloseOrder(k) = Back!FfmpegVideoClose
  BY <1>5 DEF Back!FfmpegVideoClose, Back!Through
<1>6. CASE Back!CloseOrder(k) = Back!FfmpegAudioClose
  BY <1>6 DEF Back!FfmpegAudioClose, Back!Through
<1>7. CASE Back!CloseOrder(k) = Back!MppClose
  BY <1>7 DEF Back!MppClose, Back!Through
<1>8. CASE Back!CloseOrder(k) = <<>>
  BY <1>8 DEF Back!Through
<1>9. QED
  BY <1>1, <1>2, <1>3, <1>4, <1>5, <1>6, <1>7, <1>8, EveryKind

(* Every stop closes every device. *)
LEMMA StopClosesAll ==
  /\ Back!StopOrder \in Seq(Devices)
  /\ Devices \subseteq Back!Elements(Back!StopOrder)
BY DEF Back!StopOrder, Devices, Back!OpenOrder, Back!Elements

(* A rollback closes devices only. *)
LEMMA RollbackIsPlan ==
  ASSUME NEW d \in 1 .. 7
  PROVE  Back!OpenOrder[d] \in Devices /\ Back!Rollback[d] \in Seq(Devices)
<1>1. Back!OpenOrder[d] \in Devices
  BY DEF Devices, Back!OpenOrder, Back!Elements
<1>2. /\ "video_capture" \in Devices /\ "video_decoder" \in Devices
      /\ "video_encode_decoder" \in Devices /\ "audio_capture" \in Devices
      /\ "inference" \in Devices /\ "video_encoder" \in Devices
  BY DEF Devices, Back!OpenOrder, Back!Elements
<1>3. CASE d = 1
  <2>1. <<>> \in Seq(Devices)
    BY <1>2
  <2>2. QED
    BY <1>1, <1>3, <2>1 DEF Back!Rollback
<1>4. CASE d = 2
  <2>1. <<"video_capture">> \in Seq(Devices)
    BY <1>2
  <2>2. QED
    BY <1>1, <1>4, <2>1 DEF Back!Rollback
<1>5. CASE d = 3
  <2>1. <<"video_decoder", "video_capture">> \in Seq(Devices)
    BY <1>2
  <2>2. QED
    BY <1>1, <1>5, <2>1 DEF Back!Rollback
<1>6. CASE d = 4
  <2>1. <<"video_decoder", "video_encode_decoder", "video_capture">> \in Seq(Devices)
    BY <1>2
  <2>2. QED
    BY <1>1, <1>6, <2>1 DEF Back!Rollback
<1>7. CASE d = 5
  <2>1. <<"audio_capture", "video_decoder", "video_encode_decoder", "video_capture">>
          \in Seq(Devices)
    BY <1>2
  <2>2. QED
    BY <1>1, <1>7, <2>1 DEF Back!Rollback
<1>8. CASE d = 6
  <2>1. <<"inference", "audio_capture", "video_decoder", "video_encode_decoder",
          "video_capture">>
          \in Seq(Devices)
    BY <1>2
  <2>2. QED
    BY <1>1, <1>8, <2>1 DEF Back!Rollback
<1>9. CASE d = 7
  <2>1. <<"video_encoder", "inference", "audio_capture", "video_decoder",
          "video_encode_decoder", "video_capture">>
          \in Seq(Devices)
    BY <1>2
  <2>2. QED
    BY <1>1, <1>9, <2>1 DEF Back!Rollback
<1>10. QED
  BY <1>3, <1>4, <1>5, <1>6, <1>7, <1>8, <1>9

(* A plan that ends with the order of StopWorkers closes every device. *)
LEMMA PlanClosesAll ==
  ASSUME NEW s \in Seq(Devices)
  PROVE  /\ s \o Back!StopOrder \in Seq(Devices)
         /\ Devices \subseteq Back!Elements(s \o Back!StopOrder)
<1>1. Back!StopOrder \in Seq(Devices) /\ Devices \subseteq Back!Elements(Back!StopOrder)
  BY StopClosesAll
<1> DEFINE t == Back!StopOrder
<1> HIDE DEF t
<1>2. /\ s \o t \in Seq(Devices) /\ Len(s \o t) = Len(s) + Len(t)
      /\ \A i \in 1 .. Len(s) + Len(t) :
           (s \o t)[i] = IF i <= Len(s) THEN s[i] ELSE t[i - Len(s)]
  BY <1>1, ConcatProperties DEF t
<1>3. ASSUME NEW d \in Devices PROVE d \in Back!Elements(s \o t)
  <2>1. PICK i \in 1 .. Len(t) : t[i] = d
    BY <1>1 DEF Back!Elements, t
  <2>2. Len(s) + i \in 1 .. Len(s \o t) /\ (s \o t)[Len(s) + i] = d
    BY <1>1, <1>2, <2>1 DEF t
  <2>3. QED
    BY <1>2, <2>2 DEF Back!Elements
<1>4. QED
  BY <1>2, <1>3 DEF t

(* A device that was closed is off the plan, and no other is. *)
LEMMA TailKeeps ==
  ASSUME NEW s \in Seq(Devices), s # <<>>, NEW d \in Back!Elements(s), d # Head(s)
  PROVE  d \in Back!Elements(Tail(s))
<1>1. /\ Len(s) \in Nat /\ Tail(s) \in Seq(Devices) /\ Len(Tail(s)) = Len(s) - 1
      /\ \A i \in 1 .. Len(Tail(s)) : Tail(s)[i] = s[i + 1]
  BY HeadTailProperties
<1>2. PICK i \in 1 .. Len(s) : s[i] = d
  BY DEF Back!Elements
<1>3. i # 1
  BY <1>2
<1>4. i - 1 \in 1 .. Len(Tail(s)) /\ Tail(s)[i - 1] = d
  BY <1>1, <1>2, <1>3
<1>5. DOMAIN Tail(s) = 1 .. Len(Tail(s))
  BY <1>1
<1> DEFINE t == Tail(s)
<1> HIDE DEF t
<1>6. i - 1 \in DOMAIN t /\ t[i - 1] = d
  BY <1>4, <1>5 DEF t
<1>7. QED
  BY <1>6 DEF Back!Elements, t

(* The steps of the Open in progress. *)
LEMMA StepsAreOf ==
  /\ Len(Back!Steps) \in 0 .. 11
  /\ (~Back!Wanted(Back!Current) => Back!Steps = <<>>)
BY StepsAreFew DEF Back!Steps

(* Nothing is held at first. *)
LEMMA BackInit == Back!Init => BackInv
<1> SUFFICES ASSUME Back!Init PROVE BackInv
  OBVIOUS
<1>1. /\ device = 1 /\ opening = 0 /\ plan = <<>>
      /\ resources = {} /\ progress = "opening" /\ setup \in Back!Setups
  BY DEF Back!Init
<1>2. OpeningHolds
  <2>1. Len(Back!Steps) \in 0 .. 11
    BY StepsAreOf
  <2>2. Acquired(Back!Current, opening)
    BY <1>1 DEF Acquired
  <2>3. QED
    BY <1>1, <2>1, <2>2 DEF OpeningHolds
<1>3. BackTypes
  <2>1. <<>> \in Seq(Devices)
    OBVIOUS
  <2>2. QED
    BY <1>1, <2>1 DEF BackTypes
<1>4. QED
  BY <1>1, <1>2, <1>3 DEF BackInv

(* Acquiring more keeps what is open, *)
LEMMA AcquiringKeeps ==
  ASSUME NEW d, NEW n, setup' = setup, resources \subseteq resources', Acquired(d, n)
  PROVE  Acquired(d, n)'
BY DEF Acquired, Back!Kind

(* No Open acquires the larger buffer or the outputs, *)
LEMMA OpenNeverAcquires ==
  ASSUME NEW k, NEW i \in DOMAIN Back!OpenSteps(k)
  PROVE  Back!OpenSteps(k)[i] \notin {"rgb", "outputs"}
<1>1. CASE Back!OpenSteps(k) = Back!V4l2Open
  BY <1>1 DEF Back!V4l2Open
<1>2. CASE Back!OpenSteps(k) = Back!AlsaOpen
  BY <1>2 DEF Back!AlsaOpen
<1>3. CASE Back!OpenSteps(k) = Back!JpegOpen
  BY <1>3 DEF Back!JpegOpen
<1>4. CASE Back!OpenSteps(k) = Back!RknnOpen
  BY <1>4 DEF Back!RknnOpen
<1>5. CASE Back!OpenSteps(k) = Back!FfmpegVideoOpen
  BY <1>5 DEF Back!FfmpegVideoOpen
<1>6. CASE Back!OpenSteps(k) = Back!FfmpegAudioOpen
  BY <1>6 DEF Back!FfmpegAudioOpen
<1>7. CASE Back!OpenSteps(k) = Back!MppOpen
  BY <1>7 DEF Back!MppOpen, Back!MppLibraries
<1>8. CASE Back!OpenSteps(k) = <<>>
  BY <1>8
<1>9. QED
  BY <1>1, <1>2, <1>3, <1>4, <1>5, <1>6, <1>7, <1>8, EveryKind


(* so giving them back keeps what is open, too. *)
LEMMA ReleasingKeeps ==
  ASSUME NEW d, NEW n \in Nat, n <= Len(Back!OpenSteps(Back!Kind(d))),
         NEW e, NEW r \in {"rgb", "outputs"}, setup' = setup,
         resources \ {<<e, r>>} \subseteq resources', Acquired(d, n)
  PROVE  Acquired(d, n)'
<1>1. Back!Kind(d)' = Back!Kind(d)
  BY DEF Back!Kind
<1>2. ASSUME NEW i \in 1 .. n,
             Back!OpenSteps(Back!Kind(d))[i] \in Back!Elements(Back!CloseOrder(Back!Kind(d)))
      PROVE  <<d, Back!OpenSteps(Back!Kind(d))[i]>> \in resources'
  <2>1. Back!OpenSteps(Back!Kind(d))[i] \notin {"rgb", "outputs"}
    <3>1. /\ Len(Back!OpenSteps(Back!Kind(d))) \in 0 .. 11
          /\ DOMAIN Back!OpenSteps(Back!Kind(d)) = 1 .. Len(Back!OpenSteps(Back!Kind(d)))
      BY StepsAreFew
    <3>2. i \in DOMAIN Back!OpenSteps(Back!Kind(d))
      BY <3>1
    <3>3. QED
      BY <3>2, OpenNeverAcquires
  <2>2. <<d, Back!OpenSteps(Back!Kind(d))[i]>> \in resources
    BY <1>2 DEF Acquired
  <2>3. <<d, Back!OpenSteps(Back!Kind(d))[i]>> # <<e, r>>
    BY <2>1
  <2>4. QED
    BY <2>2, <2>3
<1>3. QED
  BY <1>1, <1>2 DEF Acquired

(* A step of Open acquires what the ones before it have prepared. *)
LEMMA AcquireKeepsInv ==
  ASSUME BackInv, Back!Acquire
  PROVE  BackInv'
<1> DEFINE k == Back!Kind(Back!Current)
           r == Back!OpenSteps(k)[opening + 1]
<1>1. /\ progress = "opening" /\ progress' = progress /\ opening' = opening + 1
      /\ setup' = setup /\ device' = device /\ plan' = plan
      /\ OpeningHolds /\ BackTypes /\ \A h \in resources : Owned(h) /\ Usable(h)
  BY DEF Back!Acquire, BackInv
<1>2. /\ Back!Wanted(Back!Current) /\ Back!Steps = Back!OpenSteps(k)
      /\ opening < Len(Back!OpenSteps(k))
  BY <1>1, StepsAreOf DEF Back!Acquire, Back!Steps, BackTypes
<1>3. /\ opening + 1 \in DOMAIN Back!OpenSteps(k) /\ opening + 1 \in 1 .. 11 /\ opening \in Nat
      /\ Len(Back!OpenSteps(k)) \in 0 .. 11
  <2>1. /\ Len(Back!OpenSteps(k)) \in 0 .. 11
        /\ DOMAIN Back!OpenSteps(k) = 1 .. Len(Back!OpenSteps(k))
    BY StepsAreFew
  <2>2. opening \in 0 .. 11
    BY <1>1 DEF BackTypes
  <2> DEFINE n == Len(Back!OpenSteps(k))
  <2>3. n \in 0 .. 11 /\ opening < n /\ DOMAIN Back!OpenSteps(k) = 1 .. n
    BY <1>2, <2>1
  <2> HIDE DEF n
  <2>4. opening + 1 \in 1 .. n /\ opening + 1 \in 1 .. 11 /\ opening \in Nat
    BY <2>2, <2>3
  <2>5. QED
    BY <2>1, <2>3, <2>4
<1>4. resources' = IF r \in Back!Elements(Back!CloseOrder(k))
                   THEN resources \cup {<<Back!Current, r>>} ELSE resources
  BY <1>2 DEF Back!Acquire
<1>5. /\ resources \subseteq resources' /\ Acquired(Back!Current, opening)
      /\ Back!Current \in Devices
  BY <1>1, <1>2, <1>4, RollbackIsPlan DEF OpeningHolds, BackTypes, Back!Current
<1>6. ASSUME NEW d PROVE Back!Kind(d)' = Back!Kind(d) /\ Back!Wanted(d)' = Back!Wanted(d)
  BY <1>1 DEF Back!Kind, Back!Wanted, Back!NeedsDecoder, Back!NeedsEncodeDecoder
<1>7. Back!Current' = Back!Current /\ Back!Steps' = Back!Steps
  BY <1>1, <1>6 DEF Back!Current, Back!Steps
<1> HIDE DEF r, k
<1>8. OpeningHolds'
  <2>1. Acquired(Back!Current, opening)'
    <3>1. ASSUME NEW i \in 1 .. opening + 1,
                 Back!OpenSteps(k)[i] \in Back!Elements(Back!CloseOrder(k))
          PROVE  <<Back!Current, Back!OpenSteps(k)[i]>> \in resources'
      <4>1. CASE i = opening + 1
        BY <1>4, <3>1, <4>1 DEF r
      <4>2. CASE i # opening + 1
        <5>1. i \in 1 .. opening
          BY <1>3, <4>2
        <5>2. QED
          BY <1>5, <3>1, <5>1 DEF Acquired, k
      <4>3. QED
        BY <4>1, <4>2
    <3>2. QED
      BY <1>1, <1>6, <1>7, <3>1 DEF Acquired, k
  <2>2. \A i \in 1 .. device - 1 : Opened(Back!OpenOrder[i])'
    BY <1>1, <1>5, <1>6, AcquiringKeeps DEF Opened, OpeningHolds
  <2>3. opening' <= Len(Back!Steps')
    BY <1>1, <1>2, <1>3, <1>7
  <2>4. QED
    BY <1>1, <1>7, <2>1, <2>2, <2>3 DEF OpeningHolds
<1>9. ASSUME NEW h \in resources' PROVE Owned(h)' /\ Usable(h)'
  <2>1. CASE h \in resources
    BY <1>1, <1>5, <1>6, <2>1 DEF Owned, Usable
  <2>2. CASE h \notin resources
    <3>1. h = <<Back!Current, r>> /\ r \in Back!Elements(Back!CloseOrder(k))
      BY <1>4, <2>2
    <3>2. ASSUME NEW q \in Back!Through(r) PROVE <<Back!Current, q>> \in resources
      <4>1. /\ q \in Back!Elements(Back!CloseOrder(k))
            /\ \E j \in DOMAIN Back!OpenSteps(k) : j < opening + 1 /\ Back!OpenSteps(k)[j] = q
        BY <1>3, <3>1, <3>2, OpenedThrough DEF r
      <4>2. PICK j \in DOMAIN Back!OpenSteps(k) : j < opening + 1 /\ Back!OpenSteps(k)[j] = q
        BY <4>1
      <4>3. j \in 1 .. opening
        BY <1>3, <4>2, StepsAreFew
      <4>4. QED
        BY <1>5, <4>1, <4>2, <4>3 DEF Acquired, k
    <3>3. h[1] = Back!Current /\ h[2] = r /\ h = <<h[1], h[2]>>
      BY <3>1
    <3>4. QED
      <4>1. h # Back!Forgotten
        BY <3>1, CloseForgets DEF Back!Forgotten
      <4>2. QED
        BY <1>5, <1>6, <3>1, <3>2, <3>3, <4>1 DEF Owned, Usable, k
  <2>3. QED
    BY <2>1, <2>2
<1>10. BackTypes'
  BY <1>1, <1>3 DEF BackTypes
<1>11. QED
  BY <1>1, <1>8, <1>9, <1>10 DEF BackInv

(* A device that is open stays so while the next one is opened; when one fails,
   all of them are on the plan. *)
LEMMA OpeningKeepsInv ==
  ASSUME BackInv, Back!OpenNext \/ Back!OpenFails
  PROVE  BackInv'
<1>1. /\ progress = "opening" /\ setup' = setup /\ resources' = resources
      /\ OpeningHolds /\ BackTypes /\ \A h \in resources : Owned(h) /\ Usable(h)
  BY DEF Back!OpenNext, Back!OpenFails, BackInv
<1>2. ASSUME NEW d PROVE Back!Kind(d)' = Back!Kind(d) /\ Back!Wanted(d)' = Back!Wanted(d)
  BY <1>1 DEF Back!Kind, Back!Wanted, Back!NeedsDecoder, Back!NeedsEncodeDecoder
<1>3. ASSUME NEW d, NEW n PROVE Acquired(d, n)' = Acquired(d, n) /\ Opened(d)' = Opened(d)
  BY <1>1, <1>2 DEF Acquired, Opened
<1>4. \A h \in resources' : Owned(h)' /\ Usable(h)'
  BY <1>1, <1>2 DEF Owned, Usable
<1>5. CASE Back!OpenNext
  <2>1. /\ opening = Len(Back!Steps) /\ opening' = 0 /\ plan' = plan
        /\ IF device < 7 THEN device' = device + 1 /\ progress' = progress
           ELSE progress' = "running" /\ device' = device
    BY <1>5 DEF Back!OpenNext, Back!OpenOrder
  <2>2. Opened(Back!Current)
    BY <1>1, <2>1 DEF Opened, OpeningHolds, Back!Steps
  <2>3. device \in 1 .. 7 /\ \A i \in 1 .. device : Opened(Back!OpenOrder[i])
    <3>1. ASSUME NEW i \in 1 .. device PROVE Opened(Back!OpenOrder[i])
      <4>1. CASE i = device
        BY <2>2, <4>1 DEF Back!Current
      <4>2. CASE i # device
        <5>1. i \in 1 .. device - 1
          BY <1>1, <4>2 DEF BackTypes
        <5>2. QED
          BY <1>1, <5>1 DEF OpeningHolds
      <4>3. QED
        BY <4>1, <4>2
    <3>2. QED
      BY <1>1, <3>1 DEF BackTypes
  <2>4. \A i \in 1 .. device : Opened(Back!OpenOrder[i])'
    BY <1>3, <2>3
  <2>5. BackTypes'
    BY <1>1, <2>1, <2>3 DEF BackTypes
  <2>6. CASE device < 7
    <3>1. device' - 1 = device /\ progress' = "opening"
      BY <1>1, <2>1, <2>3, <2>6
    <3>2. Len(Back!Steps)' \in 0 .. 11 /\ opening' <= Len(Back!Steps)'
      BY <2>1, StepsAreFew DEF Back!Steps
    <3>3. Acquired(Back!Current, opening)'
      BY <2>1 DEF Acquired
    <3>4. OpeningHolds'
      BY <2>4, <3>1, <3>2, <3>3 DEF OpeningHolds
    <3>5. QED
      BY <1>4, <2>5, <3>1, <3>4 DEF BackInv
  <2>7. CASE ~(device < 7)
    <3>1. device = 7 /\ progress' = "running"
      BY <2>1, <2>3, <2>7
    <3>2. RunningHolds'
      BY <2>4, <3>1 DEF RunningHolds
    <3>3. QED
      BY <1>4, <2>5, <3>1, <3>2 DEF BackInv
  <2>8. QED
    BY <2>6, <2>7
<1>6. CASE Back!OpenFails
  <2>1. /\ progress' = "stopping" /\ device' = device /\ opening' = opening
        /\ plan' = (<<Back!Current>> \o Back!Rollback[device]) \o Back!StopOrder
    BY <1>6 DEF Back!OpenFails
  <2>2. <<Back!Current>> \o Back!Rollback[device] \in Seq(Devices)
    <3>1. Back!Current \in Devices /\ Back!Rollback[device] \in Seq(Devices)
      BY <1>1, RollbackIsPlan DEF BackTypes, Back!Current
    <3>2. <<Back!Current>> \in Seq(Devices)
      BY <3>1
    <3>3. QED
      BY <3>1, <3>2, ConcatProperties
  <2>3. plan' \in Seq(Devices) /\ Devices \subseteq Back!Elements(plan')
    BY <2>1, <2>2, PlanClosesAll
  <2>4. StopPlanned'
    BY <1>1, <2>3 DEF StopPlanned, Owned
  <2>5. BackTypes'
    BY <1>1, <2>1, <2>3 DEF BackTypes
  <2>6. QED
    BY <1>4, <2>1, <2>4, <2>5 DEF BackInv
<1>7. QED
  BY <1>5, <1>6

(* Nothing is used through what no Open acquires. *)
LEMMA NothingThroughThem ==
  ASSUME NEW q
  PROVE  "rgb" \notin Back!Through(q) /\ "outputs" \notin Back!Through(q)
BY DEF Back!Through

(* Giving them back leaves all else as it was. *)
LEMMA ReleasingKeepsHeld ==
  ASSUME BackInv, NEW e, NEW r \in {"rgb", "outputs"},
         resources \ {<<e, r>>} \subseteq resources',
         UNCHANGED <<setup, device, opening>>
  PROVE  /\ OpeningHolds => OpeningHolds'
         /\ RunningHolds => RunningHolds'
         /\ \A h \in resources : Owned(h)' /\ Usable(h)'
<1>1. ASSUME NEW d PROVE Back!Kind(d)' = Back!Kind(d) /\ Back!Wanted(d)' = Back!Wanted(d)
  BY DEF Back!Kind, Back!Wanted, Back!NeedsDecoder, Back!NeedsEncodeDecoder
<1>2. BackTypes /\ \A h \in resources : Owned(h) /\ Usable(h)
  BY DEF BackInv
<1>3. ASSUME NEW d, Opened(d) PROVE Opened(d)'
  <2>1. Len(Back!OpenSteps(Back!Kind(d))) \in Nat
    BY StepsAreFew
  <2>2. QED
    BY <1>1, <1>3, <2>1, ReleasingKeeps DEF Opened
<1>4. OpeningHolds => OpeningHolds'
  <2> SUFFICES ASSUME OpeningHolds PROVE OpeningHolds'
    OBVIOUS
  <2>1. Back!Current' = Back!Current /\ Back!Steps' = Back!Steps
    BY <1>1 DEF Back!Current, Back!Steps
  <2>2. Back!Wanted(Back!Current) => Acquired(Back!Current, opening)'
    <3>1. /\ opening \in Nat
          /\ Back!Wanted(Back!Current) => opening <= Len(Back!OpenSteps(Back!Kind(Back!Current)))
      BY <1>2 DEF BackTypes, OpeningHolds, Back!Steps
    <3>2. \A n \in Nat :
            n <= Len(Back!OpenSteps(Back!Kind(Back!Current))) /\ Acquired(Back!Current, n) =>
                           Acquired(Back!OpenOrder[device], n)'
      BY ReleasingKeeps DEF Back!Current
    <3>3. Acquired(Back!Current, opening)' <=> Acquired(Back!OpenOrder[device], opening)'
      BY <2>1 DEF Back!Current
    <3>4. QED
      BY <3>1, <3>2, <3>3 DEF OpeningHolds
  <2>3. QED
    BY <1>1, <1>3, <2>1, <2>2 DEF OpeningHolds
<1>5. RunningHolds => RunningHolds'
  BY <1>3 DEF RunningHolds
<1>6. ASSUME NEW h \in resources PROVE Owned(h)' /\ Usable(h)'
  <2>1. Owned(h)'
    BY <1>1, <1>2, <1>6 DEF Owned
  <2>2. ASSUME NEW q \in Back!Through(h[2]) PROVE <<h[1], q>> \in resources'
    <3>1. q # r /\ <<h[1], q>> \in resources
      BY <1>2, <1>6, <2>2, NothingThroughThem DEF Usable
    <3>2. <<h[1], q>> # <<e, r>>
      BY <3>1
    <3>3. QED
      BY <3>1, <3>2
  <2>3. QED
    BY <2>1, <2>2 DEF Usable
<1>7. QED
  BY <1>4, <1>5, <1>6

(* What a resource acquired while running is used through was acquired by Open. *)
LEMMA RunningHasThrough ==
  ASSUME RunningHolds
  PROVE  /\ Back!Kind("audio_capture") = "alsa" => <<"audio_capture", "fd">> \in resources
         /\ Back!Kind("video_encoder") = "mpp" =>
              {<<"video_encoder", "group">>, <<"video_encoder", "mpp_library">>}
                \subseteq resources
         /\ Back!Kind("inference") = "rknn" => <<"inference", "network">> \in resources
<1>1. /\ Back!OpenOrder[4] = "audio_capture" /\ Back!OpenOrder[5] = "inference"
      /\ Back!OpenOrder[6] = "video_encoder"
  BY DEF Back!OpenOrder
<1>2. Opened("audio_capture") /\ Opened("inference") /\ Opened("video_encoder")
  BY <1>1 DEF RunningHolds
<1>3. Back!Wanted("audio_capture") /\ Back!Wanted("inference") /\ Back!Wanted("video_encoder")
  BY DEF Back!Wanted
<1>4. ASSUME Back!Kind("audio_capture") = "alsa"
      PROVE  <<"audio_capture", "fd">> \in resources
  <2>1. Back!OpenSteps("alsa") = Back!AlsaOpen /\ Back!CloseOrder("alsa") = Back!AlsaClose
    BY DEF Back!OpenSteps, Back!CloseOrder
  <2>2. Back!OpenSteps("alsa")[1] = "fd" /\ Len(Back!OpenSteps("alsa")) = 2
        /\ "fd" \in Back!Elements(Back!CloseOrder("alsa"))
    BY <2>1 DEF Back!AlsaOpen, Back!AlsaClose, Back!Elements
  <2>3. QED
    BY <1>2, <1>3, <1>4, <2>2 DEF Opened, Acquired
<1>5. ASSUME Back!Kind("video_encoder") = "mpp"
      PROVE  {<<"video_encoder", "group">>, <<"video_encoder", "mpp_library">>}
               \subseteq resources
  <2>1. Back!OpenSteps("mpp") = Back!MppOpen /\ Back!CloseOrder("mpp") = Back!MppClose
    BY DEF Back!OpenSteps, Back!CloseOrder
  <2>2. Back!OpenSteps("mpp")[1] = "mpp_library" /\ Back!OpenSteps("mpp")[4] = "group"
        /\ Len(Back!OpenSteps("mpp")) = 11
    BY <2>1 DEF Back!MppOpen, Back!MppLibraries
  <2>3. {"mpp_library", "group"} \subseteq Back!Elements(Back!CloseOrder("mpp"))
    BY <2>1 DEF Back!MppClose, Back!Elements
  <2>4. QED
    BY <1>2, <1>3, <1>5, <2>2, <2>3 DEF Opened, Acquired
<1>6. ASSUME Back!Kind("inference") = "rknn"
      PROVE  <<"inference", "network">> \in resources
  <2>1. Back!OpenSteps("rknn") = Back!RknnOpen /\ Back!CloseOrder("rknn") = Back!RknnClose
    BY DEF Back!OpenSteps, Back!CloseOrder
  <2>2. Back!OpenSteps("rknn")[2] = "network" /\ Len(Back!OpenSteps("rknn")) = 3
        /\ "network" \in Back!Elements(Back!CloseOrder("rknn"))
    BY <2>1 DEF Back!RknnOpen, Back!RknnClose, Back!Elements
  <2>3. QED
    BY <1>2, <1>3, <1>6, <2>2 DEF Opened, Acquired
<1>7. QED
  BY <1>4, <1>5, <1>6

(* The resource acquired while running is owned and usable, *)
LEMMA RunningAcquires ==
  ASSUME RunningHolds, UNCHANGED setup,
         NEW d \in {"audio_capture", "video_encoder", "inference"}, NEW r,
         \/ d = "audio_capture" /\ r = "stream" /\ Back!Kind(d) = "alsa"
         \/ d = "video_encoder" /\ r = "rgb" /\ Back!Kind(d) = "mpp"
         \/ d = "inference" /\ r = "outputs" /\ Back!Kind(d) = "rknn",
         \A q : <<d, q>> \in resources /\ q # r => <<d, q>> \in resources'
  PROVE  Owned(<<d, r>>)' /\ Usable(<<d, r>>)'
<1>1. Back!Kind(d)' = Back!Kind(d) /\ d \in Devices
  BY DEF Back!Kind, Devices, Back!OpenOrder, Back!Elements
<1>2. <<d, r>>[1] = d /\ <<d, r>>[2] = r
  OBVIOUS
<1>3. <<d, r>> = Back!Outputs \/ r \in Back!Elements(Back!CloseOrder(Back!Kind(d)))
  <2>1. "stream" \in Back!Elements(Back!CloseOrder("alsa"))
    <3>1. Back!CloseOrder("alsa") = Back!AlsaClose
      BY DEF Back!CloseOrder
    <3>2. QED
      BY <3>1 DEF Back!AlsaClose, Back!Elements
  <2>2. "rgb" \in Back!Elements(Back!CloseOrder("mpp"))
    <3>1. Back!CloseOrder("mpp") = Back!MppClose
      BY DEF Back!CloseOrder
    <3>2. QED
      BY <3>1 DEF Back!MppClose, Back!Elements
  <2>3. QED
    BY <2>1, <2>2 DEF Back!Outputs
<1>4. \A q \in Back!Through(r) : <<d, q>> \in resources /\ q # r
  <2>1. Back!Through("stream") = {"fd"} /\ Back!Through("rgb") = {"group", "mpp_library"}
        /\ Back!Through("outputs") = {"network"}
    BY DEF Back!Through
  <2>2. QED
    BY <2>1, RunningHasThrough
<1>5. <<d, r>> # Back!Forgotten
  BY DEF Back!Forgotten
<1>6. QED
  BY <1>1, <1>2, <1>3, <1>4, <1>5 DEF Owned, Usable

(* and every step while running keeps the invariant. *)
LEMMA RunningKeepsInv ==
  ASSUME BackInv,
         \/ Back!AlsaStarts \/ Back!MppGetsBuffer \/ Back!MppFindsNoBuffer
         \/ Back!MppForgetsBuffer \/ Back!InferBegins \/ Back!InferEnds
  PROVE  BackInv'
<1>1. /\ UNCHANGED <<setup, progress, device, opening, plan>>
      /\ BackTypes /\ \A h \in resources : Owned(h) /\ Usable(h)
  BY DEF Back!AlsaStarts, Back!MppGetsBuffer, Back!MppFindsNoBuffer, Back!MppForgetsBuffer,
         Back!InferBegins, Back!InferEnds, BackInv
<1>2. BackTypes'
  BY <1>1 DEF BackTypes
<1>3. CASE Back!InferEnds
  <2>1. Back!Outputs \in resources /\ resources' = resources \ {Back!Outputs}
    BY <1>3 DEF Back!InferEnds
  <2>2. /\ OpeningHolds => OpeningHolds'
        /\ RunningHolds => RunningHolds'
        /\ \A h \in resources : Owned(h)' /\ Usable(h)'
    BY <1>1, <2>1, ReleasingKeepsHeld DEF Back!Outputs
  <2>3. StopPlanned => StopPlanned'
    BY <1>1, <2>1 DEF StopPlanned
  <2>4. QED
    BY <1>1, <1>2, <2>1, <2>2, <2>3 DEF BackInv
<1>4. ASSUME NEW d \in {"audio_capture", "video_encoder", "inference"}, NEW r, RunningHolds,
             progress = "running",
             \/ d = "audio_capture" /\ r = "stream" /\ Back!Kind(d) = "alsa"
             \/ d = "video_encoder" /\ r = "rgb" /\ Back!Kind(d) = "mpp"
             \/ d = "inference" /\ r = "outputs" /\ Back!Kind(d) = "rknn",
             \/ resources' = resources \cup {<<d, r>>}
             \/ (r = "rgb" /\ resources' = resources \ {<<d, r>>})
      PROVE  BackInv'
  <2>1. CASE resources' = resources \cup {<<d, r>>}
    <3>1. resources \ {<<d, "rgb">>} \subseteq resources'
      BY <2>1
    <3>2. RunningHolds' /\ \A h \in resources : Owned(h)' /\ Usable(h)'
      BY <1>1, <1>4, <3>1, ReleasingKeepsHeld
    <3>3. Owned(<<d, r>>)' /\ Usable(<<d, r>>)'
      BY <1>1, <1>4, <2>1, RunningAcquires
    <3>4. QED
      BY <1>1, <1>2, <1>4, <2>1, <3>2, <3>3 DEF BackInv
  <2>2. CASE r = "rgb" /\ resources' = resources \ {<<d, r>>}
    <3>1. RunningHolds' /\ \A h \in resources : Owned(h)' /\ Usable(h)'
      BY <1>1, <1>4, <2>2, ReleasingKeepsHeld
    <3>2. QED
      BY <1>1, <1>2, <1>4, <2>2, <3>1 DEF BackInv
  <2>3. QED
    BY <1>4, <2>1, <2>2
<1>5. ASSUME \/ Back!AlsaStarts \/ Back!MppGetsBuffer \/ Back!MppFindsNoBuffer
             \/ Back!MppForgetsBuffer \/ Back!InferBegins
      PROVE  progress = "running" /\ RunningHolds
  BY <1>5 DEF Back!AlsaStarts, Back!MppGetsBuffer, Back!MppFindsNoBuffer, Back!MppForgetsBuffer,
         Back!InferBegins, Back!Open, BackInv
<1>6. CASE Back!AlsaStarts
  BY <1>4, <1>5, <1>6 DEF Back!AlsaStarts, Back!Open
<1>7. CASE Back!MppGetsBuffer
  BY <1>4, <1>5, <1>7 DEF Back!MppGetsBuffer, Back!RgbBuffer, Back!Open
<1>8. CASE Back!MppFindsNoBuffer
  BY <1>4, <1>5, <1>8 DEF Back!MppFindsNoBuffer, Back!RgbBuffer, Back!Open
<1>9. CASE Back!MppForgetsBuffer
  <2>1. /\ setup.video_encoder = "mpp" /\ progress = "running" /\ RunningHolds
        /\ resources' = (resources \ {<<"video_encoder", "rgb">>}) \cup {Back!Forgotten}
    BY <1>5, <1>9 DEF Back!MppForgetsBuffer, Back!RgbBuffer, Back!Open, Back!Kind
  <2>2. RunningHolds' /\ \A h \in resources : Owned(h)' /\ Usable(h)'
    BY <1>1, <2>1, ReleasingKeepsHeld
  <2>3. "video_encoder" \in Devices
    BY DEF Devices, Back!OpenOrder, Back!Elements
  <2>4. Owned(Back!Forgotten)' /\ Usable(Back!Forgotten)'
    BY <1>1, <2>1, <2>3 DEF Back!Forgotten, Owned, Usable, Back!Through
  <2>5. QED
    BY <1>1, <1>2, <2>1, <2>2, <2>4 DEF BackInv
<1>10. CASE Back!InferBegins
  BY <1>4, <1>5, <1>10 DEF Back!InferBegins, Back!Open, Back!Outputs
<1>11. QED
  BY <1>3, <1>6, <1>7, <1>8, <1>9, <1>10

(* Closing in the order of Close and of the plan leaves nothing unusable. *)
LEMMA ClosingKeepsInv ==
  ASSUME BackInv, Back!StopWorkers \/ Back!Release \/ Back!Closed \/ Back!StopEnds
  PROVE  BackInv'
<1>1. /\ UNCHANGED <<setup, device, opening>>
      /\ BackTypes /\ \A h \in resources : Owned(h) /\ Usable(h)
  BY DEF Back!StopWorkers, Back!Release, Back!Closed, Back!StopEnds, BackInv
<1>2. ASSUME NEW d PROVE Back!Kind(d)' = Back!Kind(d)
  BY <1>1 DEF Back!Kind
<1>3. CASE Back!StopWorkers
  <2>1. /\ progress' = "stopping" /\ plan' = Back!StopOrder /\ resources' = resources
    BY <1>3 DEF Back!StopWorkers
  <2>2. plan' \in Seq(Devices) /\ Devices \subseteq Back!Elements(plan')
    BY <2>1, StopClosesAll
  <2>3. StopPlanned' /\ BackTypes'
    BY <1>1, <2>1, <2>2 DEF StopPlanned, Owned, BackTypes
  <2>4. \A h \in resources' : Owned(h)' /\ Usable(h)'
    BY <1>1, <1>2, <2>1 DEF Owned, Usable
  <2>5. QED
    BY <2>1, <2>3, <2>4 DEF BackInv
<1>4. CASE Back!Release
  <2> DEFINE d == Head(plan)
             order == Back!CloseOrder(Back!Kind(d))
  <2>1. PICK i \in DOMAIN order :
          /\ <<d, order[i]>> \in resources
          /\ \A j \in 1 .. i - 1 : <<d, order[j]>> \notin resources
          /\ resources' = resources \ {<<d, order[i]>>}
    BY <1>4 DEF Back!Release
  <2>2. /\ progress = "stopping" /\ progress' = progress /\ plan' = plan
        /\ (d = "inference" => Back!Outputs \notin resources)
    BY <1>4 DEF Back!Release
  <2>3. DOMAIN order = 1 .. Len(order) /\ Len(order) \in Nat
    BY CloseIsSequence
  <2> HIDE DEF d
  <2>4. ASSUME NEW h \in resources', NEW q \in Back!Through(h[2]) PROVE <<h[1], q>> \in resources'
    <3>1. h \in resources /\ h # <<d, order[i]>> /\ <<h[1], q>> \in resources
      BY <1>1, <2>1, <2>4 DEF Usable
    <3>2. CASE h[1] = d /\ q = order[i]
      <4>1. h # Back!Outputs /\ h # Back!Forgotten
        BY <2>2, <2>4, <3>1, <3>2 DEF Back!Outputs, Back!Forgotten, Back!Through
      <4>2. PICK j \in DOMAIN order : h[2] = order[j]
        BY <1>1, <3>1, <3>2, <4>1 DEF Owned, Back!Elements
      <4>3. j < i
        BY <2>4, <3>2, <4>2, ClosedThrough
      <4>4. j \in 1 .. i - 1
        BY <2>3, <4>3
      <4>5. h = <<d, order[j]>>
        BY <1>1, <3>1, <3>2, <4>2 DEF Owned
      <4>6. QED
        BY <2>1, <3>1, <4>4, <4>5
    <3>3. CASE ~(h[1] = d /\ q = order[i])
      <4>1. <<h[1], q>> # <<d, order[i]>>
        BY <3>3
      <4>2. QED
        BY <2>1, <3>1, <4>1
    <3>4. QED
      BY <3>2, <3>3
  <2>5. \A h \in resources' : Owned(h)' /\ Usable(h)'
    BY <1>1, <1>2, <2>1, <2>4 DEF Owned, Usable
  <2>6. StopPlanned'
    BY <2>1, <2>2 DEF BackInv, StopPlanned
  <2>7. BackTypes'
    BY <1>1, <2>2 DEF BackTypes
  <2>8. QED
    BY <2>2, <2>5, <2>6, <2>7 DEF BackInv
<1>5. CASE Back!Closed
  <2>1. /\ progress = "stopping" /\ progress' = progress /\ resources' = resources
        /\ plan # <<>> /\ plan' = Tail(plan)
        /\ \A r \in Back!Elements(Back!CloseOrder(Back!Kind(Head(plan)))) :
             <<Head(plan), r>> \notin resources
    BY <1>5 DEF Back!Closed
  <2>2. \A h \in resources' : Owned(h)' /\ Usable(h)'
    BY <1>1, <1>2, <2>1 DEF Owned, Usable
  <2>3. plan \in Seq(Devices) /\ Tail(plan) \in Seq(Devices)
    BY <1>1, <2>1, HeadTailProperties DEF BackTypes
  <2>4. StopPlanned
    BY <2>1 DEF BackInv
  <2>5. ASSUME NEW h \in resources
        PROVE  h \in {Back!Outputs, Back!Forgotten} \/ h[1] \in Back!Elements(Tail(plan))
    <3>1. CASE h \notin {Back!Outputs, Back!Forgotten}
      <4>1. h[1] \in Back!Elements(plan)
        BY <2>4, <3>1 DEF StopPlanned
      <4>2. h[1] # Head(plan)
        BY <1>1, <2>1, <3>1 DEF Owned
      <4>3. QED
        BY <2>1, <2>3, <4>1, <4>2, TailKeeps
    <3>2. QED
      BY <3>1
  <2>6. StopPlanned'
    BY <2>1, <2>5 DEF StopPlanned
  <2>7. BackTypes'
    BY <1>1, <2>1, <2>3 DEF BackTypes
  <2>8. QED
    BY <2>1, <2>2, <2>6, <2>7 DEF BackInv
<1>6. CASE Back!StopEnds
  <2>1. /\ progress = "stopping" /\ progress' = "stopped" /\ resources' = resources
        /\ plan' = plan
        /\ plan = <<>> /\ Back!Outputs \notin resources
    BY <1>6 DEF Back!StopEnds
  <2>2. \A h \in resources' : Owned(h)' /\ Usable(h)'
    BY <1>1, <1>2, <2>1 DEF Owned, Usable
  <2>3. BackTypes' /\ StopPlanned'
    BY <1>1, <2>1 DEF BackTypes, BackInv, StopPlanned
  <2>4. QED
    BY <2>1, <2>2, <2>3 DEF BackInv
<1>7. QED
  BY <1>3, <1>4, <1>5, <1>6

(* What is held is always usable and, once a stop has begun, still to be closed, but
   for what the MPP encoder forgot. *)
THEOREM BackSafe == Back!Spec => []BackInv
<1>1. BackInv /\ [Back!Next]_Back!backendVars => BackInv'
  <2> SUFFICES ASSUME BackInv, [Back!Next]_Back!backendVars PROVE BackInv'
    OBVIOUS
  <2>1. CASE UNCHANGED Back!backendVars
    BY <2>1 DEF Back!backendVars, BackInv, BackTypes, OpeningHolds, RunningHolds, StopPlanned,
                Owned, Usable, Opened, Acquired, Back!Current, Back!Steps, Back!Kind, Back!Wanted,
                Back!NeedsDecoder,
                Back!NeedsEncodeDecoder
  <2>2. CASE Back!Rest
    BY <2>1, <2>2 DEF Back!Rest
  <2>3. QED
    BY <2>1, <2>2, AcquireKeepsInv, OpeningKeepsInv, RunningKeepsInv, ClosingKeepsInv
    DEF Back!Next
<1>2. QED
  BY <1>1, BackInit, PTL DEF Back!Spec

-----------------------------------------------------------------------------
(* The parts of the system, each with the theorems about it *)

AudioTheorems == INSTANCE AudioPathProofs
V4l2Theorems == INSTANCE V4l2CaptureProofs
VideoTheorems == INSTANCE VideoEncoderProofs
  WITH Delay <- VideoDelay, codec <- frames, output <- received, submitted <- packets

(* Whatever the subject of a behaviour, each part starts in one of its initial
   states and takes one of its steps or none: the outputs do, *)
LEMMA OutputsAreSinks == AnySpec => Spec
<1>1. AnyInit => CreatePacketSink
  BY DEF AnyInit, NoOutput, CreatePacketSink
<1>2. [AnyNext]_everything => [Next]_vars
  BY DEF AnyNext, OutputStep, AudioStep, V4l2Step, VideoStep, BackendStep, everything
<1>3. QED
  BY <1>1, <1>2, PTL DEF AnySpec, Spec

(* the backends, *)
LEMMA BackendsAreBackends == AnySpec => Back!Spec
<1>1. AnyInit => Back!Init
  BY DEF AnyInit, NoBackends
<1>2. [AnyNext]_everything => [Back!Next]_Back!backendVars
  BY DEF AnyNext, OutputStep, AudioStep, V4l2Step, VideoStep, BackendStep, everything,
         backendVars, Back!backendVars
<1>3. QED
  BY <1>1, <1>2, PTL DEF AnySpec, Back!Spec

(* the audio path, *)
LEMMA AudioIsAudioPath == AnySpec => AudioTheorems!Spec
<1>1. AnyInit => Audio!Init
  BY DEF AnyInit, NoAudio
<1>2. Audio!Init => AudioTheorems!Init
  BY DEF Audio!Init, Audio!None, AudioTheorems!Init, AudioTheorems!None
<1>3. Audio!Next => AudioTheorems!Next
  BY DEF Audio!Next, Audio!Tick, Audio!captureVars, Audio!queueVars, Audio!encoderVars,
         Audio!Unplug, Audio!CaptureStep, Audio!ReadBegins, Audio!Stopping, Audio!Start,
         Audio!Go, Audio!OnlyCapture, Audio!StartFails, Audio!ReadPart, Audio!ReadSucceeds,
         Audio!ReadFails, Audio!ReadError, Audio!FailedRead, Audio!AlsaRecovers,
         Audio!RestartAt, Audio!RecoverFails, Audio!MockFails, Audio!XrunIsDue, Audio!MockReads,
         Audio!MockRecovers, Audio!Retry, Audio!Push, Audio!Samples, Audio!deviceVars,
         Audio!PushTimesOut, Audio!ReadGivesUp, Audio!CaptureStops, Audio!RequestStop,
         Audio!CloseQueue,
         Audio!EncodeStep, Audio!Accept, Audio!EncoderCancelled, Audio!Continuous, Audio!None,
         Audio!QueueConverted, Audio!Fail, Audio!AfterFailure, Audio!EncoderStep, Audio!Reject,
         Audio!EncodeFrame, Audio!SendFrame, Audio!Silence, Audio!Least, Audio!EncodeFrameFails,
         Audio!EncodeFails, Audio!EncodeReturns, Audio!QueueEnds, Audio!FlushFrame,
         Audio!RestOfFifo, Audio!LastSize, Audio!FlushReturns, Audio!FlushWith,
         Audio!FlushFails, Audio!Rest, Audio!audioVars, AudioTheorems!Next, AudioTheorems!Tick,
         AudioTheorems!captureVars, AudioTheorems!queueVars, AudioTheorems!encoderVars,
         AudioTheorems!Unplug, AudioTheorems!CaptureStep, AudioTheorems!ReadBegins,
         AudioTheorems!Stopping, AudioTheorems!Start, AudioTheorems!Go,
         AudioTheorems!OnlyCapture, AudioTheorems!StartFails, AudioTheorems!ReadPart,
         AudioTheorems!ReadSucceeds, AudioTheorems!ReadFails, AudioTheorems!ReadError,
         AudioTheorems!FailedRead, AudioTheorems!AlsaRecovers, AudioTheorems!RestartAt,
         AudioTheorems!RecoverFails, AudioTheorems!MockFails, AudioTheorems!XrunIsDue,
         AudioTheorems!MockReads, AudioTheorems!MockRecovers, AudioTheorems!Retry,
         AudioTheorems!Push, AudioTheorems!Samples, AudioTheorems!deviceVars,
         AudioTheorems!PushTimesOut, AudioTheorems!ReadGivesUp, AudioTheorems!CaptureStops,
         AudioTheorems!RequestStop,
         AudioTheorems!CloseQueue, AudioTheorems!EncodeStep, AudioTheorems!Accept,
         AudioTheorems!EncoderCancelled, AudioTheorems!Continuous, AudioTheorems!None,
         AudioTheorems!QueueConverted, AudioTheorems!Fail, AudioTheorems!AfterFailure,
         AudioTheorems!EncoderStep, AudioTheorems!Reject, AudioTheorems!EncodeFrame,
         AudioTheorems!SendFrame, AudioTheorems!Silence, AudioTheorems!Least,
         AudioTheorems!EncodeFrameFails, AudioTheorems!EncodeFails, AudioTheorems!EncodeReturns,
         AudioTheorems!QueueEnds, AudioTheorems!FlushFrame, AudioTheorems!RestOfFifo,
         AudioTheorems!LastSize, AudioTheorems!FlushReturns, AudioTheorems!FlushWith,
         AudioTheorems!FlushFails, AudioTheorems!Rest, AudioTheorems!audioVars
<1>4. [AnyNext]_everything => [AudioTheorems!Next]_AudioTheorems!audioVars
  BY <1>3 DEF AnyNext, OutputStep, AudioStep, V4l2Step, VideoStep, BackendStep, everything,
         audioVars, AudioTheorems!audioVars, AudioTheorems!deviceVars,
         AudioTheorems!captureVars, AudioTheorems!queueVars, AudioTheorems!encoderVars
<1>5. QED
  BY <1>1, <1>2, <1>4, PTL DEF AnySpec, AudioTheorems!Spec

(* Both instances count alike. *)
LEMMA SameCardinality ==
  \A S : V4l2!Cardinality(S) = V4l2Theorems!Cardinality(S)
BY DEF V4l2!Cardinality, V4l2Theorems!Cardinality

(* the camera *)
LEMMA CameraIsV4l2Capture == AnySpec => V4l2Theorems!Spec
<1>1. AnyInit => V4l2!Init
  BY DEF AnyInit
<1>2. V4l2!Init => V4l2Theorems!Init
  BY DEF V4l2!Init, V4l2!Buffers, V4l2Theorems!Init, V4l2Theorems!Buffers
<1>3. V4l2!Next => V4l2Theorems!Next
  BY SameCardinality DEF V4l2!Next, V4l2!Produce, V4l2!resourceVars, V4l2!readVars, V4l2!OpenStep,
         V4l2!OpenDevice, V4l2!driverVars, V4l2!Negotiate, V4l2!MapBuffer, V4l2!QueueBuffer,
         V4l2!StreamOn, V4l2!OpenFails, V4l2!Opening, V4l2!CloseUnlocked, V4l2!ReadStep,
         V4l2!ReadBegins, V4l2!ReadFails, V4l2!Dequeue, V4l2!DequeueInto, V4l2!OnlyRead,
         V4l2!CopyPayload, V4l2!RejectBuffer, V4l2!RejectWith, V4l2!GiveBackOrLose,
         V4l2!ReadReturns, V4l2!RequeueFails, V4l2!Close, V4l2Theorems!Next,
         V4l2Theorems!Produce, V4l2Theorems!resourceVars, V4l2Theorems!readVars,
         V4l2Theorems!OpenStep, V4l2Theorems!OpenDevice, V4l2Theorems!driverVars,
         V4l2Theorems!Negotiate, V4l2Theorems!MapBuffer, V4l2Theorems!QueueBuffer,
         V4l2Theorems!StreamOn, V4l2Theorems!OpenFails, V4l2Theorems!Opening,
         V4l2Theorems!CloseUnlocked, V4l2Theorems!ReadStep, V4l2Theorems!ReadBegins,
         V4l2Theorems!ReadFails, V4l2Theorems!Dequeue, V4l2Theorems!DequeueInto,
         V4l2Theorems!OnlyRead, V4l2Theorems!CopyPayload, V4l2Theorems!RejectBuffer,
         V4l2Theorems!RejectWith, V4l2Theorems!GiveBackOrLose, V4l2Theorems!ReadReturns,
         V4l2Theorems!RequeueFails, V4l2Theorems!Close
<1>4. [AnyNext]_everything => [V4l2Theorems!Next]_V4l2Theorems!v4l2Vars
  BY <1>3 DEF AnyNext, OutputStep, AudioStep, V4l2Step, VideoStep, BackendStep, everything,
         v4l2Vars, V4l2Theorems!v4l2Vars, V4l2Theorems!resourceVars, V4l2Theorems!driverVars,
         V4l2Theorems!readVars
<1>5. QED
  BY <1>1, <1>2, <1>4, PTL DEF AnySpec, V4l2Theorems!Spec

(* and the video encoder, too. *)
LEMMA VideoIsVideoEncoder == AnySpec => VideoTheorems!Spec
<1>1. AnyInit => Video!Init
  BY DEF AnyInit, NoVideo
<1>2. Video!Init => VideoTheorems!Init
  BY DEF Video!Init, Video!Times, Video!None, VideoTheorems!Init, VideoTheorems!Times,
         VideoTheorems!None
<1>3. Video!Next => VideoTheorems!Next
  BY DEF Video!Next, Video!Times, Video!Send, Video!FrameOf, Video!SendFails, Video!Fail,
         Video!Receive, Video!SequenceForPts, Video!None, Video!Forget, Video!ReceiveFails,
         Video!EncodeReturns, Video!QueueEnds, Video!Cancel, Video!SendEndOfStream,
         Video!FlushReturns, Video!FlushReturnsWhen, Video!FlushFails, Video!Rest,
         Video!encoderVars, VideoTheorems!Next, VideoTheorems!Times, VideoTheorems!Send,
         VideoTheorems!FrameOf, VideoTheorems!SendFails, VideoTheorems!Fail,
         VideoTheorems!Receive, VideoTheorems!SequenceForPts, VideoTheorems!None,
         VideoTheorems!Forget, VideoTheorems!ReceiveFails, VideoTheorems!EncodeReturns,
         VideoTheorems!QueueEnds, VideoTheorems!Cancel, VideoTheorems!SendEndOfStream,
         VideoTheorems!FlushReturns, VideoTheorems!FlushReturnsWhen, VideoTheorems!FlushFails,
         VideoTheorems!Rest, VideoTheorems!encoderVars
<1>4. [AnyNext]_everything => [VideoTheorems!Next]_VideoTheorems!encoderVars
  BY <1>3 DEF AnyNext, OutputStep, AudioStep, V4l2Step, VideoStep, BackendStep, everything,
         encoderVars, VideoTheorems!encoderVars
<1>5. QED
  BY <1>1, <1>2, <1>4, PTL DEF AnySpec, VideoTheorems!Spec

(* The assumptions are those of the parts. *)
LEMMA PartsAssume ==
  AudioTheorems!AudioAssumption /\ V4l2Theorems!V4l2Assumption /\ VideoTheorems!EncoderAssumption
BY PeripheralsAssumption
   DEF Audio!AudioAssumption, AudioTheorems!AudioAssumption, V4l2!V4l2Assumption,
       V4l2Theorems!V4l2Assumption, Video!EncoderAssumption, VideoTheorems!EncoderAssumption

-----------------------------------------------------------------------------
(* The properties of the parts, for the whole *)

(* Every audio packet says when its samples were captured. *)
THEOREM AudioIsTimed == AnySpec => []EncodedPtsIsCapturePts
<1>1. AudioTheorems!EncodedPtsIsCapturePts => EncodedPtsIsCapturePts
  BY DEF EncodedPtsIsCapturePts, Audio!EncodedPtsIsCapturePts, Audio!Made, Audio!Packet,
         Audio!Silence, AudioTheorems!EncodedPtsIsCapturePts, AudioTheorems!Made,
         AudioTheorems!Packet, AudioTheorems!Silence
<1>2. AnySpec => []AudioTheorems!EncodedPtsIsCapturePts
  BY AudioIsAudioPath, PartsAssume, AudioTheorems!PacketsSayWhenCaptured, PTL
<1>3. QED
  BY <1>1, <1>2, PTL

(* A drain without an error delivers the audio whole. *)
THEOREM AudioArrivesWhole == AnySpec => []AudioIsWhole
<1>1. AudioTheorems!AudioIsWhole => AudioIsWhole
  BY DEF AudioIsWhole, Audio!AudioIsWhole, Audio!Carried, Audio!Sound, Audio!Values,
         Audio!Increasing, Audio!Silence, AudioTheorems!AudioIsWhole, AudioTheorems!Carried,
         AudioTheorems!Sound, AudioTheorems!Values, AudioTheorems!Increasing,
         AudioTheorems!Silence
<1>2. AnySpec => []AudioTheorems!AudioIsWhole
  BY AudioIsAudioPath, PartsAssume, AudioTheorems!DrainIsWhole, PTL
<1>3. QED
  BY <1>1, <1>2, PTL

(* The encoder meets a gap only where the capture made one. *)
THEOREM GapHasCause == AnySpec => []ContinuityErrorHasCause
<1>1. AudioTheorems!ContinuityErrorHasCause => ContinuityErrorHasCause
  BY DEF ContinuityErrorHasCause, Audio!ContinuityErrorHasCause,
         AudioTheorems!ContinuityErrorHasCause
<1>2. AnySpec => []AudioTheorems!ContinuityErrorHasCause
  BY AudioIsAudioPath, PartsAssume, AudioTheorems!DiscontinuityHasCause, PTL
<1>3. QED
  BY <1>1, <1>2, PTL

(* No buffer of the camera is lost but to a requeue that failed. *)
THEOREM CameraKeepsBuffers == AnySpec => []BuffersAreConserved
<1>1. V4l2Theorems!BuffersAreConserved => BuffersAreConserved
  BY SameCardinality
     DEF BuffersAreConserved, V4l2!BuffersAreConserved, V4l2!Set, V4l2!Held,
         V4l2Theorems!BuffersAreConserved, V4l2Theorems!Set, V4l2Theorems!Held
<1>2. AnySpec => []V4l2Theorems!BuffersAreConserved
  BY CameraIsV4l2Capture, PartsAssume, V4l2Theorems!NoBufferIsLost, PTL
<1>3. QED
  BY <1>1, <1>2, PTL

(* Camera frames come in order. *)
THEOREM CameraKeepsOrder == AnySpec => FramesAreInOrder
<1>1. [delivered' # delivered => delivered' > delivered]_V4l2Theorems!v4l2Vars
        => [delivered' # delivered => delivered' > delivered]_V4l2!v4l2Vars
  BY DEF V4l2!v4l2Vars, V4l2!resourceVars, V4l2!driverVars, V4l2!readVars,
         V4l2Theorems!v4l2Vars, V4l2Theorems!resourceVars, V4l2Theorems!driverVars,
         V4l2Theorems!readVars
<1>2. AnySpec => V4l2Theorems!FramesAreInOrder
  BY CameraIsV4l2Capture, PartsAssume, V4l2Theorems!FramesComeInOrder
<1>3. QED
  BY <1>1, <1>2, PTL DEF FramesAreInOrder, V4l2!FramesAreInOrder, V4l2Theorems!FramesAreInOrder

(* Every video packet names the frame it was made of. *)
THEOREM VideoNamesFrames == AnySpec => []PacketsCarryTheirFrame
<1>1. VideoTheorems!PacketsCarryTheirFrame => PacketsCarryTheirFrame
  BY DEF PacketsCarryTheirFrame, Video!PacketsCarryTheirFrame, Video!Made, Video!FrameOf,
         VideoTheorems!PacketsCarryTheirFrame, VideoTheorems!Made, VideoTheorems!FrameOf
<1>2. AnySpec => []VideoTheorems!PacketsCarryTheirFrame
  BY VideoIsVideoEncoder, PartsAssume, VideoTheorems!PacketsNameFrames, PTL
<1>3. QED
  BY <1>1, <1>2, PTL

(* A drain without an error has a packet for each frame the codec took. *)
THEOREM VideoDrains == AnySpec => []DrainDeliversFrames
<1>1. VideoTheorems!DrainDeliversFrames => DrainDeliversFrames
  BY DEF DrainDeliversFrames, Video!DrainDeliversFrames, VideoTheorems!DrainDeliversFrames
<1>2. AnySpec => []VideoTheorems!DrainDeliversFrames
  BY VideoIsVideoEncoder, PartsAssume, VideoTheorems!DrainLosesNothing, PTL
<1>3. QED
  BY <1>1, <1>2, PTL

(* Whichever step of whichever Open fails and whenever the stop comes, nothing is
   left behind but buffers the MPP encoder forgot, and nothing known outlives what it
   is used through: Close gives back in the right order, and every plan ends with the
   order of StopWorkers. *)
THEOREM BackendsReleaseResources == AnySpec => []ResourcesAreReleased
<1>1. BackInv => ResourcesAreReleased
  <2> SUFFICES ASSUME BackInv PROVE ResourcesAreReleased
    OBVIOUS
  <2>1. ASSUME progress = "stopped" PROVE resources \subseteq {Back!Forgotten}
    <3>1. plan = <<>> /\ Back!Outputs \notin resources /\ StopPlanned
      BY <2>1 DEF BackInv
    <3>2. Back!Elements(plan) = {}
      BY <3>1 DEF Back!Elements
    <3>3. QED
      BY <3>1, <3>2 DEF StopPlanned
  <2>2. Back!Forgotten \in resources => setup.video_encoder = "mpp"
    BY DEF BackInv, Owned
  <2>3. \A h \in resources : Usable(h)
    BY DEF BackInv
  <2>4. QED
    BY <2>1, <2>2, <2>3 DEF ResourcesAreReleased, Back!ResourcesAreReleased, Usable
<1>2. AnySpec => []BackInv
  BY BackendsAreBackends, BackSafe, PTL
<1>3. QED
  BY <1>1, <1>2, PTL

(* All parts keep their types. *)
THEOREM PartsKeepTypes == AnySpec => []PartsTypeOK
<1>1. SinksInv => TypeOK
  BY DEF SinksInv, IsFile, FileInv, RtspInv, TypeOK, Places, Flags, Numbers, Rtsp!TypeOK
<1>2. AudioTheorems!TypeOK => Audio!TypeOK
  BY DEF Audio!TypeOK, AudioTheorems!TypeOK
<1>3. V4l2Theorems!V4l2Inv => V4l2!TypeOK
  BY DEF V4l2!TypeOK, V4l2!Opening, V4l2!Buffers, V4l2Theorems!V4l2Inv, V4l2Theorems!TypeOK,
         V4l2Theorems!Opening, V4l2Theorems!Buffers
<1>4. VideoTheorems!EncoderInv => Video!TypeOK
  BY DEF Video!TypeOK, Video!Times, Video!None, Video!Packets, VideoTheorems!EncoderInv,
         VideoTheorems!TypeOK, VideoTheorems!Times, VideoTheorems!None, VideoTheorems!Packets
<1>5. BackInv => Back!TypeOK
  <2>1. Len(Back!MppOpen) = 11 /\ DOMAIN Back!OpenOrder = 1 .. 7
    BY DEF Back!MppOpen, Back!MppLibraries, Back!OpenOrder
  <2>2. QED
    BY <2>1 DEF BackInv, BackTypes, Back!TypeOK, Owned, Devices
<1>6. AnySpec => []SinksInv
  BY OutputsAreSinks, SinksSafe, PTL
<1>7. AnySpec => []AudioTheorems!TypeOK
  BY AudioIsAudioPath, PartsAssume, AudioTheorems!AudioTypes, PTL
<1>8. AnySpec => []V4l2Theorems!V4l2Inv
  BY CameraIsV4l2Capture, PartsAssume, V4l2Theorems!V4l2Safe, PTL
<1>9. AnySpec => []VideoTheorems!EncoderInv
  BY VideoIsVideoEncoder, PartsAssume, VideoTheorems!EncoderSafe, PTL
<1>10. AnySpec => []BackInv
  BY BackendsAreBackends, BackSafe, PTL
<1>11. SinksInv /\ AudioTheorems!TypeOK /\ V4l2Theorems!V4l2Inv /\ VideoTheorems!EncoderInv
         /\ BackInv => PartsTypeOK
  BY <1>1, <1>2, <1>3, <1>4, <1>5 DEF PartsTypeOK
<1>12. QED
  BY <1>6, <1>7, <1>8, <1>9, <1>10, <1>11, PTL

==============================================================================
