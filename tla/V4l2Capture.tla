---------------------------- MODULE V4l2Capture -----------------------------
(***************************************************************************)
(* V4L2VideoCapture: the memory-mapped buffers that the driver and the     *)
(* program pass to each other.  Open acquires the device, the mappings and *)
(* the stream one after the other, Read takes a filled buffer, copies it   *)
(* and gives it back, Close releases everything.  The mutex of the class   *)
(* makes each call atomic to the others; the driver runs at any moment.    *)
(***************************************************************************)
EXTENDS Naturals, Sequences, FiniteSets

CONSTANTS
  Requested,    \* mmap_buffer_count
  MaxFrames     \* bound: frames the camera produces

V4l2Assumption == Requested \in Nat \ {0, 1} /\ MaxFrames \in Nat

VARIABLES
  call,         \* where the call in progress is
  fd,           \* file_descriptor_ >= 0
  mapped,       \* buffers_: the buffers that are mapped
  streaming,    \* streaming_ and open_
  granted,      \* request.count, as the driver answered
  incoming,     \* buffers queued in the driver, to be filled in this order
  outgoing,     \* buffers filled, to be dequeued in this order
  content,      \* the frame each buffer holds
  produced,     \* frames the camera has produced
  held,         \* the buffer the Read in progress has dequeued, 0 for none
  copy,         \* the frame it has copied
  delivered,    \* the last frame Read returned
  lost          \* history: buffers whose VIDIOC_QBUF failed

resourceVars == <<fd, mapped, streaming, granted>>
driverVars == <<incoming, outgoing, content, produced>>
readVars == <<held, copy, delivered, lost>>
v4l2Vars == <<call, resourceVars, driverVars, readVars>>

Buffers == 1 .. Requested
Opening == {"negotiating", "mapping", "queueing", "starting"}

Init ==
  /\ call = "closed"
  /\ fd = FALSE /\ mapped = {} /\ streaming = FALSE /\ granted = 0
  /\ incoming = <<>> /\ outgoing = <<>>
  /\ content = [b \in Buffers |-> 0] /\ produced = 0
  /\ held = 0 /\ copy = 0 /\ delivered = 0 /\ lost = {}

-----------------------------------------------------------------------------
(* The camera *)

(* A frame for which no buffer is queued is dropped by the driver. *)
Produce ==
  /\ streaming /\ produced < MaxFrames
  /\ produced' = produced + 1
  /\ IF incoming = <<>> THEN UNCHANGED <<incoming, outgoing, content>>
     ELSE /\ incoming' = Tail(incoming)
          /\ outgoing' = Append(outgoing, Head(incoming))
          /\ content' = [content EXCEPT ![Head(incoming)] = produced + 1]
  /\ UNCHANGED <<call, resourceVars, readVars>>

-----------------------------------------------------------------------------
(* Open *)

OpenDevice ==
  /\ call = "closed"
  /\ fd' = TRUE
  /\ call' = "negotiating"
  /\ UNCHANGED <<mapped, streaming, granted, driverVars, readVars>>

(* QUERYCAP, S_FMT, S_PARM and REQBUFS: the driver grants what it likes, at
   least two buffers. *)
Negotiate ==
  /\ call = "negotiating"
  /\ granted' \in 2 .. Requested
  /\ call' = "mapping"
  /\ UNCHANGED <<fd, mapped, streaming, driverVars, readVars>>

MapBuffer ==
  /\ call = "mapping"
  /\ LET next == Cardinality(mapped) + 1
     IN /\ mapped' = mapped \cup {next}
        /\ call' = IF next = granted THEN "queueing" ELSE call
  /\ UNCHANGED <<fd, streaming, granted, driverVars, readVars>>

QueueBuffer ==
  /\ call = "queueing"
  /\ LET next == Len(incoming) + 1
     IN /\ incoming' = Append(incoming, next)
        /\ call' = IF next = granted THEN "starting" ELSE call
  /\ UNCHANGED <<resourceVars, outgoing, content, produced, readVars>>

StreamOn ==
  /\ call = "starting"
  /\ streaming' = TRUE
  /\ call' = "idle"
  /\ UNCHANGED <<fd, mapped, granted, driverVars, readVars>>

(* STREAMOFF takes all buffers from the driver, munmap and close the rest. *)
CloseUnlocked ==
  /\ streaming' = FALSE /\ mapped' = {} /\ fd' = FALSE
  /\ incoming' = <<>> /\ outgoing' = <<>>
  /\ lost' = {} /\ held' = 0
  /\ call' = "closed"
  /\ UNCHANGED <<granted, content, produced, copy, delivered>>

OpenFails ==
  /\ call \in Opening
  /\ CloseUnlocked

-----------------------------------------------------------------------------
(* Read *)

OnlyRead == UNCHANGED <<resourceVars, content, produced>>

ReadBegins ==
  /\ call = "idle"
  /\ call' = "polling"
  /\ UNCHANGED <<resourceVars, driverVars, readVars>>

(* A time-out, a stop, a dead device, or DQBUF fails: no buffer was taken. *)
ReadFails ==
  /\ call = "polling"
  /\ call' = "idle"
  /\ UNCHANGED <<resourceVars, driverVars, readVars>>

DequeueInto(queued) ==
  /\ call = "polling" /\ outgoing # <<>>
  /\ held' = Head(outgoing) /\ outgoing' = Tail(outgoing)
  /\ incoming' = queued
  /\ call' = "copying"
  /\ UNCHANGED <<copy, delivered, lost>>
  /\ OnlyRead

DequeueKeepsQueued == DequeueInto(Append(incoming, Head(outgoing)))
Dequeue == DequeueInto(incoming)

(* The payload is the program's own copy; the buffer is still the program's. *)
CopyPayload ==
  /\ call = "copying"
  /\ copy' = content[held]
  /\ call' = "requeueing"
  /\ UNCHANGED <<incoming, outgoing, held, delivered, lost>>
  /\ OnlyRead

(* The buffer carries no frame, or there is no memory for the copy: it is
   queued again, whatever QBUF says. *)
RejectWith(Return) ==
  /\ call = "copying"
  /\ Return
  /\ held' = 0
  /\ call' = "idle"
  /\ UNCHANGED <<outgoing, copy, delivered>>
  /\ OnlyRead

KeepBuffer == UNCHANGED <<incoming, lost>>
GiveBackOrLose ==
  \/ incoming' = Append(incoming, held) /\ UNCHANGED lost
  \/ lost' = lost \cup {held} /\ UNCHANGED incoming

RejectForgetsBuffer == RejectWith(KeepBuffer)
RejectBuffer == RejectWith(GiveBackOrLose)

ReadReturns ==
  /\ call = "requeueing"
  /\ incoming' = Append(incoming, held) /\ held' = 0
  /\ delivered' = copy
  /\ call' = "idle"
  /\ UNCHANGED <<outgoing, copy, lost>>
  /\ OnlyRead

(* QBUF fails: Read fails too, the frame is dropped and the buffer never comes
   back. *)
RequeueFails ==
  /\ call = "requeueing"
  /\ held' = 0 /\ lost' = lost \cup {held}
  /\ call' = "idle"
  /\ UNCHANGED <<incoming, outgoing, copy, delivered>>
  /\ OnlyRead

Close ==
  /\ call = "idle"
  /\ CloseUnlocked

OpenStep == OpenDevice \/ Negotiate \/ MapBuffer \/ QueueBuffer \/ StreamOn \/ OpenFails
ReadStep ==
  \/ ReadBegins \/ ReadFails \/ Dequeue \/ CopyPayload \/ RejectBuffer
  \/ ReadReturns \/ RequeueFails

Next == Produce \/ OpenStep \/ ReadStep \/ Close

Spec == Init /\ [][Next]_v4l2Vars

-----------------------------------------------------------------------------
(* Properties *)

Set(s) == {s[i] : i \in DOMAIN s}
Held == {held} \ {0}

(* The type invariant. *)
TypeOK ==
  /\ call \in Opening \cup {"closed", "idle", "polling", "copying", "requeueing"}
  /\ fd \in BOOLEAN /\ streaming \in BOOLEAN
  /\ mapped \subseteq Buffers /\ lost \subseteq Buffers
  /\ granted \in 0 .. Requested /\ held \in 0 .. Requested
  /\ incoming \in Seq(Buffers) /\ outgoing \in Seq(Buffers)
  /\ content \in [Buffers -> 0 .. MaxFrames]
  /\ produced \in 0 .. MaxFrames /\ copy \in 0 .. MaxFrames /\ delivered \in 0 .. MaxFrames

(* Every buffer of a streaming device is in one place: queued, filled, with the
   Read in progress, or lost to a VIDIOC_QBUF that failed; no other path out of
   Read keeps one, so a camera starves by failed requeues only. *)
BuffersAreConserved ==
  streaming =>
    /\ Set(incoming) \cup Set(outgoing) \cup Held \cup lost = 1 .. granted
    /\ Len(incoming) + Len(outgoing) + Cardinality(Held) + Cardinality(lost) = granted

(* Frames reach the program in the order of the camera, each at most once and
   as the camera filled it: no buffer is back in the driver while it is copied. *)
FramesAreInOrder == [][delivered' # delivered => delivered' > delivered]_v4l2Vars

=============================================================================
