------------------------------ MODULE RtspSink ------------------------------
(***************************************************************************)
(* FfmpegRtspSink: the output that pushes to an RTSP server, and connects  *)
(* again when the session breaks.                                          *)
(*                                                                         *)
(* The sink is driven as SinkWorker and AddSink drive it, by one thread at *)
(* a time and under its mutex.  The steps of an operation are the network  *)
(* calls of libavformat: the header that begins a session, a packet, the   *)
(* trailer that ends it.  The server goes away and comes back at any time, *)
(* and then no longer knows the session.  Time is counted in ticks, of     *)
(* which reconnect_interval_ms is Interval; that a call which does not     *)
(* return is interrupted after rtsp_timeout_ms makes it one that fails.    *)
(***************************************************************************)
EXTENDS Naturals

CONSTANT Interval    \* ticks in reconnect_interval_ms

VARIABLES
  kind,        \* "rtsp"
  owner,       \* what the thread that owns the sink does with it
  step,        \* the network call it is in: "idle", "connecting" or "sending"
  open,        \* open
  flushed,     \* flushed
  required,    \* OutputConfig::required
  reconnect,   \* reconnect_enabled
  connected,   \* connected
  session,     \* the muxer's network resources: "none" or "live"
  linked,      \* the server still knows the session
  server,      \* the server is "up" or "down"
  wait,        \* ticks until next_reconnect_at
  since,       \* history: ticks since the last network failure, up to Interval
  verdict,     \* how the latest call ended
  misuse       \* history: how a session was released other than by one trailer

netVars == <<linked, server>>
rtspVars == <<required, reconnect, connected, session, netVars, wait, since, verdict, misuse>>
vars == <<kind, owner, step, open, flushed, rtspVars>>
config == <<kind, required, reconnect>>

Init ==
  /\ kind = "rtsp"
  /\ owner = "new"
  /\ step = "idle"
  /\ open = FALSE
  /\ flushed = FALSE
  /\ required \in BOOLEAN
  /\ reconnect \in BOOLEAN
  /\ connected = FALSE
  /\ session = "none"
  /\ linked = FALSE
  /\ server = "up"
  /\ wait = 0
  /\ since = Interval
  /\ verdict = "none"
  /\ misuse = "none"

-----------------------------------------------------------------------------
(* The helpers of Impl *)

(* ReleaseFormat, called with this value of connected for a session that is live,
   "ended" by a trailer, or whose trailer "failed", which says nothing of what it
   released: it writes a trailer if connected and then frees the context. *)
ReleaseFormat(isConnected, state) ==
  /\ connected' = FALSE
  /\ session' = "none"
  /\ misuse' = CASE state \in {"live", "failed"} /\ ~isConnected -> "leaked"
                 [] state = "ended" /\ isConnected -> "trailer twice"
                 [] state = "failed" /\ isConnected -> "retried"
                 [] OTHER -> misuse

ScheduleLate == wait' = Interval + 1
ScheduleNextReconnect == wait' = Interval
Unscheduled == UNCHANGED wait

NetworkFailed == since' = 0

ReconnectDue == reconnect /\ wait = 0

Retryable == "retryable"
WriteVerdict == IF reconnect THEN "retryable" ELSE "fatal"

-----------------------------------------------------------------------------
(* Open: validate, then Connect *)

BeginOpen ==
  /\ owner = "new" /\ step = "idle"
  /\ step' = "connecting"
  /\ UNCHANGED <<owner, open, flushed, config, connected, session, netVars, wait, since,
                 verdict, misuse>>

(* No URL, no video stream, no context: nothing was connected. *)
OpenRejected ==
  /\ owner = "new" /\ step = "idle"
  /\ owner' = "gone"
  /\ UNCHANGED <<step, open, flushed, rtspVars, kind>>

Connected ==
  /\ connected' = TRUE
  /\ session' = "live"
  /\ linked' = TRUE
  /\ UNCHANGED <<server, misuse>>

OpenConnects ==
  /\ owner = "new" /\ step = "connecting" /\ server = "up"
  /\ Connected
  /\ open' = TRUE
  /\ flushed' = FALSE
  /\ step' = "idle"
  /\ owner' = "serving"
  /\ UNCHANGED <<config, wait, since, verdict>>

(* A required output, or one that does not reconnect, fails to open; another one
   opens and waits for its server. *)
OpenFails ==
  /\ owner = "new" /\ step = "connecting" /\ server = "down"
  /\ required \/ ~reconnect
  /\ ReleaseFormat(connected, session)
  /\ NetworkFailed
  /\ step' = "idle"
  /\ owner' = "gone"
  /\ UNCHANGED <<open, flushed, config, netVars, wait, verdict>>

OpenWaits ==
  /\ owner = "new" /\ step = "connecting" /\ server = "down"
  /\ ~required /\ reconnect
  /\ ReleaseFormat(connected, session)
  /\ NetworkFailed
  /\ ScheduleNextReconnect
  /\ open' = TRUE
  /\ flushed' = FALSE
  /\ step' = "idle"
  /\ owner' = "serving"
  /\ UNCHANGED <<config, netVars, verdict>>

-----------------------------------------------------------------------------
(* Write *)

Writable == owner = "serving" /\ step = "idle" /\ open /\ ~flushed

(* The session is down and its reconnection not due: the packet is dropped. *)
WriteDropped ==
  /\ Writable /\ ~connected /\ ~ReconnectDue
  /\ verdict' = Retryable
  /\ UNCHANGED <<owner, step, open, flushed, config, connected, session, netVars, wait,
                 since, misuse>>

BeginReconnect ==
  /\ Writable /\ ~connected /\ ReconnectDue
  /\ ReleaseFormat(connected, session)
  /\ step' = "connecting"
  /\ UNCHANGED <<owner, open, flushed, config, netVars, wait, since, verdict>>

ReconnectSucceeds ==
  /\ owner = "serving" /\ step = "connecting" /\ server = "up"
  /\ Connected
  /\ step' = "sending"
  /\ UNCHANGED <<owner, open, flushed, config, wait, since, verdict>>

ReconnectFailsUnscheduled ==
  /\ owner = "serving" /\ step = "connecting" /\ server = "down"
  /\ ReleaseFormat(connected, session)
  /\ NetworkFailed
  /\ Unscheduled
  /\ verdict' = Retryable
  /\ step' = "idle"
  /\ UNCHANGED <<owner, open, flushed, config, netVars>>

ReconnectFails ==
  /\ owner = "serving" /\ step = "connecting" /\ server = "down"
  /\ ReleaseFormat(connected, session)
  /\ NetworkFailed
  /\ ScheduleNextReconnect
  /\ verdict' = Retryable
  /\ step' = "idle"
  /\ UNCHANGED <<owner, open, flushed, config, netVars>>

BeginSend ==
  /\ Writable /\ connected
  /\ step' = "sending"
  /\ UNCHANGED <<owner, open, flushed, rtspVars, kind>>

(* The packet is taken, by a muxer and a socket that buffer it: also by a session
   that the server has already lost.  So is audio that the output ignores. *)
Sent ==
  /\ step = "sending"
  /\ verdict' = "ok"
  /\ step' = "idle"
  /\ UNCHANGED <<owner, open, flushed, config, connected, session, netVars, wait, since,
                 misuse>>

SendFailsKeepingSession ==
  /\ step = "sending" /\ ~linked
  /\ NetworkFailed
  /\ IF reconnect THEN ScheduleNextReconnect ELSE Unscheduled
  /\ verdict' = WriteVerdict
  /\ owner' = IF verdict' = "fatal" THEN "failed" ELSE owner
  /\ step' = "idle"
  /\ UNCHANGED <<open, flushed, config, connected, session, netVars, misuse>>

(* The write fails: the session is released, and scheduled again if it may be. *)
SendFails ==
  /\ step = "sending" /\ ~linked
  /\ ReleaseFormat(connected, session)
  /\ NetworkFailed
  /\ IF reconnect THEN ScheduleNextReconnect ELSE Unscheduled
  /\ verdict' = WriteVerdict
  /\ owner' = IF verdict' = "fatal" THEN "failed" ELSE owner
  /\ step' = "idle"
  /\ UNCHANGED <<open, flushed, config, netVars>>

(* The packet is invalid, has another codec or no memory: the session stays. *)
PacketRejected ==
  /\ Writable \/ step = "sending"
  /\ verdict' = "rejected"
  /\ step' = "idle"
  /\ owner' = "failed"
  /\ UNCHANGED <<open, flushed, config, connected, session, netVars, wait, since, misuse>>

(* The sink thread leaves its loop; whether it calls Flush is the router's. *)
StopWriting ==
  /\ owner \in {"serving", "failed"} /\ step = "idle"
  /\ owner' \in {"flushing", "closing"}
  /\ UNCHANGED <<step, open, flushed, rtspVars, kind>>

-----------------------------------------------------------------------------
(* Flush and Close *)

FlushDisconnected ==
  /\ owner = "flushing" /\ open /\ ~flushed /\ ~connected
  /\ flushed' = TRUE
  /\ owner' = "closing"
  /\ UNCHANGED <<step, open, rtspVars, kind>>

(* The trailer ends the session; connected is reset before ReleaseFormat, which
   must not write it again. *)
FlushReleasesConnected ==
  /\ owner = "flushing" /\ open /\ ~flushed /\ connected
  /\ ReleaseFormat(connected, "ended")
  /\ flushed' = TRUE
  /\ owner' = "closing"
  /\ UNCHANGED <<step, open, config, netVars, wait, since, verdict>>

FlushSucceeds ==
  /\ owner = "flushing" /\ open /\ ~flushed /\ connected
  /\ ReleaseFormat(FALSE, "ended")
  /\ flushed' = TRUE
  /\ owner' = "closing"
  /\ UNCHANGED <<step, open, config, netVars, wait, since, verdict>>

(* The trailer fails, in a session that is lost or not.  ReleaseFormat, with
   connected still set, writes a second one to the same context.  The sink stays
   open and is not flushed. *)
FlushFails ==
  /\ owner = "flushing" /\ open /\ ~flushed /\ connected
  /\ ReleaseFormat(connected, "failed")
  /\ owner' = "closing"
  /\ UNCHANGED <<step, open, flushed, config, netVars, wait, since, verdict>>

Close ==
  /\ owner = "closing"
  /\ ReleaseFormat(connected, session)
  /\ open' = FALSE
  /\ flushed' = FALSE
  /\ owner' = "gone"
  /\ UNCHANGED <<step, config, netVars, wait, since, verdict>>

Rest == owner = "gone" /\ UNCHANGED vars

-----------------------------------------------------------------------------
(* The environment *)

ServerDown ==
  /\ server = "up"
  /\ server' = "down"
  /\ linked' = FALSE
  /\ UNCHANGED <<owner, step, open, flushed, config, connected, session, wait, since,
                 verdict, misuse>>

ServerUp ==
  /\ server = "down"
  /\ server' = "up"
  /\ UNCHANGED <<owner, step, open, flushed, config, connected, session, linked, wait,
                 since, verdict, misuse>>

Tick ==
  /\ wait > 0 \/ since < Interval
  /\ wait' = IF wait > 0 THEN wait - 1 ELSE wait
  /\ since' = IF since < Interval THEN since + 1 ELSE since
  /\ UNCHANGED <<owner, step, open, flushed, config, connected, session, netVars, verdict,
                 misuse>>

-----------------------------------------------------------------------------

OpenStep == BeginOpen \/ OpenRejected \/ OpenConnects \/ OpenFails \/ OpenWaits
WriteStep ==
  \/ WriteDropped
  \/ BeginReconnect \/ ReconnectSucceeds \/ ReconnectFails
  \/ BeginSend \/ Sent \/ SendFails

Next ==
  \/ OpenStep
  \/ WriteStep
  \/ PacketRejected
  \/ StopWriting
  \/ FlushDisconnected \/ FlushSucceeds \/ FlushFails
  \/ Close
  \/ Rest
  \/ ServerDown \/ ServerUp
  \/ Tick

Spec == Init /\ [][Next]_vars

(* Packets keep coming while the thread serves the sink, every network call
   returns, time passes, and sends into a lost session do not succeed for ever.
   The server owes nothing. *)
Fairness == WF_vars(WriteStep) /\ WF_vars(Tick) /\ SF_vars(SendFails)

FairSpec == Spec /\ Fairness

-----------------------------------------------------------------------------
(* Properties *)

(* The type invariant. *)
TypeOK ==
  /\ kind = "rtsp"
  /\ owner \in {"new", "serving", "failed", "flushing", "closing", "gone"}
  /\ step \in {"idle", "connecting", "sending"}
  /\ open \in BOOLEAN
  /\ flushed \in BOOLEAN
  /\ required \in BOOLEAN
  /\ reconnect \in BOOLEAN
  /\ connected \in BOOLEAN
  /\ session \in {"none", "live"}
  /\ linked \in BOOLEAN
  /\ server \in {"up", "down"}
  /\ wait \in 0 .. Interval
  /\ since \in 0 .. Interval
  /\ verdict \in {"none", "ok", "retryable", "fatal", "rejected"}
  /\ misuse \in {"none", "leaked", "trailer twice", "retried"}

(* On whichever path a session is released, its trailer is tried before it is freed,
   and none outlives the sink.  A trailer that succeeded is never followed by another
   one; one that failed is, but in Flush only, and then the sink is not flushed. *)
SessionsAreReleased ==
  /\ misuse \notin {"leaked", "trailer twice"}
  /\ misuse = "retried" => owner \in {"closing", "gone"} /\ ~flushed
  /\ owner = "gone" => session = "none"

(* A reconnecting output waits a full interval after every network failure, of
   the first connection, of a packet, and of a reconnection. *)
ReconnectsAreSpaced ==
  [][owner = "serving" /\ step = "idle" /\ step' = "connecting" => since = Interval]_vars

(* Once the server stays up, the output is connected again, in a session that the
   server knows, and stays so. *)
Reconnects ==
  <>[](server = "up" /\ owner = "serving" /\ reconnect) => <>[](connected /\ linked)

=============================================================================
