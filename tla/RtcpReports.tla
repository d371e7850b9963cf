----------------------------- MODULE RtcpReports -----------------------------
(***************************************************************************)
(* Sender reports.  The worker that sends audio tells the RTCP sender when *)
(* a session begins, which frames went out, and when it ends; whoever      *)
(* acquires or releases the output tells it that a session is over.  Each  *)
(* call is one section of a mutex, followed by a notification.  A thread   *)
(* of its own waits until there is something to report, copies the session *)
(* under the mutex, and sends the report, which maps the clock of the      *)
(* session's audio to the time of day, outside it.                         *)
(*                                                                         *)
(* Time is counted in ticks, Second of them to a second.  Who may send,    *)
(* and the queue of the worker, are module RtpOutput's; here the worker    *)
(* takes any command of the lease that is current.                         *)
(***************************************************************************)
EXTENDS Integers, FiniteSets

CONSTANTS
  RtpChannel,      \* RTP_STREAMING_CHANNELS
  Deliveries,   \* sets of channels that may take a packet or a source
  MaxLeases, MaxRotations, MaxFrames, MaxTime, \* bounds
  Interval,     \* ticks between reports
  Second,       \* ticks in a second
  SampleRate,   \* samples in a second
  Modulus,      \* of the counts and stamps: 2^32 in the code
  NtpOffset,    \* seconds from the NTP epoch to the epoch of wall clocks
  NtpScale,     \* parts of a second in an NTP time: 2^32 in the code
  WallClocks,   \* what a wall clock may show beyond the ticks, whenever it is read
  NoSession

ASSUME RtcpAssumption ==
  /\ Deliveries \subseteq SUBSET RtpChannel
  /\ {MaxLeases, MaxRotations, MaxFrames, MaxTime, NtpOffset} \subseteq Nat
  /\ {Interval, Second, SampleRate, Modulus, NtpScale} \subseteq Nat \ {0}
  /\ WallClocks \subseteq Int

VARIABLES
  owner,     \* generation that owns the output, or 0
  leases,    \* generations so far
  acquiring, \* generations whose acquireOutput has not returned
  releasing, \* generations that were released, and whose session may not have ended
  readyGeneration,     \* readyGeneration_
  rotating,  \* generation whose reset the worker has begun, or 0
  wire,      \* [sources, epoch, rotation] of the audio that is sent,
             \* and (auxiliary) "sent": frames of each channel since the rotation
  session,   \* session_
  immediate, \* immediateReportRequested_
  due,       \* nextReportTime_
  changed,   \* whether stateRevision_ moved since the reporter noted it
  stopping,
  notes,     \* notifications that are still to be made
  reporter,  \* "top", "waiting", "timed", "sending" or "stopped"
  notified,  \* whether the sleeping reporter was notified
  snapshot,  \* what is being reported
  last,      \* the last report
  announced, \* rotations whose first report was recorded
  now,       \* the monotonic clock
  framesSent

outputVars == <<owner, leases, acquiring, releasing, readyGeneration, rotating, wire, framesSent>>
senderVars == <<session, immediate, due, changed, stopping, notes>>
reporterVars == <<reporter, notified, snapshot, last, announced>>
rtcpVars == <<outputVars, senderVars, reporterVars, now>>

-----------------------------------------------------------------------------
(* The clocks.                                                             *)

\* Division that rounds towards zero.
Quotient(x, y) == IF x < 0 THEN -((-x) \div y) ELSE x \div y

Samples(elapsed) ==
  LET seconds == Quotient(elapsed, Second)
  IN  seconds * SampleRate + Quotient((elapsed - seconds * Second) * SampleRate, Second)

\* The NTP time of a wall time, if it does not predate the NTP epoch.
NtpSeconds(t) ==
  LET whole == Quotient(t, Second)
  IN  (IF t - whole * Second < 0 THEN whole - 1 ELSE whole) + NtpOffset

NtpFraction(t) ==
  LET rest == t - Quotient(t, Second) * Second
  IN  ((IF rest < 0 THEN rest + Second ELSE rest) * NtpScale) \div Second

\* The monotonic time, the wall time and the stamp of one moment.
Capture(wall) == [mono |-> now, wall |-> now + wall, rtp |-> Samples(now) % Modulus]

\* A moment of the monotonic clock, on a session's other clocks.
SessionTime(epoch, moment) ==
  LET elapsed == moment - epoch.mono
  IN  [seconds |-> NtpSeconds(epoch.wall + elapsed),
       fraction |-> NtpFraction(epoch.wall + elapsed),
       rtp |-> (epoch.rtp + Samples(elapsed)) % Modulus]

-----------------------------------------------------------------------------
(* The sender's sections.                                                  *)

Begun(generation, rotation, epoch) ==
  [generation |-> generation, rotation |-> rotation, epoch |-> epoch,
   packets |-> [c \in RtpChannel |-> 0], hasPackets |-> FALSE, first |-> FALSE]

RtcpInit ==
  /\ owner = 0 /\ leases = 0 /\ acquiring = {} /\ releasing = {} /\ readyGeneration = 0 /\ rotating = 0
  /\ now = 0 /\ framesSent = 0
  /\ \E wall \in WallClocks :
       /\ wire = [epoch |-> Capture(wall), rotation |-> 0, sources |-> [c \in RtpChannel |-> 0],
                  sent |-> [c \in RtpChannel |-> 0]]
       /\ session = Begun(0, 0, Capture(wall))
  /\ immediate = FALSE /\ due = 0 /\ changed = FALSE /\ stopping = FALSE /\ notes = 0
  /\ reporter = "top" /\ notified = FALSE /\ snapshot = NoSession /\ last = NoSession /\ announced = {}

\* A session that begins or ends: whoever waits for the next report starts anew.
SessionBecomes(s) ==
  /\ session' = s /\ changed' = TRUE /\ immediate' = FALSE /\ due' = 0 /\ notes' = notes + 1
  /\ UNCHANGED stopping

BeginSession(generation, epoch) ==
  IF stopping THEN UNCHANGED senderVars ELSE SessionBecomes(Begun(generation, wire.rotation + 1, epoch))

\* Mutant of RecordFrame: nobody is told of the first packets.
RecordFrameSilently(generation, channels) ==
  /\ IF stopping \/ session = NoSession \/ session.generation # generation THEN UNCHANGED <<session, immediate>>
     ELSE /\ session' = [session EXCEPT
                           !.packets = [c \in RtpChannel |-> (@[c] + (IF c \in channels THEN 1 ELSE 0)) % Modulus],
                           !.hasPackets = @ \/ channels # {}]
          /\ immediate' = (immediate \/ (channels # {} /\ ~session.hasPackets))
  /\ UNCHANGED <<due, changed, stopping, notes>>

RecordFrame(generation, channels) ==
  IF stopping \/ session = NoSession \/ session.generation # generation THEN UNCHANGED senderVars
  ELSE LET begins == channels # {} /\ ~session.hasPackets
       IN  /\ session' = [session EXCEPT
                            !.packets = [c \in RtpChannel |-> (@[c] + (IF c \in channels THEN 1 ELSE 0)) % Modulus],
                            !.hasPackets = @ \/ begins]
           /\ immediate' = (immediate \/ begins) /\ notes' = notes + (IF begins THEN 1 ELSE 0)
           /\ UNCHANGED <<due, changed, stopping>>

EndSession(generation) ==
  IF stopping \/ session = NoSession \/ session.generation # generation THEN UNCHANGED senderVars
  ELSE SessionBecomes(NoSession)

\* Mutant of DiscardSessionUnless: the sessions of others go on.
DiscardNothing(generation) == UNCHANGED senderVars

DiscardSessionUnless(generation) ==
  IF stopping \/ session = NoSession \/ session.generation = generation THEN UNCHANGED senderVars
  ELSE SessionBecomes(NoSession)

Notify ==
  /\ notes > 0 /\ notes' = notes - 1
  /\ notified' = (notified \/ reporter \in {"waiting", "timed"})
  /\ UNCHANGED <<outputVars, session, immediate, due, changed, stopping, reporter, snapshot, last, announced, now>>

-----------------------------------------------------------------------------
(* Who acquires and releases the output, and the worker.                   *)

\* The coordinator's mutex is held while a reset runs.
Acquire ==
  /\ ~stopping /\ rotating = 0 /\ leases < MaxLeases
  /\ leases' = leases + 1 /\ owner' = leases + 1 /\ acquiring' = acquiring \cup {leases + 1}
  /\ UNCHANGED <<releasing, readyGeneration, rotating, wire, framesSent, senderVars, reporterVars, now>>

\* The rest of acquireOutput, with the mutex held if the lease is still current.
Acquired(g) ==
  /\ g \in acquiring /\ rotating = 0 /\ acquiring' = acquiring \ {g}
  /\ IF owner = g THEN readyGeneration' = 0 /\ DiscardSessionUnless(g) ELSE UNCHANGED <<readyGeneration, senderVars>>
  /\ UNCHANGED <<owner, leases, releasing, rotating, wire, framesSent, reporterVars, now>>

\* By its owner, or by the worker when its last frame was sent or sending
\* failed; without effect when nothing is left of the lease.
ReleaseLease(g) ==
  /\ g \in 1 .. leases /\ g \notin acquiring \cup releasing /\ rotating = 0
  /\ owner = g \/ (session # NoSession /\ session.generation = g)
  /\ owner' = (IF owner = g THEN 0 ELSE owner) /\ releasing' = releasing \cup {g}
  /\ UNCHANGED <<leases, acquiring, readyGeneration, rotating, wire, framesSent, senderVars, reporterVars, now>>

Released(g) ==
  /\ g \in releasing /\ releasing' = releasing \ {g}
  /\ readyGeneration' = (IF readyGeneration = g THEN 0 ELSE readyGeneration)
  /\ EndSession(g)
  /\ UNCHANGED <<owner, leases, acquiring, rotating, wire, framesSent, reporterVars, now>>

Rotate ==
  /\ ~stopping /\ owner # 0 /\ owner \notin acquiring /\ rotating = 0 /\ wire.rotation < MaxRotations
  /\ rotating' = owner /\ readyGeneration' = 0
  /\ UNCHANGED <<owner, leases, acquiring, releasing, wire, framesSent, senderVars, reporterVars, now>>

\* New sources for all channels, a new epoch of the clock, a new session.
Rotated(wall) ==
  /\ rotating # 0 /\ rotating' = 0 /\ readyGeneration' = rotating
  /\ wire' = [epoch |-> Capture(wall), rotation |-> wire.rotation + 1,
              sources |-> [c \in RtpChannel |-> wire.rotation + 1], sent |-> [c \in RtpChannel |-> 0]]
  /\ BeginSession(rotating, Capture(wall))
  /\ UNCHANGED <<owner, leases, acquiring, releasing, framesSent, reporterVars, now>>

\* A channel does not take its source: the generation ends.
RotationFails(channels) ==
  /\ rotating # 0 /\ rotating' = 0
  /\ wire' = [wire EXCEPT !.rotation = @ + 1,
                          !.sources = [c \in RtpChannel |-> IF c \in channels THEN wire.rotation + 1 ELSE @[c]]]
  /\ owner' = 0 /\ releasing' = releasing \cup {rotating}
  /\ UNCHANGED <<leases, acquiring, readyGeneration, framesSent, senderVars, reporterVars, now>>

\* A frame goes out on some channels.
SendFrame(channels) ==
  /\ ~stopping /\ owner # 0 /\ readyGeneration = owner /\ rotating = 0 /\ framesSent < MaxFrames
  /\ framesSent' = framesSent + 1
  /\ wire' = [wire EXCEPT !.sent = [c \in RtpChannel |-> @[c] + (IF c \in channels THEN 1 ELSE 0)]]
  /\ RecordFrame(owner, channels)
  /\ UNCHANGED <<owner, leases, acquiring, releasing, readyGeneration, rotating, reporterVars, now>>

\* The worker was joined before.
Shutdown ==
  /\ ~stopping /\ rotating = 0 /\ stopping' = TRUE /\ session' = NoSession /\ changed' = TRUE /\ notes' = notes + 1
  /\ UNCHANGED <<outputVars, immediate, due, reporterVars, now>>

-----------------------------------------------------------------------------
(* The reporter.                                                           *)

Reportable == session # NoSession /\ session.hasPackets

\* The top of the loop, with the mutex held.
LookForSession ==
  /\ reporter = "top" \/ (reporter = "waiting" /\ notified)
  /\ notified' = FALSE
  /\ IF stopping THEN reporter' = "stopped" /\ UNCHANGED <<immediate, due, changed, snapshot>>
     ELSE IF ~Reportable THEN reporter' = "waiting" /\ UNCHANGED <<immediate, due, changed, snapshot>>
     ELSE IF ~immediate /\ now < due
     THEN reporter' = "timed" /\ changed' = FALSE /\ UNCHANGED <<immediate, due, snapshot>>
     ELSE /\ immediate' = FALSE /\ due' = now + Interval /\ snapshot' = session /\ reporter' = "sending"
          /\ UNCHANGED changed
  /\ UNCHANGED <<outputVars, session, stopping, notes, last, announced, now>>

\* Woken early, the reporter looks only if something happened.
WakeEarly ==
  /\ reporter = "timed" /\ notified /\ notified' = FALSE
  /\ reporter' = (IF stopping \/ changed \/ immediate THEN "top" ELSE "timed")
  /\ UNCHANGED <<outputVars, senderVars, snapshot, last, announced, now>>

WakeInTime ==
  /\ reporter = "timed" /\ now >= due /\ reporter' = "top" /\ notified' = FALSE
  /\ UNCHANGED <<outputVars, senderVars, snapshot, last, announced, now>>

Report == [generation |-> snapshot.generation, rotation |-> snapshot.rotation, packets |-> snapshot.packets,
           at |-> now, time |-> SessionTime(snapshot.epoch, now)]

\* A time before the NTP epoch cannot be reported; a channel may fail.
SendReport(succeeds) ==
  /\ reporter = "sending" /\ reporter' = "top" /\ snapshot' = NoSession
  /\ succeeds => Report.time.seconds >= 0
  /\ last' = Report
  /\ announced' = (IF succeeds /\ ~snapshot.first THEN announced \cup {snapshot.rotation} ELSE announced)
  /\ session' = (IF succeeds /\ ~snapshot.first /\ session # NoSession /\ session.generation = snapshot.generation
                 THEN [session EXCEPT !.first = TRUE] ELSE session)
  /\ UNCHANGED <<outputVars, immediate, due, changed, stopping, notes, notified, now>>

Tick == now < MaxTime /\ now' = now + 1 /\ UNCHANGED <<outputVars, senderVars, reporterVars>>

RtcpNext ==
  \/ Notify \/ Acquire \/ Rotate \/ (\E wall \in WallClocks : Rotated(wall)) \/ Shutdown
  \/ (\E g \in 1 .. leases : Acquired(g) \/ ReleaseLease(g) \/ Released(g))
  \/ (\E channels \in Deliveries : RotationFails(channels))
  \/ (\E channels \in Deliveries : SendFrame(channels))
  \/ LookForSession \/ WakeEarly \/ WakeInTime \/ (\E succeeds \in BOOLEAN : SendReport(succeeds))
  \/ Tick

-----------------------------------------------------------------------------
(* Properties.                                                             *)

(* Safety (RtcpSender.cpp, MultiOpusRtpServer.cpp: discardSessionUnless,   *)
(* endSession; RtpClockMapping.h: an NTP correction during a track cannot  *)
(* introduce a discontinuity): a session outlives its lease only while it  *)
(* is being taken or released; what it counts are the packets that went    *)
(* out since its sources were set, on the clock of those sources; the      *)
(* reporter never sleeps through packets nobody has reported, a change or  *)
(* the end; reports never return to an older session, their counts and     *)
(* times never go back, whatever the wall clock does; and the first report *)
(* of a session is recorded once.                                          *)
ReportsAreTrue ==
  /\ session # NoSession =>
       /\ session.generation \in {0, owner} \cup releasing \/ owner \in acquiring
       /\ (session.generation = owner /\ readyGeneration = owner /\ owner # 0) =>
            /\ session.rotation = wire.rotation /\ session.epoch = wire.epoch
            /\ \A c \in RtpChannel : /\ session.packets[c] = wire.sent[c] % Modulus
                                  /\ wire.sources[c] = session.rotation
            /\ LET wall == session.epoch.wall + now - session.epoch.mono
               IN  /\ SessionTime(session.epoch, now).seconds = wall \div Second + NtpOffset
                   /\ SessionTime(session.epoch, now).fraction = ((wall % Second) * NtpScale) \div Second
            /\ session.hasPackets = (\E c \in RtpChannel : wire.sent[c] > 0)
  /\ (reporter = "waiting" /\ ~notified /\ notes = 0) => ~stopping /\ ~Reportable
  /\ (reporter = "timed" /\ ~notified /\ notes = 0) => ~stopping /\ ~changed /\ ~immediate
  /\ (reporter = "sending" /\ last # NoSession) =>
       /\ last.rotation <= snapshot.rotation
       /\ last.rotation = snapshot.rotation =>
            /\ \A c \in RtpChannel : last.packets[c] <= snapshot.packets[c] \/ framesSent >= Modulus
            /\ <<Report.time.seconds, Report.time.fraction>> = <<last.time.seconds, last.time.fraction>>
                 \/ last.time.seconds < Report.time.seconds
                 \/ (last.time.seconds = Report.time.seconds /\ last.time.fraction <= Report.time.fraction)
            /\ (Report.time.rtp - last.time.rtp) % Modulus
                 \in {((now - last.at) * SampleRate) \div Second % Modulus,
                      (((now - last.at) * SampleRate) \div Second + 1) % Modulus}
  /\ (reporter = "sending" /\ snapshot.rotation \in announced) => snapshot.first

=============================================================================
