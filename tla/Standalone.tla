----------------------------- MODULE Standalone -----------------------------
(***************************************************************************)
(* A sound that is played by itself over RTP.  One reservation admits one  *)
(* of them at a time: the request takes it, and hands it to an event of    *)
(* the event loop, which hands it to a thread that loads the sound, which  *)
(* acquires the output, fixes the frame at which the sound starts, and     *)
(* hands it to the first of a chain of events, one for each packet, the    *)
(* last of which leaves it with the last packet in the worker's queue.     *)
(* The event loop counts frames of a millisecond and executes what is due  *)
(* in each; a packet lasts Step of them.  A thread that was held up        *)
(* schedules events that are late, and the chain catches up by skipping.   *)
(*                                                                         *)
(* A lease of the output is the number of the play, or Other's; how leases *)
(* are kept and failures counted is module RtpOutput's.                    *)
(***************************************************************************)
EXTENDS Integers, FiniteSets, SequencesExt

CONSTANTS
  MaxPlays,  \* bound
  MaxFrame,  \* bound of the frames in which anything is begun
  MaxDelay,  \* frames for which a loader may be held up
  MaxTaken,  \* times others take the output
  Step,      \* frames of the event loop in a packet
  Priming,   \* RTP_PRIMING_FRAMES
  Capacity,  \* of the worker's queue
  Lengths,   \* packets of a sound
  Other

ASSUME StandaloneAssumption ==
  /\ {MaxPlays, MaxFrame, MaxDelay, MaxTaken} \subseteq Nat
  /\ {Step, Priming, Capacity} \cup Lengths \subseteq Nat \ {0}
  /\ Other \notin 0 .. MaxPlays

VARIABLES
  reserved,   \* the admission's reserved_
  play,       \* plays so far
  length,     \* packets of the sound that is played
  frame,      \* frameCount
  events,     \* what is scheduled, from here: [at, kind, play, index]
  loader,     \* [step, play, start, delay] of the thread that loads
  holder,     \* lease of the output: a play, Other or 0
  taken,
  tripped,    \* plays that the circuit breaker ended
  commands,   \* queue of the worker: [kind, play, index, skipped, final]
  clock,      \* frameClock_, in packets since the reset
  dispatched, \* auxiliary: the last packet that was queued, [play, index, at]
  packet        \* auxiliary: the last packet that was sent, [play, kind, index, stamp]

standaloneVars == <<reserved, play, length, frame, events, loader, holder, taken, tripped, commands,
                    clock, dispatched, packet>>

NoLoader == [step |-> "none", play |-> 0, start |-> 0, delay |-> 0]

StandaloneInit ==
  /\ reserved = FALSE /\ play = 0 /\ length = 1 /\ frame = 0 /\ events = {} /\ loader = NoLoader
  /\ holder = 0 /\ taken = 0 /\ tripped = {} /\ commands = <<>> /\ clock = 0
  /\ dispatched = [play |-> 0, index |-> -1, at |-> 0]
  /\ packet = [play |-> 0, kind |-> "silent", index |-> 0, stamp |-> 0]

Event(at, kind, p, index) == [at |-> at, kind |-> kind, play |-> p, index |-> index]

Command(kind, p, index, skipped, final) ==
  [kind |-> kind, play |-> p, index |-> index, skipped |-> skipped, final |-> final]

\* Commands of a play leave the queue, and with its last one the reservation.
Purge(keep(_)) ==
  /\ commands' = SelectSeq(commands, keep)
  /\ reserved' = (reserved /\ ~\E i \in DOMAIN commands : commands[i].final /\ ~keep(commands[i]))

ReleaseOutput(p) ==
  /\ holder' = (IF holder = p THEN 0 ELSE holder)
  /\ commands' = SelectSeq(commands, LAMBDA c : c.play # p)

-----------------------------------------------------------------------------
(* The request and the loader.                                             *)

\* Whoever finds the reservation taken is told that the loader is busy.
PlaySound(n) ==
  /\ ~reserved /\ play < MaxPlays /\ frame < MaxFrame
  /\ reserved' = TRUE /\ play' = play + 1 /\ length' = n
  /\ events' = events \cup {Event(frame + 1, "music", play + 1, 0)}
  /\ UNCHANGED <<frame, loader, holder, taken, tripped, commands, clock, dispatched, packet>>

Due(e) == e \in events /\ e.at <= frame /\ \A f \in events : e.at <= f.at

\* The file may be gone, the output not ready, or no thread be had.
Music(e) ==
  /\ Due(e) /\ e.kind = "music" /\ events' = events \ {e}
  /\ \/ loader' = [step |-> "load", play |-> e.play, start |-> 0, delay |-> 0] /\ UNCHANGED reserved
     \/ reserved' = FALSE /\ UNCHANGED loader
  /\ UNCHANGED <<play, length, frame, holder, taken, tripped, commands, clock, dispatched, packet>>

\* The sound is decoded; its output is acquired, and others' commands purged.
Load ==
  /\ loader.step = "load" /\ loader' = [loader EXCEPT !.step = "start"]
  /\ holder' = loader.play /\ commands' = <<>>
  /\ UNCHANGED <<reserved, play, length, frame, events, taken, tripped, clock, dispatched, packet>>

\* The start leaves time for the reset and the priming.
FixStart ==
  /\ loader.step = "start"
  /\ loader' = [loader EXCEPT !.step = "reset", !.start = frame + 1 + 2 + Priming * Step]
  /\ UNCHANGED <<reserved, play, length, frame, events, holder, taken, tripped, commands, clock, dispatched, packet>>

ScheduleReset ==
  /\ loader.step = "reset" /\ loader' = [loader EXCEPT !.step = "first"]
  /\ events' = events \cup {Event(loader.start - Priming * Step, "reset", loader.play, 0)}
  /\ UNCHANGED <<reserved, play, length, frame, holder, taken, tripped, commands, clock, dispatched, packet>>

ScheduleFirst ==
  /\ loader.step = "first" /\ loader' = NoLoader
  /\ events' = events \cup {Event(loader.start, "frame", loader.play, 0)}
  /\ UNCHANGED <<reserved, play, length, frame, holder, taken, tripped, commands, clock, dispatched, packet>>

\* An exception: what was acquired is released.
LoaderFails ==
  /\ loader.step # "none" /\ loader' = NoLoader /\ reserved' = FALSE
  /\ IF loader.step = "load" THEN UNCHANGED <<holder, commands>> ELSE ReleaseOutput(loader.play)
  /\ UNCHANGED <<play, length, frame, events, taken, tripped, clock, dispatched, packet>>

-----------------------------------------------------------------------------
(* The chain of events.                                                    *)

\* Accepted, refused since the lease is stale, or refused since the queue is full.
Full == Len(commands) >= Capacity

\* After the reset come the silent packets, Step frames apart.
Prime(e) ==
  LET next == IF e.kind = "reset" THEN {Event(e.at, "silent", e.play, 0)}
              ELSE IF e.index + 1 < Priming THEN {Event(e.at + Step, "silent", e.play, e.index + 1)} ELSE {}
  IN  /\ Due(e) /\ e.kind \in {"reset", "silent"}
      /\ IF holder # e.play \/ Full
         THEN /\ events' = events \ {e}
              /\ IF holder = e.play THEN ReleaseOutput(e.play) ELSE UNCHANGED <<holder, commands>>
         ELSE /\ events' = (events \ {e}) \cup next
              /\ commands' = Append(commands, Command(e.kind, e.play, e.index, 0, FALSE))
              /\ UNCHANGED holder
      /\ UNCHANGED <<reserved, play, length, frame, loader, taken, tripped, clock, dispatched, packet>>

\* Mutant of Behind: what has begun to be late is skipped, too.
BehindRoundedUp(e) == Min({(frame - e.at + Step - 1) \div Step, length - e.index})

\* Packets whose time is over when an event is executed.
Behind(e) == Min({(frame - e.at) \div Step, length - e.index})

\* The chain ends: superseded, tripped, late to the end, or rejected.
FrameEnds(e) ==
  /\ Due(e) /\ e.kind = "frame" /\ events' = events \ {e}
  /\ \/ e.play \in tripped \/ holder # e.play
     \/ e.index + Behind(e) >= length \/ Full
  /\ reserved' = FALSE
  /\ IF e.play \notin tripped /\ holder # e.play THEN UNCHANGED <<holder, commands>>
     ELSE ReleaseOutput(e.play)
  /\ UNCHANGED <<play, length, frame, loader, taken, tripped, clock, dispatched, packet>>

\* A packet is queued; with the last one goes the reservation.
Frame(e) ==
  LET index == e.index + Behind(e)
      final == index + 1 = length
  IN  /\ Due(e) /\ e.kind = "frame"
      /\ e.play \notin tripped /\ holder = e.play /\ index < length /\ ~Full
      /\ commands' = Append(commands, Command("audio", e.play, index, Behind(e), final))
      /\ events' = (events \ {e}) \cup
                     (IF final THEN {} ELSE {Event(e.at + (Behind(e) + 1) * Step, "frame", e.play, index + 1)})
      /\ dispatched' = [play |-> e.play, index |-> index, at |-> frame]
      /\ UNCHANGED <<reserved, play, length, frame, loader, holder, taken, tripped, clock, packet>>

\* The completion check has waited for too long.
CheckGivesUp ==
  /\ \E i \in DOMAIN commands : commands[i].final
  /\ LET p == Last(commands).play
     IN  /\ holder' = (IF holder = p THEN 0 ELSE holder)
         /\ Purge(LAMBDA c : c.play # p)
  /\ UNCHANGED <<play, length, frame, events, loader, taken, tripped, clock, dispatched, packet>>

\* All that is due was executed, and a loader is not held up forever.
CountFrame ==
  /\ \A e \in events : e.at > frame
  /\ events # {} \/ loader.step # "none" \/ frame < MaxFrame
  /\ loader.step \in {"reset", "first"} => loader.delay < MaxDelay
  /\ frame' = frame + 1
  /\ loader' = (IF loader.step \in {"reset", "first"} THEN [loader EXCEPT !.delay = @ + 1] ELSE loader)
  /\ loader.step \in {"none", "reset", "first"}
  /\ UNCHANGED <<reserved, play, length, events, holder, taken, tripped, commands, clock, dispatched, packet>>

-----------------------------------------------------------------------------
(* The worker, and others who use the output.                              *)

\* Mutant of Advance: what was skipped is not counted.
AdvanceByOne(c) == clock

\* The clock when a command's packet is sent.
Advance(c) == clock + c.skipped

\* A packet is sent; after its last one a play releases the output.  (What is
\* queued is the holder's; a lease that is lost while its command is in the
\* worker's hand is module RtpOutput's.)
Send ==
  LET c == Head(commands)
  IN  /\ commands # <<>> /\ commands' = Tail(commands)
      /\ clock' = (IF c.kind = "reset" THEN 0 ELSE Advance(c) + 1)
      /\ packet' = (IF c.kind = "reset" THEN packet
                  ELSE [play |-> c.play, kind |-> c.kind, index |-> c.index, stamp |-> Advance(c)])
      /\ holder' = (IF c.final THEN 0 ELSE holder)
      /\ reserved' = (reserved /\ ~c.final)
      /\ UNCHANGED <<play, length, frame, events, loader, taken, tripped, dispatched>>

\* A reset fails, or sending has failed too often.
Trip ==
  /\ commands # <<>> /\ holder = Head(commands).play
  /\ LET p == Head(commands).play
     IN  /\ tripped' = tripped \cup {p} /\ holder' = 0
         /\ Purge(LAMBDA c : c.play # p)
  /\ UNCHANGED <<play, length, frame, events, loader, taken, clock, dispatched, packet>>

\* A session of animation takes the output.
OtherAcquires ==
  /\ taken < MaxTaken /\ taken' = taken + 1 /\ holder' = Other
  /\ Purge(LAMBDA c : FALSE)
  /\ UNCHANGED <<play, length, frame, events, loader, tripped, clock, dispatched, packet>>

OtherReleases ==
  /\ holder = Other /\ holder' = 0
  /\ UNCHANGED <<reserved, play, length, frame, events, loader, taken, tripped, commands, clock, dispatched, packet>>

StandaloneNext ==
  \/ (\E n \in Lengths : PlaySound(n))
  \/ (\E e \in events : Music(e) \/ Prime(e) \/ FrameEnds(e) \/ Frame(e))
  \/ Load \/ FixStart \/ ScheduleReset \/ ScheduleFirst \/ LoaderFails
  \/ CheckGivesUp \/ CountFrame \/ Send \/ Trip \/ OtherAcquires \/ OtherReleases

-----------------------------------------------------------------------------
(* Properties.                                                             *)

\* How many may still use the reservation: an event, the loader, a command.
Holders ==
  Cardinality({e \in events : e.kind \in {"music", "frame"}})
    + Cardinality({i \in DOMAIN commands : commands[i].final})
    + (IF loader.step = "none" THEN 0 ELSE 1)

(* Safety (StandaloneRtpAdmission.h: the reservation is transferred from   *)
(* the request to the loader, then along the self-scheduling playback      *)
(* chain; RtpFrameClock.h: advancing one encoded frame always advances the *)
(* clock by exactly 480): the reservation is taken exactly while something *)
(* will still use it, and by one only; a packet is queued while its time   *)
(* lasts, counted from the start, however late its event; and a packet     *)
(* carries the stamp of its place in the sound after the priming, whatever *)
(* was skipped, so that no listener hears the sound out of step.           *)
TracksKeepTime ==
  /\ \A i \in DOMAIN commands : commands[i].play = holder
  /\ Holders = (IF reserved THEN 1 ELSE 0)
  /\ \A e \in events : e.kind = "frame" =>
       /\ \A i \in DOMAIN commands : commands[i].play = e.play /\ commands[i].kind = "audio" =>
            commands[i].index < e.index
       /\ dispatched.play = e.play =>
            /\ dispatched.index + 1 = e.index
            /\ dispatched.at >= e.at - Step /\ dispatched.at < e.at
  /\ packet.kind = "audio" => packet.stamp = Priming + packet.index
  /\ packet.kind = "silent" => packet.stamp = packet.index

=============================================================================
