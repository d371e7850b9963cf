----------------------------- MODULE RtpOutput -----------------------------
(***************************************************************************)
(* One RTP output shared by every playback of the server.  A playback      *)
(* acquires the output as a new generation, which supersedes the older     *)
(* ones; the event loop queues its commands; one worker sends them, and    *)
(* its circuit breaker terminates a generation whose sends keep failing    *)
(* (rtp/MultiOpusRtpServer.cpp, rtp/RtpOutputCoordinator.h).  The event    *)
(* loop has to tell a lease released after the last frame from one lost to *)
(* a newer owner and from one the breaker ended                            *)
(* (audio/RtpAudioTransport.cpp, eventloop/events/music.cpp).              *)
(*                                                                         *)
(* Every atomic load, compare-and-swap and critical section is a step of   *)
(* its own: loader threads and the worker run between any two of them,     *)
(* while the event loop finishes one handler before it starts another.     *)
(***************************************************************************)
EXTENDS Naturals, Sequences, FiniteSets, Functions

CONSTANTS
  Session,       \* cooperative playbacks (RtpAudioTransport)
  Sound,         \* standalone playbacks (StandaloneRtpFrameEvent)
  Frames,        \* audio frame sets of a playback
  QueueCapacity, \* OUTPUT_QUEUE_CAPACITY
  RunTrips,      \* consecutiveFailuresToTrip
  WindowTrips,   \* windowedFailuresToTrip
  RingSize       \* RtpTerminalFailureRegistry::RING_SIZE

ASSUME RtpAssumption ==
  /\ Session \cap Sound = {}
  /\ Frames \in Nat \ {0}
  /\ QueueCapacity \in Nat \ {0}
  /\ RunTrips \in Nat \ {0} /\ WindowTrips \in Nat \ {0}
  /\ RingSize \in Nat \ {0}

VARIABLES
  next,     \* nextGeneration_
  active,   \* activeGeneration_
  ready,    \* readyGeneration_
  queue,    \* outputQueue_: commands by the turn they were pushed at
  turn,     \* commands pushed so far
  ring,     \* generations published by the breaker, newest last
  tracker,  \* failureTracker_
  worker,   \* where the output worker is, and its command
  player,   \* each playback
  loop,     \* the playback whose event handler is running
  answered, \* generations released for their final frame (history)
  broken    \* generations released by the breaker (history)

sharedVars == <<next, active, ready, queue, turn>>
workerVars == <<ring, tracker, worker, answered, broken>>
vars == <<sharedVars, workerVars, player, loop>>

Player == Session \cup Sound

None == 0

Command == [gen : Nat, kind : {"reset", "silent", "audio"}, last : BOOLEAN]

Stage == {"new", "claimed", "reset", "prime", "play", "drain", "skipped", "done"}

Spot == {"rest", "current", "owned", "recheck", "enqueue", "push", "release", "purge"}

Outcome == {"none", "delivered", "stale", "failed", "rejected", "timeout", "cut", "cancelled"}

Place == {"idle", "popped", "inside", "trip", "break", "drop", "acknowledge"}

IsCurrent(g) == g # None /\ g = active

\* The generations the registry still knows.
IsTripped(g) == \E i \in DOMAIN ring : ring[i] = g /\ i + RingSize > Len(ring)

\* compare_exchange_strong(g, 0)
Cleared(value, g) == IF value = g THEN None ELSE value

Without(g) == Restrict(queue, {n \in DOMAIN queue : queue[n].gen # g})

Only(g) == Restrict(queue, {n \in DOMAIN queue : queue[n].gen = g})

-----------------------------------------------------------------------------
Init ==
  /\ next = 0 /\ active = None /\ ready = None
  /\ queue = [n \in {} |-> None] /\ turn = 0 /\ ring = <<>>
  /\ tracker = [gen |-> None, run |-> 0, total |-> 0]
  /\ worker = [at |-> "idle", cmd |-> [gen |-> None, kind |-> "reset", last |-> FALSE]]
  /\ player = [p \in Player |-> [stage |-> "new", at |-> "rest", gen |-> None,
                                 frame |-> 0, outcome |-> "none"]]
  /\ loop = {}
  /\ answered = {} /\ broken = {}

-----------------------------------------------------------------------------
(* acquireOutput, on a loader thread.                                      *)

\* The worker holds the coordinator's mutex while it sends.
Sending == worker.at = "inside"

\* Mutant: the worker no longer holds the mutex while it sends.
AcquireUnlocked(p) ==
  /\ player[p].stage = "new"
  /\ next' = next + 1
  /\ active' = next + 1
  /\ player' = [player EXCEPT ![p].stage = "claimed", ![p].gen = next + 1]
  /\ UNCHANGED <<ready, queue, turn, workerVars, loop>>

Acquire(p) ==
  /\ player[p].stage = "new"
  /\ ~Sending
  /\ next' = next + 1
  /\ active' = next + 1
  /\ player' = [player EXCEPT ![p].stage = "claimed", ![p].gen = next + 1]
  /\ UNCHANGED <<ready, queue, turn, workerVars, loop>>

\* Mutant: a claim that was superseded meanwhile still purges the queue.
PurgeOthersUnguarded(p) ==
  /\ player[p].stage = "claimed"
  /\ ~Sending
  /\ ready' = None
  /\ queue' = Only(player[p].gen)
  /\ player' = [player EXCEPT ![p].stage = "reset"]
  /\ UNCHANGED <<next, active, turn, workerVars, loop>>

PurgeOthers(p) ==
  /\ player[p].stage = "claimed"
  /\ ~Sending
  /\ IF IsCurrent(player[p].gen)
     THEN ready' = None /\ queue' = Only(player[p].gen)
     ELSE UNCHANGED <<ready, queue>>
  /\ player' = [player EXCEPT ![p].stage = "reset"]
  /\ UNCHANGED <<next, active, turn, workerVars, loop>>

-----------------------------------------------------------------------------
(* Event handlers.                                                         *)

Is(p, stages, spot) == player[p].stage \in stages /\ player[p].at = spot

\* p's handler goes on at another step, and is the one that runs.
Goes(p, spot) == player' = [player EXCEPT ![p].at = spot] /\ loop' = {p}

\* p's handler returns; the playback has got to a stage.
Returns(p, stage) ==
  player' = [player EXCEPT ![p].at = "rest", ![p].stage = stage] /\ loop' = loop \ {p}

LoopStep == UNCHANGED <<sharedVars, workerVars>>

\* The playback is over for the event loop.  A transport's stop() releases the
\* lease unless the final frame is queued; a standalone playback that fails
\* releases it; a drain that takes too long releases it in any case.
Concludes(p, outcome) ==
  LET releases == \/ outcome = "timeout"
                  \/ p \in Session /\ player[p].stage # "drain"
                  \/ p \in Sound /\ outcome \notin {"delivered", "stale", "cut"}
  IN  IF releases
      THEN player' = [player EXCEPT ![p].outcome = outcome, ![p].at = "release"] /\ loop' = {p}
      ELSE player' = [player EXCEPT ![p].outcome = outcome, ![p].at = "rest",
                                    ![p].stage = "done"] /\ loop' = {}

\* RtpEncoderResetEvent, RtpSilentFrameEvent: the check of their enqueue.
BeginPriming(p) ==
  /\ loop = {} /\ Is(p, {"reset", "prime"}, "rest")
  /\ IF IsCurrent(player[p].gen) THEN Goes(p, "push") ELSE Returns(p, "play")
  /\ LoopStep

\* start, dispatchNextChunk and the frame event ask the registry first; the
\* completion check asks for the lease first.
BeginTick(p) ==
  /\ loop = {}
  /\ \/ Is(p, {"play"}, "rest")
     \/ Is(p, {"drain"}, "rest") /\ p \in Session
  /\ IF IsTripped(player[p].gen) THEN Concludes(p, "failed") ELSE Goes(p, "current")
  /\ LoopStep

BeginCompletionCheck(p) ==
  /\ loop = {}
  /\ Is(p, {"drain", "skipped"}, "rest") /\ p \in Sound
  /\ Goes(p, "current")
  /\ LoopStep

\* isCurrentOutput; the final frame's acknowledgment is awaited for so long.
CheckCurrent(p) ==
  /\ player[p].at = "current"
  /\ IF ~IsCurrent(player[p].gen) THEN Goes(p, "recheck")
     ELSE IF player[p].stage = "play" THEN Goes(p, "enqueue")
     ELSE IF p \in Sound THEN Goes(p, "owned")
     ELSE Returns(p, "drain") \/ Concludes(p, "timeout")
  /\ LoopStep

\* The completion check finds its lease current and asks the registry.
CheckOwned(p) ==
  /\ player[p].at = "owned"
  /\ IF IsTripped(player[p].gen) THEN Concludes(p, "failed")
     ELSE Returns(p, player[p].stage) \/ Concludes(p, "timeout")
  /\ LoopStep

\* What a released lease means when the breaker did not end it.
Meaning(p) == CASE player[p].stage = "play"    -> "stale"
                [] player[p].stage = "drain"   -> "delivered"
                [] player[p].stage = "skipped" -> "cut"

Recheck(p) ==
  /\ player[p].at = "recheck"
  /\ Concludes(p, IF IsTripped(player[p].gen) THEN "failed" ELSE Meaning(p))
  /\ LoopStep

\* The check of enqueueAudioFrame.  A session whose motion goes on ticks again.
Enqueue(p) ==
  /\ player[p].at = "enqueue"
  /\ \/ IsCurrent(player[p].gen) /\ Goes(p, "push")
     \/ ~IsCurrent(player[p].gen) /\ Concludes(p, "stale")
     \/ ~IsCurrent(player[p].gen) /\ p \in Session /\ Returns(p, "play")
  /\ LoopStep

\* The event loop is so late that every remaining frame is skipped.
SkipTail(p) ==
  /\ player[p].at = "enqueue"
  /\ IF p \in Session THEN Concludes(p, "cut")
     ELSE player' = [player EXCEPT ![p].stage = "skipped", ![p].at = "release"] /\ UNCHANGED loop
  /\ LoopStep

\* The commands p may push now; late frames are skipped.
NextCommands(p) ==
  CASE player[p].stage = "reset" -> {[gen |-> player[p].gen, kind |-> "reset", last |-> FALSE]}
    [] player[p].stage = "prime" -> {[gen |-> player[p].gen, kind |-> "silent", last |-> FALSE]}
    [] player[p].stage = "play"  ->
         {[gen |-> player[p].gen, kind |-> "audio", last |-> l] :
            l \in (IF player[p].frame + 1 = Frames THEN {TRUE} ELSE BOOLEAN)}

\* tryPush.
Push(p) ==
  /\ player[p].at = "push"
  /\ Cardinality(DOMAIN queue) < QueueCapacity
  /\ \E c \in NextCommands(p) :
       /\ queue' = [n \in DOMAIN queue \cup {turn} |-> IF n = turn THEN c ELSE queue[n]]
       /\ player' = [player EXCEPT
            ![p].at = "rest",
            ![p].stage = CASE c.kind = "reset" -> "prime"
                           [] c.last -> "drain"
                           [] OTHER -> "play",
            ![p].frame = IF c.kind = "audio" THEN @ + 1 ELSE @]
  /\ turn' = turn + 1
  /\ loop' = {}
  /\ UNCHANGED <<next, active, ready, workerVars>>

PushRejected(p) ==
  /\ player[p].at = "push"
  /\ Cardinality(DOMAIN queue) = QueueCapacity
  /\ IF player[p].stage = "play" THEN Concludes(p, "rejected") ELSE Goes(p, "release")
  /\ LoopStep

\* releaseOutput takes no lock, so it may come in the middle of a send.
Release(p) ==
  /\ player[p].at = "release"
  /\ active' = Cleared(active, player[p].gen)
  /\ player' = [player EXCEPT ![p].at = "purge"]
  /\ UNCHANGED <<next, ready, queue, turn, workerVars, loop>>

Purge(p) ==
  /\ player[p].at = "purge"
  /\ ready' = Cleared(ready, player[p].gen)
  /\ queue' = Without(player[p].gen)
  /\ Returns(p, IF player[p].outcome # "none" THEN "done"
                ELSE IF player[p].stage = "skipped" THEN "skipped" ELSE "play")
  /\ UNCHANGED <<next, active, turn, workerVars>>

\* The session is torn down by whoever cancelled it.
Cancel(p) ==
  /\ p \in Session /\ loop = {}
  /\ Is(p, {"reset", "prime", "play", "drain"}, "rest")
  /\ Concludes(p, "cancelled")
  /\ LoopStep

\* The loader finds its session cancelled and releases what it acquired.
LoaderAbandons(p) ==
  /\ p \in Session
  /\ Is(p, {"reset"}, "rest")
  /\ player' = [player EXCEPT ![p].outcome = "cancelled", ![p].at = "release"]
  /\ UNCHANGED <<sharedVars, workerVars, loop>>

-----------------------------------------------------------------------------
(* runOutputWorker.                                                        *)

Cmd == worker.cmd

Moves(place) == worker' = [worker EXCEPT !.at = place]

WorkerRest == UNCHANGED <<next, turn, player, loop>>

Pop ==
  /\ worker.at = "idle"
  /\ \E n \in DOMAIN queue :
       /\ \A m \in DOMAIN queue : n <= m
       /\ worker' = [at |-> "popped", cmd |-> queue[n]]
       /\ queue' = Restrict(queue, DOMAIN queue \ {n})
  /\ UNCHANGED <<active, ready, ring, tracker, answered, broken>> /\ WorkerRest

\* lockIfCurrent; a reset takes away the ready generation before it rotates.
Enter ==
  /\ worker.at = "popped" /\ IsCurrent(Cmd.gen)
  /\ ready' = IF Cmd.kind = "reset" THEN None ELSE ready
  /\ Moves("inside")
  /\ UNCHANGED <<active, queue, ring, tracker, answered, broken>> /\ WorkerRest

Discard ==
  /\ worker.at = "popped" /\ ~IsCurrent(Cmd.gen)
  /\ Moves("idle")
  /\ UNCHANGED <<active, ready, queue, ring, tracker, answered, broken>> /\ WorkerRest

Reset ==
  /\ Sending /\ Cmd.kind = "reset"
  /\ ready' = Cmd.gen
  /\ tracker' = [gen |-> Cmd.gen, run |-> 0, total |-> 0]
  /\ Moves("idle")
  /\ UNCHANGED <<active, queue, ring, answered, broken>> /\ WorkerRest

\* The rotation throws: the generation is terminal without any send.
ResetThrows ==
  /\ Sending /\ Cmd.kind = "reset"
  /\ Moves("trip")
  /\ UNCHANGED <<active, ready, queue, ring, tracker, answered, broken>> /\ WorkerRest

\* The tracker implicitly begins a generation it has not seen.
Tracked == IF tracker.gen = Cmd.gen THEN tracker ELSE [gen |-> Cmd.gen, run |-> 0, total |-> 0]

AfterSend == IF Cmd.last THEN "acknowledge" ELSE "idle"

SendSucceeds ==
  /\ Sending /\ Cmd.kind # "reset" /\ ready = Cmd.gen
  /\ tracker' = [Tracked EXCEPT !.run = 0]
  /\ Moves(AfterSend)
  /\ UNCHANGED <<active, ready, queue, ring, answered, broken>> /\ WorkerRest

\* A run of failures trips, or one that reaches the final frame; failures the
\* window may or may not have forgotten by now trip as well.
MustTrip(t) == t.run >= RunTrips \/ (Cmd.last /\ t.run >= 2)

MayTrip(t) == MustTrip(t) \/ t.total >= WindowTrips

\* Mutant: a final frame that fails without a trip is not acknowledged.
SendFailsUnanswered ==
  /\ Sending /\ Cmd.kind # "reset"
  /\ tracker' = [Tracked EXCEPT !.run = @ + 1, !.total = @ + 1]
  /\ \/ MayTrip(tracker') /\ Moves("trip")
     \/ ~MustTrip(tracker') /\ Moves("idle")
  /\ UNCHANGED <<active, ready, queue, ring, answered, broken>> /\ WorkerRest

\* A send fails, or throws because its generation was not reset.
SendFails ==
  /\ Sending /\ Cmd.kind # "reset"
  /\ tracker' = [Tracked EXCEPT !.run = @ + 1, !.total = @ + 1]
  /\ \/ MayTrip(tracker') /\ Moves("trip")
     \/ ~MustTrip(tracker') /\ Moves(AfterSend)
  /\ UNCHANGED <<active, ready, queue, ring, answered, broken>> /\ WorkerRest

\* Mutant: the terminal record gets lost.
PublishLost ==
  /\ worker.at = "trip"
  /\ Moves("break")
  /\ UNCHANGED <<active, ready, queue, ring, tracker, answered, broken>> /\ WorkerRest

\* tripCircuitBreaker: publish, release, drop what is queued.
Publish ==
  /\ worker.at = "trip"
  /\ ring' = Append(ring, Cmd.gen)
  /\ Moves("break")
  /\ UNCHANGED <<active, ready, queue, tracker, answered, broken>> /\ WorkerRest

Break ==
  /\ worker.at = "break"
  /\ broken' = IF active = Cmd.gen THEN broken \cup {Cmd.gen} ELSE broken
  /\ active' = Cleared(active, Cmd.gen)
  /\ ready' = Cleared(ready, Cmd.gen)
  /\ Moves("drop")
  /\ UNCHANGED <<queue, ring, tracker, answered>> /\ WorkerRest

Drop ==
  /\ worker.at = "drop"
  /\ queue' = Without(Cmd.gen)
  /\ Moves(AfterSend)
  /\ UNCHANGED <<active, ready, ring, tracker, answered, broken>> /\ WorkerRest

\* releaseAfterSend.
Acknowledge ==
  /\ worker.at = "acknowledge"
  /\ answered' = IF active = Cmd.gen THEN answered \cup {Cmd.gen} ELSE answered
  /\ active' = Cleared(active, Cmd.gen)
  /\ ready' = Cleared(ready, Cmd.gen)
  /\ Moves("idle")
  /\ UNCHANGED <<queue, ring, tracker, broken>> /\ WorkerRest

-----------------------------------------------------------------------------
LoaderNext(p) == Acquire(p) \/ PurgeOthers(p) \/ LoaderAbandons(p)

HandlerNext(p) ==
  \/ BeginPriming(p) \/ BeginTick(p) \/ BeginCompletionCheck(p)
  \/ CheckCurrent(p) \/ CheckOwned(p) \/ Recheck(p)
  \/ Enqueue(p) \/ SkipTail(p) \/ Push(p) \/ PushRejected(p)
  \/ Release(p) \/ Purge(p) \/ Cancel(p)

WorkerNext ==
  \/ Pop \/ Enter \/ Discard \/ Reset \/ ResetThrows \/ SendSucceeds \/ SendFails
  \/ Publish \/ Break \/ Drop \/ Acknowledge

Next == (\E p \in Player : LoaderNext(p) \/ HandlerNext(p)) \/ WorkerNext

Spec == Init /\ [][Next]_vars

\* The worker thread runs; nothing makes the event loop come back in time.
FairSpec == Spec /\ WF_vars(WorkerNext)

-----------------------------------------------------------------------------
TypeOK ==
  /\ next \in Nat /\ active \in Nat /\ ready \in Nat
  /\ turn \in Nat /\ DOMAIN queue \subseteq 0 .. turn - 1
  /\ \A n \in DOMAIN queue : queue[n] \in Command
  /\ Cardinality(DOMAIN queue) <= QueueCapacity
  /\ ring \in Seq(Nat)
  /\ tracker \in [gen : Nat, run : Nat, total : Nat]
  /\ worker \in [at : Place, cmd : Command]
  /\ player \in [Player -> [stage : Stage, at : Spot, gen : Nat, frame : 0 .. Frames,
                            outcome : Outcome]]
  /\ loop \subseteq Player
  /\ answered \subseteq Nat /\ broken \subseteq Nat

(* While the worker sends, no newer owner exists: a new owner's first      *)
(* command can only follow the older generation's last one on the wire.    *)
SendsNewest == Sending => Cmd.gen = next

(* A frame that may be sent finds its generation reset: neither a late     *)
(* purge of an older acquire nor a rejected reset leaves an owner whose    *)
(* every frame is refused.                                                 *)
FramesFollowReset ==
  Sending /\ Cmd.kind # "reset" /\ IsCurrent(Cmd.gen) => ready = Cmd.gen

(* Safety: the wire carries the newest owner's frames, after its reset.    *)
SendsInOrder == SendsNewest /\ FramesFollowReset

(* A playback is reported as played only when the worker has dealt with    *)
(* its final frame, or a newer owner has taken the output; and "a breaker  *)
(* termination can't be misread as delivery": it did not lose its lease to *)
(* the breaker, unless the terminal ring has wrapped since, for which as   *)
(* many newer generations must have been claimed as it has places.         *)
DeliveredIsAnswered ==
  \A p \in Player : player[p].outcome = "delivered" =>
    /\ player[p].gen \in answered \/ player[p].gen < next
    /\ player[p].gen \notin broken \/ player[p].gen + RingSize <= next

(* Action property: whoever releases the output owns it; a late release of *)
(* an older generation never silences its successor.                       *)
ReleaseIsOwn ==
  [][active # None /\ active' = None =>
       \/ \E p \in Player : player[p].at = "release" /\ player[p].gen = active
       \/ worker.at \in {"break", "acknowledge"} /\ Cmd.gen = active]_vars

(* Liveness: once the final frame is queued the lease comes back, whatever *)
(* happens to the send; a playback never waits for nothing.                *)
FinalIsAnswered ==
  \A p \in Player : player[p].stage = "drain" ~> active # player[p].gen

(* "Indistinguishable from a benign supersede": a playback told that it    *)
(* was superseded did not lose its lease to the breaker.                   *)
TripIsNoSupersede ==
  \A p \in Player : player[p].outcome = "stale" => player[p].gen \notin broken
=============================================================================
