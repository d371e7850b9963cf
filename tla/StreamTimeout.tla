--------------------------- MODULE StreamTimeout ---------------------------
(***************************************************************************)
(* How a live stream to a creature ends (ws/messaging/StreamFrameHandler). *)
(* Every frame puts the creature's deadline off; one timeout event per     *)
(* creature, guarded by a pending gate, chases the deadline on the event   *)
(* loop and ends the stream once it has caught it.  Which creatures stream *)
(* is kept twice: in the registry the schedulers ask and in the activity   *)
(* that clients see.                                                       *)
(*                                                                         *)
(* WebSocket threads handle frames concurrently with the event loop; each  *)
(* critical section is one step.  Playback.tla has what a frame does to    *)
(* sessions and playlists; here the expiry it takes for granted is built.  *)
(***************************************************************************)
EXTENDS Naturals, FiniteSets

CONSTANTS
  Creatures,
  Threads,   \* WebSocket threads
  Timeout,   \* getStreamingTimeoutFrames()
  MaxNow,    \* bound: the last frame of the loop in which a frame is handled
  MaxFrames, \* bound: stream frames received
  None

ASSUME StreamAssumption ==
  /\ Timeout \in Nat /\ MaxNow \in Nat /\ MaxFrames \in Nat
  /\ None \notin Nat /\ None \notin Creatures

VARIABLES
  now,       \* the event loop's frame
  registry,  \* streamingRegistry
  running,   \* creatures whose activity is Streaming/Running
  deadline,  \* streamingDeadlines
  pending,   \* timeoutEventPending
  events,    \* StreamingTimeoutEvents in the event queue
  thread,    \* where each thread is in stream()
  loop,      \* where the event loop is in executeImpl()
  frames

streamVars == <<registry, running>>
timeoutVars == <<deadline, pending>>
vars == <<now, streamVars, timeoutVars, events, thread, loop, frames>>

Event == [creature : Creatures, frame : Nat]

\* "until" is the deadline the thread has computed.
Thread == [at : {"idle", "mark", "announce", "read", "extend", "gate", "schedule"},
           creature : Creatures \cup {None}, until : Nat]

Loop == [at : {"rest", "chase", "clear", "tell"}, creature : Creatures \cup {None}, until : Nat]

Idle == [at |-> "idle", creature |-> None, until |-> 0]

Rest == [at |-> "rest", creature |-> None, until |-> 0]

At(t, place) == thread[t].at = place

Goto(t, place) == thread' = [thread EXCEPT ![t].at = place]

Init ==
  /\ now = 0
  /\ registry = {} /\ running = {}
  /\ deadline = [c \in Creatures |-> None] /\ pending = {}
  /\ events = {}
  /\ thread = [t \in Threads |-> Idle]
  /\ loop = Rest
  /\ frames = 0

-----------------------------------------------------------------------------
(* stream(), for a creature that exists.                                   *)

FrameArrives(t, c) ==
  /\ At(t, "idle")
  /\ frames < MaxFrames /\ now < MaxNow
  /\ frames' = frames + 1
  /\ thread' = [thread EXCEPT ![t] = [Idle EXCEPT !.at = "mark", !.creature = c]]
  /\ UNCHANGED <<now, streamVars, timeoutVars, events, loop>>

\* markStreamingIfNew.
MarkStreaming(t) ==
  LET c == thread[t].creature
  IN  /\ At(t, "mark")
      /\ registry' = registry \cup {c}
      /\ Goto(t, IF c \in registry THEN "read" ELSE "announce")
      /\ UNCHANGED <<now, running, timeoutVars, events, loop, frames>>

\* setActivityState(Streaming, Running): without a session id it is never stale.
Announce(t) ==
  /\ At(t, "announce")
  /\ running' = running \cup {thread[t].creature}
  /\ Goto(t, "read")
  /\ UNCHANGED <<now, registry, timeoutVars, events, loop, frames>>

ReadFrameNumber(t) ==
  /\ At(t, "read")
  /\ thread' = [thread EXCEPT ![t].at = "extend", ![t].until = now + 1 + Timeout]
  /\ UNCHANGED <<now, streamVars, timeoutVars, events, loop, frames>>

\* updateStreamingDeadline.
ExtendDeadline(t) ==
  /\ At(t, "extend")
  /\ deadline' = [deadline EXCEPT ![thread[t].creature] = thread[t].until]
  /\ Goto(t, "gate")
  /\ UNCHANGED <<now, streamVars, pending, events, loop, frames>>

\* markTimeoutEventPending: the thread that sets the gate schedules the event.
PassGate(t) ==
  LET c == thread[t].creature
  IN  /\ At(t, "gate")
      /\ pending' = pending \cup {c}
      /\ thread' = [thread EXCEPT ![t] = IF c \in pending THEN Idle ELSE [@ EXCEPT !.at = "schedule"]]
      /\ UNCHANGED <<now, streamVars, deadline, events, loop, frames>>

ScheduleTimeout(t) ==
  /\ At(t, "schedule")
  /\ events' = events \cup {[creature |-> thread[t].creature, frame |-> thread[t].until]}
  /\ thread' = [thread EXCEPT ![t] = Idle]
  /\ UNCHANGED <<now, streamVars, timeoutVars, loop, frames>>

-----------------------------------------------------------------------------
(* StreamingTimeoutEvent.                                                  *)

LoopRests == loop.at = "rest"

Due(e) == e \in events /\ e.frame <= now

\* decideExpiry finds no deadline: the gate is opened and nothing else done.
AlreadyGone(e) ==
  /\ LoopRests /\ Due(e)
  /\ deadline[e.creature] = None
  /\ events' = events \ {e}
  /\ pending' = pending \ {e.creature}
  /\ UNCHANGED <<now, streamVars, deadline, thread, loop, frames>>

\* Frames have put the deadline off: this event goes on as the only one.
Chase(e) ==
  /\ LoopRests /\ Due(e)
  /\ deadline[e.creature] # None /\ deadline[e.creature] > e.frame
  /\ events' = events \ {e}
  /\ loop' = [at |-> "chase", creature |-> e.creature, until |-> deadline[e.creature]]
  /\ UNCHANGED <<now, streamVars, timeoutVars, thread, frames>>

\* Mutant: the chasing event is not scheduled.
ChaseIsLost ==
  /\ loop.at = "chase"
  /\ loop' = Rest
  /\ UNCHANGED <<now, streamVars, timeoutVars, events, thread, frames>>

ScheduleChase ==
  /\ loop.at = "chase"
  /\ events' = events \cup {[creature |-> loop.creature, frame |-> loop.until]}
  /\ loop' = Rest
  /\ UNCHANGED <<now, streamVars, timeoutVars, thread, frames>>

\* Mutant: the event ends the stream without looking at the deadline again.
ExpireAtOnce(e) ==
  /\ LoopRests /\ Due(e)
  /\ deadline[e.creature] # None
  /\ events' = events \ {e}
  /\ deadline' = [deadline EXCEPT ![e.creature] = None]
  /\ pending' = pending \ {e.creature}
  /\ loop' = [at |-> "clear", creature |-> e.creature, until |-> 0]
  /\ UNCHANGED <<now, streamVars, thread, frames>>

\* Mutant: the gate stays closed.
ExpireKeepsGate(e) ==
  /\ LoopRests /\ Due(e)
  /\ deadline[e.creature] # None /\ deadline[e.creature] <= e.frame
  /\ events' = events \ {e}
  /\ deadline' = [deadline EXCEPT ![e.creature] = None]
  /\ loop' = [at |-> "clear", creature |-> e.creature, until |-> 0]
  /\ UNCHANGED <<now, streamVars, pending, thread, frames>>

\* Expired: deadline and gate go in the section that compared them ...
Expire(e) ==
  /\ LoopRests /\ Due(e)
  /\ deadline[e.creature] # None /\ deadline[e.creature] <= e.frame
  /\ events' = events \ {e}
  /\ deadline' = [deadline EXCEPT ![e.creature] = None]
  /\ pending' = pending \ {e.creature}
  /\ loop' = [at |-> "clear", creature |-> e.creature, until |-> 0]
  /\ UNCHANGED <<now, streamVars, thread, frames>>

\* ... then the registry ...
ClearStreaming ==
  /\ loop.at = "clear"
  /\ registry' = registry \ {loop.creature}
  /\ loop' = [loop EXCEPT !.at = "tell"]
  /\ UNCHANGED <<now, running, timeoutVars, events, thread, frames>>

\* ... and the activity, Streaming/Stopped.
TellStopped ==
  /\ loop.at = "tell"
  /\ running' = running \ {loop.creature}
  /\ loop' = Rest
  /\ UNCHANGED <<now, registry, timeoutVars, events, thread, frames>>

\* The loop goes to its next frame when nothing is due.  Past MaxNow it goes on
\* only for the events that are left once the threads are done.
Tick ==
  /\ LoopRests /\ \A e \in events : ~Due(e)
  /\ now < MaxNow \/ (events # {} /\ \A t \in Threads : At(t, "idle"))
  /\ now' = now + 1
  /\ UNCHANGED <<streamVars, timeoutVars, events, thread, loop, frames>>

-----------------------------------------------------------------------------
ThreadNext(t) ==
  \/ MarkStreaming(t) \/ Announce(t) \/ ReadFrameNumber(t)
  \/ ExtendDeadline(t) \/ PassGate(t) \/ ScheduleTimeout(t)

LoopNext ==
  \/ \E e \in events : AlreadyGone(e) \/ Chase(e) \/ Expire(e)
  \/ ScheduleChase \/ ClearStreaming \/ TellStopped
  \/ Tick

Next ==
  \/ \E t \in Threads : ThreadNext(t) \/ \E c \in Creatures : FrameArrives(t, c)
  \/ LoopNext

Spec == Init /\ [][Next]_vars

\* Frames that have arrived are handled, and the event loop runs.
FairSpec == Spec /\ \A t \in Threads : WF_vars(ThreadNext(t)) /\ WF_vars(LoopNext)

-----------------------------------------------------------------------------
TypeOK ==
  /\ now \in Nat /\ frames \in Nat
  /\ registry \subseteq Creatures /\ running \subseteq Creatures
  /\ deadline \in [Creatures -> Nat \cup {None}] /\ pending \subseteq Creatures
  /\ events \subseteq Event
  /\ thread \in [Threads -> Thread]
  /\ loop \in Loop

On(t, c, places) == thread[t].at \in places /\ thread[t].creature = c

LoopOn(c, places) == loop.at \in places /\ loop.creature = c

\* The carriers of a creature's timeout: what will look at its deadline next.
Scheduling(c) == {t \in Threads : On(t, c, {"schedule"})}
Flying(c) == {e \in events : e.creature = c}

(* A closed gate stands for exactly one timeout: an event in the queue, or *)
(* one that a thread or the chasing event is about to schedule.            *)
OneEvent(c) ==
  /\ c \in pending <=> Scheduling(c) # {} \/ Flying(c) # {} \/ LoopOn(c, {"chase"})
  /\ \A s, t \in Scheduling(c) : s = t
  /\ \A d, e \in Flying(c) : d = e
  /\ Scheduling(c) # {} => Flying(c) = {} /\ ~LoopOn(c, {"chase"})
  /\ Flying(c) # {} => ~LoopOn(c, {"chase"})

GateIsOneEvent == \A c \in Creatures : OneEvent(c)

\* A frame is on its way to set the creature's deadline, or to ask the gate.
Extending(c) == \E t \in Threads : On(t, c, {"announce", "read", "extend"})
AtGate(c) == \E t \in Threads : On(t, c, {"gate"})

(* A creature that streams, by either record, has a deadline with somebody *)
(* to watch it, or is just starting or ending: no interleaving of frames   *)
(* with the expiring event leaves it streaming with no event to end it.    *)
Watched(c) ==
  /\ deadline[c] # None => c \in pending \/ AtGate(c)
  /\ c \in registry => deadline[c] # None \/ Extending(c) \/ LoopOn(c, {"clear"})
  /\ c \in running => deadline[c] # None \/ Extending(c) \/ LoopOn(c, {"clear", "tell"})

StreamIsWatched == \A c \in Creatures : Watched(c)

\* The bookkeeping of StreamFrameHandler hangs together.
StreamsConsistent == TypeOK /\ GateIsOneEvent /\ StreamIsWatched

(* A deadline is given up only when the loop has reached it: however the   *)
(* event and the frames meet, a stream whose last frame is recent is not   *)
(* cut short.                                                              *)
NotCutShort ==
  [][\A c \in Creatures : deadline[c] # None /\ deadline'[c] = None => deadline[c] <= now]_vars

Streams(c) == c \in registry \cup running

(* Liveness: when its frames stop, a creature is released by both records, *)
(* so that schedulers may use it again.                                    *)
StreamsExpire == \A c \in Creatures : Streams(c) ~> ~Streams(c)
=============================================================================
