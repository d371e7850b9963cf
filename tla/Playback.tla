------------------------------ MODULE Playback ------------------------------
(***************************************************************************)
(* The life of playback sessions: the cooperative scheduler, the playback  *)
(* runner and playlist events of the event loop, the asynchronous audio    *)
(* loader, the REST and streaming handlers that start, interrupt and stop  *)
(* playback, and the runtime activity of every creature.  They share the   *)
(* session registry, whose critical sections are the actions of module     *)
(* SessionManager.                                                         *)
(*                                                                         *)
(* A thread is at a program counter between two critical sections; every   *)
(* action is one critical section, or a read whose answer the code uses    *)
(* later.  Event frames are abstracted: any pending event may be the next  *)
(* one the loop runs, since loads, delays and equal frames permute them.   *)
(* A runner that finds its session playing and reschedules itself changes  *)
(* nothing here, and is a stuttering step.                                 *)
(***************************************************************************)
EXTENDS SessionManager

CONSTANTS
  Loop,           \* the event loop thread
  Rest,           \* REST and websocket threads
  Loader,         \* workers of the audio load executor
  Creature,       \* the outputs that are creatures; the others are fixtures
  Home,           \* Home[c] = the universe of creature c (creatureUniverseMap)
  IdleAnimation,  \* IdleAnimation[c] = the idle animation of c, for those that have one
  Sound,          \* animations with a sound file that is loaded asynchronously
  Mistimed,       \* animations with a frame length or a frame count of zero
  Broken,         \* those, and the ones with frames that do not decode
  Items,          \* Items[p] = the animations playlist p can choose
  NoAnimation,    \* the animation of a thread that schedules none
  Workloads,      \* bound: the kinds of request a behaviour makes, the animations they
                  \* name, and whether the sending of a frame or of audio may fail
  MaxRequests     \* bound: requests that ever arrive

RequestKind == {"play", "idleOnly", "interrupt", "queue", "start", "stop", "stream", "setIdle"}

ASSUME PlaybackAssumption ==
  /\ Universe # {}
  /\ Creature \subseteq Output
  /\ Home \in [Creature -> Universe]
  /\ DOMAIN IdleAnimation \subseteq Creature
  /\ \A c \in DOMAIN IdleAnimation :
       IdleAnimation[c] \in Animation /\ Drives[IdleAnimation[c]] \cap Creature = {c}
  /\ Sound \subseteq Animation
  /\ Mistimed \subseteq Broken /\ Broken \subseteq Animation
  /\ Items \in [Playlist -> SUBSET Animation]
  /\ Workloads \subseteq
       [kinds : SUBSET RequestKind, animations : SUBSET Animation, outputFails : BOOLEAN]
  /\ NoAnimation \notin Animation
  /\ MaxRequests \in Nat

VARIABLES
  finished,        \* sessions whose completion a runner has claimed
  ended,           \* session -> times it was torn down (history)
  runners,         \* session -> pending PlaybackRunnerEvents
  playlistEvents,  \* universe -> pending PlaylistEvents
  crossed,         \* universes whose playlist lost an event, a finish or an interruption (history)
  loading,         \* sessions queued in the audio loader
  streaming,       \* creatures in the live-streaming registry
  idleEnabled,     \* creatures whose idle playback is enabled
  activity,        \* creature -> session it is said to run, newest generation written
  workload,        \* the bound of this behaviour
  requests,        \* requests that have arrived
  relayed,         \* sessions whose finish went to queued speech (history)
  unstopped,       \* sessions that may leave a creature running: broadcast as running after their
                   \* cancellation, with none to come, or finished beside another performance (history)
  switched,        \* creatures streamed over, or whose idle playback was switched (history)
  thread           \* thread -> what it is doing

pastVars     == <<relayed, unstopped, switched>>
chainVars    == <<playlistEvents, crossed, pastVars>>
eventVars    == <<runners, chainVars, loading>>
endVars      == <<finished, ended>>
creatureVars == <<streaming, idleEnabled, activity>>
bound        == <<workload, requests>>
playbackVars == <<smVars, eventVars, endVars, creatureVars, bound, thread>>

-----------------------------------------------------------------------------
Thread == {Loop} \cup Rest \cup Loader

Ids == 1 .. MaxSessions

\* The session id of a streaming activity write, which no playback session has.
StreamId == MaxSessions + 1

\* What a thread is doing.  "session" is the one it works on, "before" the
\* finished one whose onFinish scheduled it or the cancelled one whose
\* creatures return to idle, "ret" where scheduleAnimation returns to,
\* "victims" and "idles" the rest of its two loops.
Ready == [pc |-> "ready", universe |-> CHOOSE u \in Universe : TRUE, session |-> 0,
          before |-> 0, animation |-> NoAnimation, reason |-> "Play", entire |-> FALSE,
          ret |-> "ready", victims |-> {}, idles |-> {}, status |-> NoStatus]

Goto(t, r) == thread' = [thread EXCEPT ![t] = r]

At(t, pc) == thread[t].pc = pc

Jump(t, pc) == thread' = [thread EXCEPT ![t].pc = pc]

Creatures(s) == sessions[s].drives \cap Creature

Smallest(S) == CHOOSE s \in S : \A r \in S : s <= r

PushRunner(s) == runners' = [runners EXCEPT ![s] = @ + 1]

PushPlaylistEvent(u) ==
  /\ playlistEvents' = [playlistEvents EXCEPT ![u] = @ + 1]
  /\ crossed' = crossed \ {u}
  /\ UNCHANGED pastVars

-----------------------------------------------------------------------------
(* Runtime activity.  "session" is set exactly while the state is running. *)

\* Mutant: ownership is judged by session id alone (before issue #87).
StaleWriteBySessionOnly(c, id, generation, running) ==
  ~running /\ id # 0 /\ activity[c].session \notin {0, id}

\* The generation guard, then isStaleActivityWrite.
StaleWrite(c, id, generation, running) ==
  \/ generation # 0 /\ generation < activity[c].generation
  \/ ~running /\ id # 0 /\ activity[c].session \notin {0, id}

\* setActivityState: per creature one critical section of runtimeMutex, written
\* here for all of a session's creatures at once.
SetActivity(cs, id, generation, running) ==
  activity' = [c \in Creature |->
    IF c \notin cs \/ StaleWrite(c, id, generation, running) THEN activity[c]
    ELSE [session    |-> IF running THEN id ELSE 0,
          generation |-> IF generation > activity[c].generation
                         THEN generation ELSE activity[c].generation]]

SessionActivity(s, running) == SetActivity(Creatures(s), s, s, running)

IsStreaming(c) == c \in streaming \/ activity[c].session = StreamId

-----------------------------------------------------------------------------
PlaybackInit ==
  /\ Init
  /\ finished = {}
  /\ ended = [s \in Ids |-> 0]
  /\ runners = [s \in Ids |-> 0]
  /\ playlistEvents = [u \in Universe |-> 0]
  /\ crossed = {}
  /\ relayed = {} /\ unstopped = {} /\ switched = {}
  /\ loading = {}
  /\ streaming = {}
  /\ idleEnabled = Creature
  /\ activity = [c \in Creature |-> [session |-> 0, generation |-> 0]]
  /\ workload \in Workloads /\ requests = 0
  /\ thread = [t \in Thread |-> Ready]

-----------------------------------------------------------------------------
(* scheduleAnimation, a subroutine of every thread.                        *)

\* Where a caller goes with the outcome of scheduleAnimation.
Returned(r, outcome) ==
  CASE r.ret = "ready"     -> Ready
    [] r.ret = "idle"      -> [Ready EXCEPT !.pc = "idle", !.universe = r.universe,
                                            !.before = r.before, !.idles = r.idles]
    [] r.ret = "onFinish"  -> [Ready EXCEPT !.pc = "after", !.universe = r.universe, !.session = r.before]
    [] r.ret = "interrupt" -> IF outcome = "ok" THEN Ready
                              ELSE [Ready EXCEPT !.pc = "undo", !.universe = r.universe]
    [] r.ret = "playlist"  -> [r EXCEPT !.pc = CASE outcome = "ok"       -> "backstop"
                                                 [] outcome = "Conflict" -> "retry"
                                                 [] outcome = "Error"    -> "clearPlaylist",
                                  !.session = 0]
    [] r.ret = "load"      -> [Ready EXCEPT !.pc = "idle", !.universe = r.universe,
                                            !.idles = Creatures(r.session)]

\* The streaming guard refuses the whole animation when one creature streams.
Streamed(t) == \E c \in Drives[thread[t].animation] \cap Creature : IsStreaming(c)

ScheduleConflict(t) ==
  /\ At(t, "schedule")
  /\ thread[t].animation \notin Mistimed
  /\ Streamed(t)
  /\ Goto(t, Returned(thread[t], "Conflict"))
  /\ UNCHANGED <<smVars, eventVars, endVars, creatureVars, bound>>

\* No slot in the audio loader: a conflict when it is full, an error when it
\* shuts down.
ScheduleNoSlot(t) ==
  /\ At(t, "schedule")
  /\ thread[t].animation \in Sound \ Mistimed
  /\ ~Streamed(t)
  /\ \E outcome \in {"Conflict", "Error"} : Goto(t, Returned(thread[t], outcome))
  /\ UNCHANGED <<smVars, eventVars, endVars, creatureVars, bound>>

\* The timing is checked before anything else.  Of frames that do not decode
\* the session would be born cancelled; it is never registered.
ScheduleBroken(t) ==
  /\ At(t, "schedule")
  /\ thread[t].animation \in Broken
  /\ Streamed(t) => thread[t].animation \in Mistimed
  /\ Goto(t, Returned(thread[t], "Error"))
  /\ UNCHANGED <<smVars, eventVars, endVars, creatureVars, bound>>

ScheduleAdmitted(t) ==
  /\ At(t, "schedule")
  /\ thread[t].animation \notin Broken
  /\ ~Streamed(t)
  /\ Jump(t, "register")
  /\ UNCHANGED <<smVars, eventVars, endVars, creatureVars, bound>>

\* registerSession adopts the universe; the victims are notified next.
ScheduleRegister(t) ==
  LET r == thread[t]
  IN  /\ At(t, "register")
      /\ RegisterSession(r.universe, r.animation, r.reason, r.entire)
      /\ Goto(t, [r EXCEPT !.session = Len(sessions) + 1, !.pc = "running",
                           !.victims = Adopted(r.universe, r.animation, r.entire)])
      /\ UNCHANGED <<eventVars, endVars, creatureVars, bound>>

\* notifyCancelledSession for the next victim, wherever a method cancelled
\* some: the stopped broadcast, then the immediate teardown runner.
NotifyVictim(t) ==
  LET s == Smallest(thread[t].victims)
  IN  /\ thread[t].victims # {}
      /\ SessionActivity(s, FALSE)
      /\ PushRunner(s)
      /\ thread' = [thread EXCEPT ![t].victims = @ \ {s}]
      /\ UNCHANGED <<smVars, chainVars, loading, endVars, streaming, idleEnabled, bound>>

\* A thread leaves a program counter only once its victims are notified.
Notified(t, pc) == At(t, pc) /\ thread[t].victims = {}

\* No session that drives creature c came after s.
NewestOn(c, s) == \A r \in Session : c \in sessions[r].drives => r <= s

ScheduleRunning(t) ==
  LET s == thread[t].session
  IN  /\ Notified(t, "running")
      /\ SessionActivity(s, TRUE)
      /\ Jump(t, IF thread[t].animation \in Sound THEN "submit" ELSE "start")
      /\ unstopped' = IF Cancelled(s) /\ \E c \in Creatures(s) : NewestOn(c, s)
                      THEN unstopped \cup {s} ELSE unstopped
      /\ UNCHANGED <<smVars, runners, playlistEvents, crossed, relayed, switched, loading, endVars,
                     streaming, idleEnabled, bound>>

\* The initial runner of a session without asynchronous audio.
ScheduleStart(t) ==
  /\ At(t, "start")
  /\ PushRunner(thread[t].session)
  /\ Goto(t, Returned(thread[t], "ok"))
  /\ UNCHANGED <<smVars, chainVars, loading, endVars, creatureVars, bound>>

ScheduleSubmit(t) ==
  /\ At(t, "submit")
  /\ loading' = loading \cup {thread[t].session}
  /\ Goto(t, Returned(thread[t], "ok"))
  /\ UNCHANGED <<smVars, runners, chainVars, endVars, creatureVars, bound>>

\* The loader shut down between the reservation and the submission.
ScheduleSubmitRejected(t) ==
  /\ At(t, "submit")
  /\ Jump(t, "unwind")
  /\ UNCHANGED <<smVars, eventVars, endVars, creatureVars, bound>>

-----------------------------------------------------------------------------
(* The asynchronous load, and the unwinding of a session no runner will    *)
(* ever end.                                                               *)

\* A worker takes a job; a session cancelled while queued is crossed, for its
\* canceller has already scheduled the teardown.
LoaderTake(t) ==
  /\ At(t, "ready")
  /\ \E s \in loading :
       /\ loading' = loading \ {s}
       /\ IF Cancelled(s) THEN UNCHANGED thread
          ELSE Goto(t, [Ready EXCEPT !.pc = "load", !.session = s, !.ret = "load",
                                     !.universe = sessions[s].universe])
  /\ UNCHANGED <<smVars, runners, chainVars, endVars, creatureVars, bound>>

\* The buffer is ready and the RTP output acquired: last look at the flag.
LoaderLoaded(t) ==
  /\ At(t, "load")
  /\ IF Cancelled(thread[t].session) THEN Goto(t, Ready) ELSE Jump(t, "publish")
  /\ UNCHANGED <<smVars, eventVars, endVars, creatureVars, bound>>

LoaderPublish(t) ==
  /\ At(t, "publish")
  /\ PushRunner(thread[t].session)
  /\ Goto(t, Ready)
  /\ UNCHANGED <<smVars, chainVars, loading, endVars, creatureVars, bound>>

\* Unreadable sound file, no RTP server, or an executor that is stopping.
LoaderFail(t) ==
  /\ thread[t].pc \in {"load", "publish"}
  /\ Jump(t, "unwind")
  /\ UNCHANGED <<smVars, eventVars, endVars, creatureVars, bound>>

\* unwindAdoptedAudioSession: cancel without a notification ...
Unwind(t) ==
  /\ At(t, "unwind")
  /\ CancelQuietly(thread[t].session)
  /\ Jump(t, "abort")
  /\ UNCHANGED <<eventVars, endVars, creatureVars, bound>>

\* ... tear down if the universe still lists the session ...
UnwindAbort(t) ==
  LET s == thread[t].session
  IN  /\ At(t, "abort")
      /\ AbortLoadingSession(thread[t].universe, s)
      /\ ended' = [ended EXCEPT ![s] = @ + 1]
      /\ Jump(t, "unwound")
      /\ UNCHANGED <<eventVars, finished, creatureVars, bound>>

\* ... and otherwise leave everything to the adoption that replaced it.
UnwindReplaced(t) ==
  LET r == thread[t]
  IN  /\ At(t, "abort")
      /\ r.session \notin active[r.universe]
      /\ Goto(t, IF r.ret = "load" THEN Ready ELSE Returned(r, "Error"))
      /\ UNCHANGED <<smVars, eventVars, endVars, creatureVars, bound>>

\* The stopped broadcast; only a failed load restarts idle playback.
Unwound(t) ==
  /\ At(t, "unwound")
  /\ SessionActivity(thread[t].session, FALSE)
  /\ Goto(t, Returned(thread[t], "Error"))
  /\ UNCHANGED <<smVars, eventVars, endVars, streaming, idleEnabled, bound>>

-----------------------------------------------------------------------------
(* startIdleIfNeeded for one creature after the other.                     *)

NeedsIdle(u, c) ==
  /\ c \in idleEnabled \cap DOMAIN IdleAnimation
  /\ ~IsStreaming(c)
  /\ ~HasActiveSessionForCreature(u, c)

\* After a cancelled session its own universe is asked first.
Occupied(r, c) ==
  r.before # 0 /\ HasActiveSessionForCreature(sessions[r.before].universe, c)

StartIdle(t) ==
  LET r == thread[t]
  IN  /\ At(t, "idle")
      /\ \E c \in r.idles :
           LET rest == [r EXCEPT !.idles = @ \ {c}]
           IN  Goto(t, IF NeedsIdle(Home[c], c) /\ ~Occupied(r, c)
                       THEN [rest EXCEPT !.pc = "schedule", !.universe = Home[c], !.ret = "idle",
                                         !.animation = IdleAnimation[c], !.reason = "Idle"]
                       ELSE rest)
      /\ UNCHANGED <<smVars, eventVars, endVars, creatureVars, bound>>

IdleDone(t) ==
  /\ At(t, "idle")
  /\ thread[t].idles = {}
  /\ Goto(t, Ready)
  /\ UNCHANGED <<smVars, eventVars, endVars, creatureVars, bound>>

-----------------------------------------------------------------------------
(* PlaybackRunnerEvent.  The loop takes a runner event of session s.       *)

TakeRunner(s) ==
  /\ At(Loop, "ready")
  /\ runners[s] > 0
  /\ runners' = [runners EXCEPT ![s] = @ - 1]

\* markFinished, and the teardown that only its first caller performs.
Claim(s) ==
  /\ finished' = finished \cup {s}
  /\ ended' = [ended EXCEPT ![s] = @ + 1]

InRunner(s, pc) == [Ready EXCEPT !.pc = pc, !.session = s, !.universe = sessions[s].universe]

RunnerLate(s) ==
  /\ TakeRunner(s)
  /\ s \in finished
  /\ UNCHANGED <<smVars, chainVars, loading, endVars, creatureVars, bound, thread>>

\* Mutant: every runner that sees the cancellation tears the session down.
RunnerCancelledUnclaimed(s) ==
  /\ TakeRunner(s)
  /\ Cancelled(s)
  /\ Claim(s)
  /\ Goto(Loop, InRunner(s, "clearCancelled"))
  /\ UNCHANGED <<smVars, chainVars, loading, creatureVars, bound>>

RunnerCancelled(s) ==
  /\ TakeRunner(s)
  /\ Cancelled(s)
  /\ s \notin finished
  /\ Claim(s)
  /\ Goto(Loop, InRunner(s, "clearCancelled"))
  /\ UNCHANGED <<smVars, chainVars, loading, creatureVars, bound>>

\* The last frame of motion and audio was reached.
RunnerFinished(s) ==
  /\ TakeRunner(s)
  /\ ~Cancelled(s)
  /\ s \notin finished
  /\ Claim(s)
  /\ Goto(Loop, InRunner(s, "onFinish"))
  /\ UNCHANGED <<smVars, chainVars, loading, creatureVars, bound>>

\* Frames could not be sent, or the audio output failed for good: the runner
\* cancels its own session and completes it like a cancelled one (issue #79).
RunnerFailed(s) ==
  /\ workload.outputFails
  /\ TakeRunner(s)
  /\ ~Cancelled(s)
  /\ s \notin finished
  /\ CancelDirect(s)
  /\ Claim(s)
  /\ Goto(Loop, InRunner(s, "clearCancelled"))
  /\ UNCHANGED <<chainVars, loading, creatureVars, bound>>

\* onFinish of a cancelled session.
ClearCancelled ==
  LET r == thread[Loop]
  IN  /\ At(Loop, "clearCancelled")
      /\ ClearSession(r.universe, r.session)
      /\ Jump(Loop, "cancelledDone")
      /\ UNCHANGED <<eventVars, endVars, creatureVars, bound>>

\* The stopped broadcast the canceller did not make, then idle playback.
CancelledDone ==
  LET s == thread[Loop].session
  IN  /\ At(Loop, "cancelledDone")
      /\ IF sessions[s].notified THEN UNCHANGED activity ELSE SessionActivity(s, FALSE)
      /\ Goto(Loop, [Ready EXCEPT !.pc = "idle", !.before = s, !.idles = Creatures(s)])
      /\ UNCHANGED <<smVars, eventVars, endVars, streaming, idleEnabled, bound>>

-----------------------------------------------------------------------------
(* onFinish of a session that ended by itself.                             *)

OnFinish ==
  /\ At(Loop, "onFinish")
  /\ Jump(Loop, IF Cancelled(thread[Loop].session) THEN "finishCancelled" ELSE "clear")
  /\ UNCHANGED <<smVars, eventVars, endVars, creatureVars, bound>>

FinishCancelled ==
  LET r == thread[Loop]
  IN  /\ At(Loop, "finishCancelled")
      /\ ClearSession(r.universe, r.session)
      /\ Jump(Loop, "after")
      /\ UNCHANGED <<eventVars, endVars, creatureVars, bound>>

FinishClear ==
  LET r == thread[Loop]
  IN  /\ At(Loop, "clear")
      /\ ClearSession(r.universe, r.session)
      /\ Jump(Loop, "queue")
      /\ UNCHANGED <<eventVars, endVars, creatureVars, bound>>

\* Chained speech goes first; playlists wait until the queue is empty.
FinishQueued ==
  LET r == thread[Loop]
  IN  /\ At(Loop, "queue")
      /\ PopQueuedAnimation(r.universe)
      /\ Goto(Loop, [r EXCEPT !.pc = "schedule", !.animation = Head(queue[r.universe]),
                              !.reason = "AdHoc", !.before = r.session, !.session = 0,
                              !.ret = "onFinish"])
      /\ crossed' = IF sessions[r.session].reason = "Playlist" THEN crossed \cup {r.universe}
                    ELSE crossed
      /\ relayed' = relayed \cup {r.session}
      /\ UNCHANGED <<runners, playlistEvents, unstopped, switched, loading, endVars, creatureVars, bound>>

FinishNothingQueued ==
  LET u == thread[Loop].universe
  IN  /\ At(Loop, "queue")
      /\ queue[u] = <<>>
      /\ Jump(Loop, "interrupted?")
      /\ UNCHANGED <<smVars, eventVars, endVars, creatureVars, bound>>

FinishInterrupted ==
  /\ At(Loop, "interrupted?")
  /\ Jump(Loop, IF playlistState[thread[Loop].universe] = "Interrupted"
                THEN "consume" ELSE "chain")
  /\ UNCHANGED <<smVars, eventVars, endVars, creatureVars, bound>>

FinishConsume ==
  LET u == thread[Loop].universe
  IN  /\ At(Loop, "consume")
      /\ \/ ConsumeResume(u) /\ Jump(Loop, "resumed")
         \/ ConsumeDecline(u) /\ Jump(Loop, "after")
         \/ playlistState[u] # "Interrupted" /\ Jump(Loop, "after") /\ UNCHANGED smVars
      /\ UNCHANGED <<eventVars, endVars, creatureVars, bound>>

FinishResumed ==
  LET u == thread[Loop].universe
  IN  /\ At(Loop, "resumed")
      /\ IF playlistStatus[u] = NoStatus THEN UNCHANGED chainVars ELSE PushPlaylistEvent(u)
      /\ Jump(Loop, "after")
      /\ UNCHANGED <<smVars, runners, loading, endVars, creatureVars, bound>>

\* Mutant: only the event at the estimated end carries the playlist on.
FinishChainLeftToBackstop ==
  /\ At(Loop, "chain")
  /\ Jump(Loop, "after")
  /\ UNCHANGED <<smVars, eventVars, endVars, creatureVars, bound>>

\* The next link of the playlist, from the actual end of the last one.
FinishChain ==
  LET r == thread[Loop]
  IN  /\ At(Loop, "chain")
      /\ IF sessions[r.session].reason = "Playlist" /\ playlistState[r.universe] = "Active"
         THEN PushPlaylistEvent(r.universe) ELSE UNCHANGED chainVars
      /\ Jump(Loop, "after")
      /\ UNCHANGED <<smVars, runners, loading, endVars, creatureVars, bound>>

\* Back in the runner: unless a new performance has started for a creature of
\* the session, all of them go idle.
RunnerAfter ==
  LET r    == thread[Loop]
      busy == {c \in Creatures(r.session) : HasActiveNonIdleSessionForCreature(r.universe, c)}
  IN  /\ At(Loop, "after")
      /\ IF busy # {} THEN Goto(Loop, Ready) ELSE Jump(Loop, "toIdle")
      /\ unstopped' = IF busy \in {{}, Creatures(r.session)} THEN unstopped
                      ELSE unstopped \cup {r.session}
      /\ UNCHANGED <<smVars, runners, playlistEvents, crossed, relayed, switched, loading, endVars,
                     creatureVars, bound>>

RunnerToIdle ==
  LET s == thread[Loop].session
  IN  /\ At(Loop, "toIdle")
      /\ SessionActivity(s, FALSE)
      /\ Goto(Loop, IF sessions[s].reason = "Playlist" THEN Ready
                    ELSE [Ready EXCEPT !.pc = "idle", !.idles = Creatures(s)])
      /\ UNCHANGED <<smVars, eventVars, endVars, streaming, idleEnabled, bound>>

-----------------------------------------------------------------------------
(* PlaylistEvent.                                                          *)

TakePlaylistEvent(u) ==
  /\ At(Loop, "ready")
  /\ playlistEvents[u] > 0
  /\ playlistEvents' = [playlistEvents EXCEPT ![u] = @ - 1]
  /\ Goto(Loop, CASE playlistState[u] \in {"None", "Stopped"} ->
                       [Ready EXCEPT !.pc = "clearPlaylist", !.universe = u]
                  [] playlistState[u] = "Interrupted" -> Ready
                  [] playlistState[u] = "Active" -> [Ready EXCEPT !.pc = "busy?", !.universe = u])
  /\ UNCHANGED <<smVars, crossed, pastVars, runners, loading, endVars, creatureVars, bound>>

\* The event dies while any performance is on; its finish chains the next one.
PlaylistBusy ==
  /\ At(Loop, "busy?")
  /\ LET u == thread[Loop].universe
     IN  /\ Goto(Loop, IF HasActiveNonIdleSession(u) THEN Ready
                       ELSE [thread[Loop] EXCEPT !.pc = "choose"])
         /\ crossed' = IF \E s \in Live(u) : sessions[s].reason \notin {"Playlist", "Idle"}
                       THEN crossed \cup {u} ELSE crossed
  /\ UNCHANGED <<smVars, runners, playlistEvents, pastVars, loading, endVars, creatureVars, bound>>

\* The snapshot read here is written back after the scheduling.
PlaylistChoose ==
  LET r == thread[Loop]
      status == playlistStatus[r.universe]
  IN  /\ At(Loop, "choose")
      /\ status # NoStatus
      /\ \E a \in Items[status.playlist] :
           Goto(Loop, [r EXCEPT !.pc = "schedule", !.animation = a, !.reason = "Playlist",
                                !.ret = "playlist", !.status = status])
      /\ UNCHANGED <<smVars, eventVars, endVars, creatureVars, bound>>

\* No snapshot, or the playlist or its animation cannot be read.
PlaylistUnreadable ==
  /\ At(Loop, "choose")
  /\ Jump(Loop, "clearPlaylist")
  /\ UNCHANGED <<smVars, eventVars, endVars, creatureVars, bound>>

\* A conflict is transient, the event is scheduled again for later; so is the
\* first one at the end of a start request.
PlaylistRetry(t) ==
  /\ At(t, "retry")
  /\ PushPlaylistEvent(thread[t].universe)
  /\ Goto(t, Ready)
  /\ UNCHANGED <<smVars, runners, loading, endVars, creatureVars, bound>>

\* The event at the estimated end of the animation.
PlaylistBackstop ==
  /\ At(Loop, "backstop")
  /\ PushPlaylistEvent(thread[Loop].universe)
  /\ Jump(Loop, "status")
  /\ UNCHANGED <<smVars, runners, loading, endVars, creatureVars, bound>>

PlaylistUpdateStatus ==
  LET r == thread[Loop]
  IN  /\ At(Loop, "status")
      /\ SetPlaylistStatus(r.universe, r.status)
      /\ Goto(Loop, [Ready EXCEPT !.pc = "idle", !.universe = r.universe,
                       !.idles = {c \in Creature : Home[c] = r.universe} \ Drives[r.animation]])
      /\ UNCHANGED <<eventVars, endVars, creatureVars, bound>>

\* clearPlaylist, on the loop or at the end of a stop request.
PlaylistClear(t) ==
  /\ Notified(t, "clearPlaylist")
  /\ ClearPlaylist(thread[t].universe)
  /\ Goto(t, Ready)
  /\ UNCHANGED <<eventVars, endVars, creatureVars, bound>>

-----------------------------------------------------------------------------
(* Requests.  An animation plays on the home universe of its creatures.    *)

Arrives(t, kind) ==
  /\ At(t, "ready")
  /\ kind \in workload.kinds
  /\ requests < MaxRequests
  /\ requests' = requests + 1
  /\ UNCHANGED workload

PlaysAt(a, u) == \A c \in Drives[a] \cap Creature : Home[c] = u

ToSchedule(u, a, reason, entire, ret) ==
  [Ready EXCEPT !.pc = "schedule", !.universe = u, !.animation = a, !.reason = reason,
                !.entire = entire, !.ret = ret]

RequestPlay(t, u, a) ==
  /\ Arrives(t, "play")
  /\ PlaysAt(a, u)
  /\ Goto(t, ToSchedule(u, a, "Play", FALSE, "ready"))
  /\ UNCHANGED <<smVars, eventVars, endVars, creatureVars>>

\* interrupt: the mark comes before the scheduling that may fail.
RequestInterrupt(t, u, a, resume) ==
  /\ Arrives(t, "interrupt")
  /\ PlaysAt(a, u)
  /\ \/ /\ InterruptMark(u, resume)
        /\ Goto(t, ToSchedule(u, a, "AdHoc", TRUE, "interrupt"))
     \/ /\ playlistState[u] # "Active"
        /\ Goto(t, ToSchedule(u, a, "AdHoc", TRUE, "ready"))
        /\ UNCHANGED smVars
  /\ UNCHANGED <<eventVars, endVars, creatureVars>>

\* Mutant: the rollback does not look at what became of the mark.
InterruptFailedBlindly(t) ==
  LET u == thread[t].universe
  IN  /\ At(t, "undo")
      /\ playlistState' = [playlistState EXCEPT ![u] = "Active"]
      /\ shouldResume' = [shouldResume EXCEPT ![u] = FALSE]
      /\ Goto(t, Ready)
      /\ UNCHANGED <<sessions, active, playlistStatus, queue>>
      /\ crossed' = crossed \cup {u}
      /\ UNCHANGED <<runners, playlistEvents, pastVars, loading, endVars, creatureVars, bound>>

InterruptFailed(t) ==
  LET u == thread[t].universe
  IN  /\ At(t, "undo")
      /\ \/ InterruptUndo(u) /\ crossed' = crossed \cup {u}
         \/ playlistState[u] # "Interrupted" /\ UNCHANGED <<smVars, crossed>>
      /\ Goto(t, Ready)
      /\ UNCHANGED <<runners, playlistEvents, pastVars, loading, endVars, creatureVars, bound>>

\* interruptIdleOnly: refused while a target performs.
RequestInterruptIdle(t, u, a) ==
  /\ Arrives(t, "idleOnly")
  /\ PlaysAt(a, u)
  /\ \A c \in Drives[a] \cap Creature : ~HasActiveNonIdleSessionForCreature(u, c)
  /\ Goto(t, ToSchedule(u, a, "AdHoc", FALSE, "ready"))
  /\ UNCHANGED <<smVars, eventVars, endVars, creatureVars>>

RequestQueue(t, u, a) ==
  /\ Arrives(t, "queue")
  /\ PlaysAt(a, u)
  /\ QueueAnimation(u, a)
  /\ UNCHANGED <<eventVars, endVars, creatureVars, thread>>

\* PlaylistService::startPlaylist: cancel the newest session, if any ...
RequestStart(t, u, p) ==
  LET start == [Ready EXCEPT !.pc = "start playlist", !.universe = u,
                             !.status = [playlist |-> p, playing |-> TRUE]]
  IN  /\ Arrives(t, "start")
      /\ \/ Live(u) = {} /\ Goto(t, start)
         \/ \E s \in Live(u) : /\ CurrentSession(u, s)
                              /\ Goto(t, [start EXCEPT !.pc = "cancel", !.session = s])
      /\ UNCHANGED <<smVars, eventVars, endVars, creatureVars>>

StartCancels(t) ==
  /\ At(t, "cancel")
  /\ CancelDirect(thread[t].session)
  /\ thread' = [thread EXCEPT ![t].pc = "start playlist", ![t].session = 0]
  /\ UNCHANGED <<eventVars, endVars, creatureVars, bound>>

\* ... register the playlist, store its snapshot and schedule its first event.
StartStarts(t) ==
  LET r == thread[t]
  IN  /\ At(t, "start playlist")
      /\ StartPlaylist(r.universe, r.status.playlist)
      /\ Jump(t, "start status")
      /\ UNCHANGED <<eventVars, endVars, creatureVars, bound>>

StartStatus(t) ==
  LET r == thread[t]
  IN  /\ At(t, "start status")
      /\ SetPlaylistStatus(r.universe, r.status)
      /\ Jump(t, "retry")
      /\ UNCHANGED <<eventVars, endVars, creatureVars, bound>>

\* stopPlaylist of the registry; "next" is where its caller goes on.
Stop(t, u, next) ==
  /\ \/ /\ StopPlaylist(u)
        /\ Goto(t, [thread[t] EXCEPT !.pc = next, !.universe = u, !.victims = PlaylistSessions(u)])
     \/ /\ playlistState[u] \notin {"Active", "Interrupted"}
        /\ Goto(t, [thread[t] EXCEPT !.pc = next, !.universe = u])
        /\ UNCHANGED smVars
  /\ UNCHANGED <<eventVars, endVars, creatureVars>>

RequestStop(t, u) == Arrives(t, "stop") /\ Stop(t, u, "clearPlaylist")

\* StreamFrameHandler::stream: a frame takes its creature over.
RequestStream(t, c) ==
  LET u == Home[c]
  IN  /\ Arrives(t, "stream")
      /\ CancelSessionsForCreature(u, c)
      /\ Goto(t, [Ready EXCEPT !.pc = "stream", !.universe = u, !.idles = {c},
                               !.victims = SessionsForCreature(u, c)])
      /\ switched' = switched \cup {c}
      /\ UNCHANGED <<runners, playlistEvents, crossed, relayed, unstopped, loading, endVars, creatureVars>>

StreamStopsPlaylist(t) ==
  /\ Notified(t, "stream")
  /\ Stop(t, thread[t].universe, "mark")
  /\ UNCHANGED bound

StreamMarks(t) ==
  LET cs == thread[t].idles
  IN  /\ Notified(t, "mark")
      /\ streaming' = streaming \cup cs
      /\ IF cs \subseteq streaming THEN Goto(t, Ready) ELSE Jump(t, "announce")
      /\ UNCHANGED <<smVars, eventVars, endVars, idleEnabled, activity, bound>>

StreamAnnounces(t) ==
  /\ At(t, "announce")
  /\ SetActivity(thread[t].idles, StreamId, 0, TRUE)
  /\ Goto(t, Ready)
  /\ UNCHANGED <<smVars, eventVars, endVars, streaming, idleEnabled, bound>>

\* StreamingTimeoutEvent once the frames have stopped.
StreamExpires(c) ==
  /\ At(Loop, "ready")
  /\ c \in streaming
  /\ streaming' = streaming \ {c}
  /\ Goto(Loop, [Ready EXCEPT !.pc = "expired", !.idles = {c}])
  /\ UNCHANGED <<smVars, eventVars, endVars, idleEnabled, activity, bound>>

StreamStopped ==
  /\ At(Loop, "expired")
  /\ SetActivity(thread[Loop].idles, 0, 0, FALSE)
  /\ Jump(Loop, "idle")
  /\ UNCHANGED <<smVars, eventVars, endVars, streaming, idleEnabled, bound>>

\* setIdleEnabled: the flag first, so a cancellation will not restart idle.
RequestSetIdle(t, c, enabled) ==
  /\ Arrives(t, "setIdle")
  /\ idleEnabled' = IF enabled THEN idleEnabled \cup {c} ELSE idleEnabled \ {c}
  /\ Goto(t, [Ready EXCEPT !.pc = IF enabled THEN "idle on" ELSE "cancel idle",
                           !.universe = Home[c], !.idles = {c}])
  /\ switched' = switched \cup {c}
  /\ UNCHANGED <<smVars, runners, playlistEvents, crossed, relayed, unstopped, loading, endVars,
                 streaming, activity>>

SetIdleCancels(t) ==
  LET r == thread[t]
  IN  /\ At(t, "cancel idle")
      /\ \E c \in r.idles :
           /\ CancelIdleSessionForCreature(r.universe, c)
           /\ Goto(t, [r EXCEPT !.pc = "idle off",
                                !.victims = IdleSessionsForCreature(r.universe, c)])
      /\ UNCHANGED <<eventVars, endVars, creatureVars, bound>>

\* The activity is overwritten without either guard, whatever it was.
SetIdleState(t) ==
  LET cs == thread[t].idles
  IN  /\ Notified(t, "idle on") \/ Notified(t, "idle off")
      /\ activity' = [c \in Creature |-> IF c \in cs THEN [activity[c] EXCEPT !.session = 0]
                                         ELSE activity[c]]
      /\ Goto(t, IF At(t, "idle on") THEN [Ready EXCEPT !.pc = "idle", !.idles = cs] ELSE Ready)
      /\ UNCHANGED <<smVars, eventVars, endVars, streaming, idleEnabled, bound>>

-----------------------------------------------------------------------------
ScheduleStep(t) ==
  \/ ScheduleConflict(t) \/ ScheduleNoSlot(t) \/ ScheduleBroken(t) \/ ScheduleAdmitted(t)
  \/ ScheduleRegister(t) \/ NotifyVictim(t) \/ ScheduleRunning(t)
  \/ ScheduleStart(t) \/ ScheduleSubmit(t) \/ ScheduleSubmitRejected(t)
  \/ Unwind(t) \/ UnwindAbort(t) \/ UnwindReplaced(t) \/ Unwound(t)
  \/ StartIdle(t) \/ IdleDone(t)
  \/ PlaylistClear(t) \/ PlaylistRetry(t)

LoaderStep(t) == LoaderTake(t) \/ LoaderLoaded(t) \/ LoaderPublish(t) \/ LoaderFail(t)

RunnerStep(s) ==
  RunnerLate(s) \/ RunnerCancelled(s) \/ RunnerFinished(s) \/ RunnerFailed(s)

LoopStep ==
  \/ \E s \in Session : RunnerStep(s)
  \/ ClearCancelled \/ CancelledDone
  \/ OnFinish \/ FinishCancelled \/ FinishClear \/ FinishQueued \/ FinishNothingQueued
  \/ FinishInterrupted \/ FinishConsume \/ FinishResumed \/ FinishChain
  \/ RunnerAfter \/ RunnerToIdle
  \/ \E u \in Universe : TakePlaylistEvent(u)
  \/ PlaylistBusy \/ PlaylistChoose \/ PlaylistUnreadable
  \/ PlaylistBackstop \/ PlaylistUpdateStatus
  \/ \E c \in Creature : StreamExpires(c)
  \/ StreamStopped

RequestStep(t) ==
  \/ \E u \in Universe, a \in workload.animations :
       \/ RequestPlay(t, u, a)
       \/ \E resume \in BOOLEAN : RequestInterrupt(t, u, a, resume)
       \/ RequestInterruptIdle(t, u, a)
       \/ RequestQueue(t, u, a)
  \/ \E u \in Universe, p \in Playlist : RequestStart(t, u, p)
  \/ \E u \in Universe : RequestStop(t, u)
  \/ \E c \in Creature : RequestStream(t, c)
  \/ \E c \in Creature, enabled \in BOOLEAN : RequestSetIdle(t, c, enabled)
  \/ InterruptFailed(t)
  \/ StartCancels(t) \/ StartStarts(t) \/ StartStatus(t)
  \/ StreamStopsPlaylist(t) \/ StreamMarks(t) \/ StreamAnnounces(t)
  \/ SetIdleCancels(t) \/ SetIdleState(t)

PlaybackNext ==
  \/ \E t \in Thread : ScheduleStep(t)
  \/ \E t \in Loader : LoaderStep(t)
  \/ \E t \in Rest : RequestStep(t)
  \/ LoopStep

PlaybackSpec == PlaybackInit /\ [][PlaybackNext]_playbackVars

-----------------------------------------------------------------------------
(* Completion is claimed exactly once (issue #85): however many runners,   *)
(* cancellers and loader failures meet on a session, its audio is stopped  *)
(* and its onFinish logic runs at most once.                               *)
TornDownOnce == \A s \in Ids : ended[s] <= 1

Working == {"running", "start", "submit", "load", "publish", "unwind", "abort"}

(* A session not yet torn down is in someone's hands: a pending runner     *)
(* event, a job in the loader, a thread that works on it, or a thread      *)
(* about to notify it.  A session nobody holds stays registered forever,   *)
(* idle never restarts and playlists stall (issue #79).  Not so where      *)
(* playlists are started: a start cancels a session past the registry.     *)
NoSessionForgotten ==
  "start" \in workload.kinds \/
    \A s \in Session :
      \/ ended[s] > 0
      \/ runners[s] > 0
      \/ s \in loading
      \/ \E t \in Thread : \/ thread[t].session = s /\ thread[t].pc \in Working
                           \/ s \in thread[t].victims

(* Safety: every session ends once, and is in somebody's hands until then. *)
SessionsEndOnce == TornDownOnce /\ NoSessionForgotten

\* Nothing is under way: what remains are the events of playing sessions.
Settled ==
  /\ \A t \in Thread : At(t, "ready")
  /\ \A s \in Session : runners[s] > 0 => ~Cancelled(s) /\ s \notin finished

\* All sessions of a creature so far were on its own universe; a playlist may
\* be started on another one.
StaysHome(c) == \A s \in Session : c \in sessions[s].drives => sessions[s].universe = Home[c]

\* Cancelled past the registry before any runner of it ran.
CancelledUnseen(s) == Cancelled(s) /\ ~sessions[s].notified /\ s \notin finished

(* Once everything under way has been dealt with, a creature that a session *)
(* drives is said to run that one: no late stop of a dying session, and no  *)
(* delayed running broadcast of an older one, sticks (issues #62, #81,      *)
(* #87).  One that no session drives is not said to run, but for what may   *)
(* stick: a running broadcast that came after the session's cancellation,   *)
(* when no later session has one to come; the rest of a performance that    *)
(* finished while another one had taken one of its creatures; and a session *)
(* a start cancelled while it was loading.                                  *)
(* Streams and the idle switch overwrite the activity without asking who    *)
(* owns it, so nothing is said of a creature they were used on.             *)
ActivityAgrees ==
  Settled =>
    \A c \in Creature \ switched :
      StaysHome(c) =>
        LET driving == {s \in Live(Home[c]) : c \in sessions[s].drives}
            said    == activity[c].session
        IN  /\ driving \subseteq {said}
            /\ said = 0 \/ said \in driving \cup unstopped \/ CancelledUnseen(said)

LastOfPlaylistCancelled(u) ==
  LET mine == {s \in Session : sessions[s].universe = u /\ sessions[s].reason = "Playlist"}
  IN  \E s \in mine : Cancelled(s) /\ \A r \in mine : r <= s

(* A playlist that is Active goes on: a session of it plays, or one of its *)
(* events is pending; nothing else would ever schedule the next animation. *)
(* The exceptions: since its last event was made, its event died before    *)
(* another's session, an interruption of it failed, queued speech took the *)
(* finish of its session, or another performance cancelled that session.   *)
NoStrandedPlaylist ==
  Settled =>
    \A u \in Universe :
      playlistState[u] = "Active" =>
        \/ playlistEvents[u] > 0
        \/ PlaylistSessions(u) # {}
        \/ u \in crossed
        \/ LastOfPlaylistCancelled(u)

LastSession(u, s) ==
  /\ sessions[s].universe = u
  /\ \A r \in Session : sessions[r].universe = u => r <= s

(* An interrupted playlist waits for a session whose end decides whether   *)
(* it resumes; without one it would stay paused for ever.  The exceptions: *)
(* the last session of the universe was cancelled without another in its   *)
(* place (a load or an output that failed, a creature taken over), or left *)
(* its finish to queued speech, which was then refused.                    *)
InterruptedAwaitsEnd ==
  Settled =>
    \A u \in Universe :
      playlistState[u] = "Interrupted" =>
        \/ Live(u) # {}
        \/ \E s \in Session : LastSession(u, s) /\ (Cancelled(s) \/ s \in relayed)

(* Safety: what late stops, delayed broadcasts and interruptions leave     *)
(* behind once they are dealt with is what the registry's sessions demand. *)
SettlesRight == ActivityAgrees /\ InterruptedAwaitsEnd

=============================================================================
