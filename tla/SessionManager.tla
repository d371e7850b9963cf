--------------------------- MODULE SessionManager ---------------------------
(***************************************************************************)
(* The registry of playback sessions and playlist states                   *)
(* (animation/SessionManager.cpp) together with the flags of a             *)
(* PlaybackSession that the registry reads and writes.                     *)
(*                                                                         *)
(* One action per public method that changes state; each is one critical   *)
(* section of SessionManager::mutex_, so the actions are atomic and the    *)
(* next-state relation lets any thread call any method at any time.  What  *)
(* callers do between two calls is the business of module Playback.        *)
(*                                                                         *)
(* A session is named by its activity generation: registerSession mints    *)
(* generations 1, 2, ... under the mutex, so session g is the g-th element *)
(* of "sessions".  The vector activeSessions is kept in registration       *)
(* order, that is in generation order, so it is modelled as a set.         *)
(***************************************************************************)
EXTENDS Naturals, Sequences, FiniteSets

CONSTANTS
  Universe,      \* universes (keys of universeStates_)
  Output,        \* creature ids and fixture ids, two disjoint kinds
  Animation,     \* animations that can be scheduled
  Drives,        \* Drives[a] = the ids animation a has tracks for
  Playlist,      \* playlist ids
  NoStatus,      \* the empty optional<PlaylistStatus>
  MaxSessions,   \* bound: sessions ever registered
  MaxQueue       \* bound: depth of a universe's animation queue

ASSUME SessionManagerAssumption ==
  /\ Drives \in [Animation -> SUBSET Output]
  /\ MaxSessions \in Nat
  /\ MaxQueue \in Nat
  /\ NoStatus \notin [playlist : Playlist, playing : BOOLEAN]

VARIABLES
  sessions,        \* every session ever registered
  active,          \* universe -> ids in activeSessions
  playlistState,   \* universe -> PlaylistState
  shouldResume,    \* universe -> shouldResumePlaylist
  playlistStatus,  \* universe -> status snapshot, or NoStatus
  queue            \* universe -> animationQueue

smVars == <<sessions, active, playlistState, shouldResume, playlistStatus, queue>>

-----------------------------------------------------------------------------
Reason == {"Play", "Playlist", "AdHoc", "Idle"}

PlaylistState == {"None", "Active", "Interrupted", "Stopped"}

\* The snapshot a broadcast carries; current_animation is left out.
Status == [playlist : Playlist, playing : BOOLEAN]

SessionRecord == [universe : Universe, reason : Reason, drives : SUBSET Output,
                  cancelled : BOOLEAN, notified : BOOLEAN]

Session == 1 .. Len(sessions)

Cancelled(s) == sessions[s].cancelled

\* The sessions a universe's "is anything active?" checks can see.
Live(u) == {s \in active[u] : ~Cancelled(s)}

\* sessionsConflict: two sessions contend when they share a creature or fixture.
Conflict(ids, s) == ids \cap sessions[s].drives # {}

\* getCurrentSession returns the newest live session; null when there is none.
CurrentSession(u, s) == \A r \in Live(u) : r <= s

HasActiveSessionForCreature(u, c) == \E s \in Live(u) : c \in sessions[s].drives

HasActiveNonIdleSession(u) == \E s \in Live(u) : sessions[s].reason # "Idle"

HasActiveNonIdleSessionForCreature(u, c) ==
  \E s \in Live(u) : sessions[s].reason # "Idle" /\ c \in sessions[s].drives

-----------------------------------------------------------------------------
Init ==
  /\ sessions = <<>>
  /\ active = [u \in Universe |-> {}]
  /\ playlistState = [u \in Universe |-> "None"]
  /\ shouldResume = [u \in Universe |-> FALSE]
  /\ playlistStatus = [u \in Universe |-> NoStatus]
  /\ queue = [u \in Universe |-> <<>>]

\* cancelSessionLocked on every session of a set: cancel and mark as notified.
CancelLocked(dead) ==
  [s \in Session |-> IF s \in dead
                     THEN [sessions[s] EXCEPT !.cancelled = TRUE, !.notified = TRUE]
                     ELSE sessions[s]]

\* Mutant: a session is replaced only when the new animation covers it.
AdoptedWhenCovered(u, a, entire) ==
  {s \in Live(u) : entire \/ sessions[s].drives \subseteq Drives[a]}

\* The live sessions an adoption of animation a cancels.
Adopted(u, a, entire) == {s \in Live(u) : entire \/ Conflict(Drives[a], s)}

\* registerSession, locked phase: mint the generation, cancel and drop the
\* conflicting live sessions, publish the new one.  Already cancelled sessions
\* stay in the list; playlist state and queue are preserved.
RegisterSession(u, a, reason, entire) ==
  LET dead == Adopted(u, a, entire)
      new  == [universe |-> u, reason |-> reason, drives |-> Drives[a],
               cancelled |-> FALSE, notified |-> FALSE]
  IN  /\ Len(sessions) < MaxSessions
      /\ sessions' = Append(CancelLocked(dead), new)
      /\ active' = [active EXCEPT ![u] = (@ \ dead) \cup {Len(sessions) + 1}]
      /\ UNCHANGED <<playlistState, shouldResume, playlistStatus, queue>>

\* Mutant: any playlist state other than None is interrupted (issue #64).
InterruptMarkUnlessNone(u, resume) ==
  /\ playlistState[u] # "None"
  /\ playlistState' = [playlistState EXCEPT ![u] = "Interrupted"]
  /\ shouldResume' = [shouldResume EXCEPT ![u] = resume]
  /\ UNCHANGED <<sessions, active, playlistStatus, queue>>

\* interrupt, first critical section: only an Active playlist is interrupted.
InterruptMark(u, resume) ==
  /\ playlistState[u] = "Active"
  /\ playlistState' = [playlistState EXCEPT ![u] = "Interrupted"]
  /\ shouldResume' = [shouldResume EXCEPT ![u] = resume]
  /\ UNCHANGED <<sessions, active, playlistStatus, queue>>

\* interrupt, failure path: undo the mark if it is still there.
InterruptUndo(u) ==
  /\ playlistState[u] = "Interrupted"
  /\ playlistState' = [playlistState EXCEPT ![u] = "Active"]
  /\ shouldResume' = [shouldResume EXCEPT ![u] = FALSE]
  /\ UNCHANGED <<sessions, active, playlistStatus, queue>>

SetPlaying(u, playing) ==
  playlistStatus' = [playlistStatus EXCEPT ![u] =
                       IF @ = NoStatus THEN @ ELSE [@ EXCEPT !.playing = playing]]

ResumePlaylist(u) ==
  /\ playlistState[u] = "Interrupted"
  /\ playlistState' = [playlistState EXCEPT ![u] = "Active"]
  /\ shouldResume' = [shouldResume EXCEPT ![u] = FALSE]
  /\ SetPlaying(u, TRUE)
  /\ UNCHANGED <<sessions, active, queue>>

\* consumeInterruptResumeDecision when it returns true ...
ConsumeResume(u) ==
  /\ shouldResume[u]
  /\ ResumePlaylist(u)

\* ... and when it declines: the playlist stops where it is.
ConsumeDecline(u) ==
  /\ playlistState[u] = "Interrupted"
  /\ ~shouldResume[u]
  /\ playlistState' = [playlistState EXCEPT ![u] = "Stopped"]
  /\ SetPlaying(u, FALSE)
  /\ UNCHANGED <<sessions, active, shouldResume, queue>>

\* Cancel a set of live sessions and drop them from the list.
CancelAndDrop(u, dead) ==
  /\ sessions' = CancelLocked(dead)
  /\ active' = [active EXCEPT ![u] = @ \ dead]

SessionsForCreature(u, c) == {s \in Live(u) : c \in sessions[s].drives}

CancelSessionsForCreature(u, c) ==
  /\ CancelAndDrop(u, SessionsForCreature(u, c))
  /\ UNCHANGED <<playlistState, shouldResume, playlistStatus, queue>>

IdleSessionsForCreature(u, c) ==
  {s \in SessionsForCreature(u, c) : sessions[s].reason = "Idle"}

CancelIdleSessionForCreature(u, c) ==
  /\ CancelAndDrop(u, IdleSessionsForCreature(u, c))
  /\ UNCHANGED <<playlistState, shouldResume, playlistStatus, queue>>

PlaylistSessions(u) == {s \in Live(u) : sessions[s].reason = "Playlist"}

\* Mutant: the resume choice of the pending interrupt is kept.
StopPlaylistKeepingResume(u) ==
  /\ playlistState[u] \in {"Active", "Interrupted"}
  /\ playlistState' = [playlistState EXCEPT ![u] = "Stopped"]
  /\ SetPlaying(u, FALSE)
  /\ CancelAndDrop(u, PlaylistSessions(u))
  /\ UNCHANGED <<shouldResume, queue>>

StopPlaylist(u) ==
  /\ playlistState[u] \in {"Active", "Interrupted"}
  /\ playlistState' = [playlistState EXCEPT ![u] = "Stopped"]
  /\ shouldResume' = [shouldResume EXCEPT ![u] = FALSE]
  /\ SetPlaying(u, FALSE)
  /\ CancelAndDrop(u, PlaylistSessions(u))
  /\ UNCHANGED queue

StartPlaylist(u, p) ==
  /\ playlistState' = [playlistState EXCEPT ![u] = "Active"]
  /\ shouldResume' = [shouldResume EXCEPT ![u] = FALSE]
  /\ playlistStatus' = [playlistStatus EXCEPT ![u] = [playlist |-> p, playing |-> TRUE]]
  /\ UNCHANGED <<sessions, active, queue>>

ClearSession(u, s) ==
  /\ active' = [active EXCEPT ![u] = @ \ {s}]
  /\ UNCHANGED <<sessions, playlistState, shouldResume, playlistStatus, queue>>

\* The playlist part shared by clearPlaylist and abortLoadingSession.
ForgetPlaylist(u) ==
  /\ playlistState' = [playlistState EXCEPT ![u] = "None"]
  /\ shouldResume' = [shouldResume EXCEPT ![u] = FALSE]
  /\ playlistStatus' = [playlistStatus EXCEPT ![u] = NoStatus]

\* A session that was a playlist's takes the playlist with it; a universe left
\* with no session and no playlist is dropped whole, its snapshot included.
AbortForgets(u, s) ==
  IF sessions[s].reason = "Playlist" \/ (active[u] \subseteq {s} /\ playlistState[u] = "None")
  THEN ForgetPlaylist(u)
  ELSE UNCHANGED <<playlistState, shouldResume, playlistStatus>>

\* Mutant: the universe is cleaned up without asking who owns it now.
AbortLoadingUnowned(u, s) ==
  /\ active' = [active EXCEPT ![u] = @ \ {s}]
  /\ queue' = [queue EXCEPT ![u] = <<>>]
  /\ AbortForgets(u, s)
  /\ UNCHANGED sessions

\* abortLoadingSession for a session the universe still lists; for any other
\* session it changes nothing.
AbortLoadingSession(u, s) ==
  /\ s \in active[u]
  /\ active' = [active EXCEPT ![u] = @ \ {s}]
  /\ queue' = [queue EXCEPT ![u] = <<>>]
  /\ AbortForgets(u, s)
  /\ UNCHANGED sessions

\* setPlaylistStatus: store the snapshot; promote None to Active when the
\* snapshot says it is playing.
SetPlaylistStatus(u, status) ==
  /\ playlistStatus' = [playlistStatus EXCEPT ![u] = status]
  /\ playlistState' = [playlistState EXCEPT ![u] =
                         IF @ = "None" /\ status.playing THEN "Active" ELSE @]
  /\ UNCHANGED <<sessions, active, shouldResume, queue>>

\* clearPlaylist; when no session is left the whole universe entry goes, and
\* the animation queue with it.
ClearPlaylist(u) ==
  /\ ForgetPlaylist(u)
  /\ queue' = [queue EXCEPT ![u] = IF active[u] = {} THEN <<>> ELSE @]
  /\ UNCHANGED <<sessions, active>>

QueueAnimation(u, a) ==
  /\ Len(queue[u]) < MaxQueue
  /\ queue' = [queue EXCEPT ![u] = Append(@, a)]
  /\ UNCHANGED <<sessions, active, playlistState, shouldResume, playlistStatus>>

PopQueuedAnimation(u) ==
  /\ queue[u] # <<>>
  /\ queue' = [queue EXCEPT ![u] = Tail(@)]
  /\ UNCHANGED <<sessions, active, playlistState, shouldResume, playlistStatus>>

ClearAnimationQueue(u) ==
  /\ queue' = [queue EXCEPT ![u] = <<>>]
  /\ UNCHANGED <<sessions, active, playlistState, shouldResume, playlistStatus>>

\* PlaybackSession::cancel called directly by the runner or PlaylistService,
\* which neither drops the session nor marks it as notified ...
CancelDirect(s) ==
  /\ sessions' = [sessions EXCEPT ![s].cancelled = TRUE]
  /\ UNCHANGED <<active, playlistState, shouldResume, playlistStatus, queue>>

\* ... and followed by markCancellationNotified when a failed load is unwound.
CancelQuietly(s) ==
  /\ sessions' = [sessions EXCEPT ![s].cancelled = TRUE, ![s].notified = TRUE]
  /\ UNCHANGED <<active, playlistState, shouldResume, playlistStatus, queue>>

-----------------------------------------------------------------------------
SessionStep(u) ==
  \/ \E a \in Animation, reason \in Reason, entire \in BOOLEAN :
       RegisterSession(u, a, reason, entire)
  \/ \E c \in Output : CancelSessionsForCreature(u, c)
  \/ \E c \in Output : CancelIdleSessionForCreature(u, c)
  \/ \E s \in Session : ClearSession(u, s)
  \/ \E s \in Session : AbortLoadingSession(u, s)
  \/ \E s \in Session : CancelDirect(s)
  \/ \E s \in Session : CancelQuietly(s)

PlaylistStep(u) ==
  \/ \E resume \in BOOLEAN : InterruptMark(u, resume)
  \/ InterruptUndo(u)
  \/ ResumePlaylist(u)
  \/ ConsumeResume(u)
  \/ ConsumeDecline(u)
  \/ StopPlaylist(u)
  \/ \E p \in Playlist : StartPlaylist(u, p)
  \/ \E status \in Status : SetPlaylistStatus(u, status)
  \/ ClearPlaylist(u)

QueueStep(u) ==
  \/ \E a \in Animation : QueueAnimation(u, a)
  \/ PopQueuedAnimation(u)
  \/ ClearAnimationQueue(u)

Next == \E u \in Universe : SessionStep(u) \/ PlaylistStep(u) \/ QueueStep(u)

Spec == Init /\ [][Next]_smVars

-----------------------------------------------------------------------------
(* Type invariant of the registry: every listed session exists, belongs to *)
(* the universe that lists it, and the queue respects its bound.           *)
TypeOK ==
  /\ sessions \in Seq(SessionRecord)
  /\ active \in [Universe -> SUBSET Session]
  /\ \A u \in Universe : \A s \in active[u] : sessions[s].universe = u
  /\ playlistState \in [Universe -> PlaylistState]
  /\ shouldResume \in [Universe -> BOOLEAN]
  /\ playlistStatus \in [Universe -> Status \cup {NoStatus}]
  /\ queue \in [Universe -> Seq(Animation)]

(* No two live sessions of a universe drive the same creature or fixture,  *)
(* whatever calls interleave: cancelling the conflicting sessions and      *)
(* publishing the new one is one critical section (issues #62, #65).       *)
OutputsExclusive ==
  \A u \in Universe : \A s, r \in Live(u) :
    s # r => sessions[s].drives \cap sessions[r].drives = {}

(* shouldResumePlaylist is "meaningful only while Interrupted": no path    *)
(* leaves it set behind, where the next interrupt's finish would act on    *)
(* the choice an older interrupt made (issue #78).                         *)
ResumeOnlyWhileInterrupted ==
  \A u \in Universe : shouldResume[u] => playlistState[u] = "Interrupted"

(* A playlist that is playing or interrupted always has a status snapshot, *)
(* so the "state is Active but no playlist snapshot exists" clean-up of    *)
(* PlaylistEvent is never needed for a state read in one critical section. *)
RunningHasSnapshot ==
  \A u \in Universe :
    playlistState[u] \in {"Active", "Interrupted"} => playlistStatus[u] # NoStatus

(* The transitions of one universe's playlist state, by the call that may  *)
(* make them.  Only an Active playlist is interrupted, and a stopped one   *)
(* is revived by nothing but a new start (issue #64).                      *)
LegalTransition(u) ==
  LET old == playlistState[u]
      new == playlistState'[u]
  IN  \/ new = old
      \/ new = "None"
      \/ new = "Interrupted" /\ old = "Active"
      \/ new = "Stopped"     /\ old \in {"Active", "Interrupted"}
      \/ new = "Active"      /\ old \in {"None", "Interrupted"}
      \/ new = "Active"      /\ \E p \in Playlist : StartPlaylist(u, p)

(* Action property: every step moves every playlist along a legal edge     *)
(* (getPlaylistState is "the single source of truth").                     *)
PlaylistTransitions == [][\A u \in Universe : LegalTransition(u)]_smVars

(* What may happen to one universe's animation queue in a step: it grows   *)
(* at its end, shrinks at its front, or is dropped whole.  Something other *)
(* than clearAnimationQueue drops it only when a listed session leaves the *)
(* universe or the universe has no session left.                           *)
QueueChange(u) ==
  queue'[u] # queue[u] =>
    \/ Len(queue'[u]) > Len(queue[u])
    \/ queue'[u] = Tail(queue[u])
    \/ active'[u] # active[u]
    \/ active[u] = {}
    \/ ClearAnimationQueue(u)

(* Action property: a late loader failure of a session that was replaced   *)
(* cannot erase the replacement's queued speech (abortLoadingSession).     *)
QueueDropNeedsOwner == [][\A u \in Universe : QueueChange(u)]_smVars
=============================================================================
