---------------------------- MODULE PlaybackProofs ----------------------------
(***************************************************************************)
(* Machine-checked proofs about the session registry (SessionManager) and  *)
(* about the playback threads that share it (Playback), for every set of   *)
(* universes, outputs, animations, playlists and threads and every bound.  *)
(***************************************************************************)
EXTENDS Playback, SequenceTheorems, WellFoundedInduction, TLAPS

(* What CancelLocked preserves: it replaces flags of known sessions and    *)
(* nothing else (cancelSessionLocked).                                     *)
LEMMA CancelLockedProperties ==
  ASSUME sessions \in Seq(SessionRecord), NEW dead
  PROVE  /\ CancelLocked(dead) \in Seq(SessionRecord)
         /\ Len(CancelLocked(dead)) = Len(sessions)
         /\ \A s \in Session :
              /\ CancelLocked(dead)[s].universe = sessions[s].universe
              /\ CancelLocked(dead)[s].reason = sessions[s].reason
              /\ CancelLocked(dead)[s].drives = sessions[s].drives
              /\ CancelLocked(dead)[s].cancelled = (s \in dead \/ sessions[s].cancelled)
<1>1. Len(sessions) \in Nat /\ sessions \in [Session -> SessionRecord]
  BY LenProperties DEF Session
<1>2. ASSUME NEW s \in Session
      PROVE  /\ [sessions[s] EXCEPT !.cancelled = TRUE, !.notified = TRUE] \in SessionRecord
             /\ sessions[s] \in SessionRecord
  BY <1>1 DEF SessionRecord
<1>3. CancelLocked(dead) \in [Session -> SessionRecord]
  BY <1>2 DEF CancelLocked
<1>4. CancelLocked(dead) \in Seq(SessionRecord)
  BY <1>1, <1>3, SeqDef DEF Session
<1>5. Len(CancelLocked(dead)) = Len(sessions)
  <2>1. DOMAIN CancelLocked(dead) = 1 .. Len(sessions)
    BY DEF CancelLocked, Session
  <2>2. DOMAIN CancelLocked(dead) = 1 .. Len(CancelLocked(dead))
        /\ Len(CancelLocked(dead)) \in Nat
    BY <1>4, LenProperties
  <2> QED
    BY <1>1, <2>1, <2>2
<1>6. ASSUME NEW s \in Session
      PROVE  /\ CancelLocked(dead)[s].universe = sessions[s].universe
             /\ CancelLocked(dead)[s].reason = sessions[s].reason
             /\ CancelLocked(dead)[s].drives = sessions[s].drives
             /\ CancelLocked(dead)[s].cancelled = (s \in dead \/ sessions[s].cancelled)
  BY <1>2 DEF CancelLocked, SessionRecord
<1> QED
  BY <1>4, <1>5, <1>6

(* The session fields no step after registration changes, and the          *)
(* direction of the cancelled flag (a PlaybackSession is never revived).   *)
Keeps ==
  /\ Len(sessions') = Len(sessions)
  /\ \A s \in Session :
       /\ sessions'[s].universe = sessions[s].universe
       /\ sessions'[s].reason = sessions[s].reason
       /\ sessions'[s].drives = sessions[s].drives
       /\ sessions[s].cancelled => sessions'[s].cancelled

(* Setting the flags of one session is again a sequence of sessions        *)
(* (PlaybackSession::cancel and markCancellationNotified).                 *)
LEMMA SetFlags ==
  ASSUME TypeOK, NEW s \in Session
  PROVE  /\ CancelDirect(s) => sessions' \in Seq(SessionRecord) /\ Keeps
         /\ CancelQuietly(s) => sessions' \in Seq(SessionRecord) /\ Keeps
<1>1. Len(sessions) \in Nat /\ sessions \in [Session -> SessionRecord]
  BY LenProperties DEF Session, TypeOK
<1>2. sessions[s] \in SessionRecord
  BY <1>1
<1>3. ASSUME NEW e \in SessionRecord,
             e.universe = sessions[s].universe, e.reason = sessions[s].reason,
             e.drives = sessions[s].drives, e.cancelled,
             sessions' = [sessions EXCEPT ![s] = e]
      PROVE  sessions' \in Seq(SessionRecord) /\ Keeps
  <2>1. /\ sessions' \in Seq(SessionRecord)
        /\ Len(sessions') = Len(sessions)
        /\ \A r \in Session : sessions'[r] = IF r = s THEN e ELSE sessions[r]
    BY <1>3, ExceptSeq DEF TypeOK, Session
  <2> QED
    BY <2>1, <1>3 DEF Keeps
<1>4. ASSUME CancelDirect(s)
      PROVE  sessions' \in Seq(SessionRecord) /\ Keeps
  <2> DEFINE e == [sessions[s] EXCEPT !.cancelled = TRUE]
  <2>1. /\ e \in SessionRecord
        /\ e.universe = sessions[s].universe /\ e.reason = sessions[s].reason
        /\ e.drives = sessions[s].drives /\ e.cancelled
    BY <1>2 DEF SessionRecord
  <2>2. sessions' = [sessions EXCEPT ![s] = e]
    BY <1>4 DEF CancelDirect
  <2> HIDE DEF e
  <2> QED
    BY <1>3, <2>1, <2>2
<1>5. ASSUME CancelQuietly(s)
      PROVE  sessions' \in Seq(SessionRecord) /\ Keeps
  <2> DEFINE e == [sessions[s] EXCEPT !.cancelled = TRUE, !.notified = TRUE]
  <2>1. /\ e \in SessionRecord
        /\ e.universe = sessions[s].universe /\ e.reason = sessions[s].reason
        /\ e.drives = sessions[s].drives /\ e.cancelled
    BY <1>2 DEF SessionRecord
  <2>2. sessions' = [sessions EXCEPT ![s] = e]
    BY <1>4, <1>5 DEF CancelQuietly
  <2> HIDE DEF e
  <2> QED
    BY <1>3, <2>1, <2>2
<1> QED
  BY <1>4, <1>5

(* SetPlaying keeps the snapshot well typed. *)
LEMMA SetPlayingType ==
  ASSUME TypeOK, NEW u \in Universe, NEW playing \in BOOLEAN, SetPlaying(u, playing)
  PROVE  /\ playlistStatus' \in [Universe -> Status \cup {NoStatus}]
         /\ \A v \in Universe : playlistStatus'[v] = NoStatus => playlistStatus[v] = NoStatus
<1>1. ASSUME playlistStatus[u] = NoStatus
      PROVE  playlistStatus' = playlistStatus
  BY <1>1 DEF SetPlaying, TypeOK
<1>2. ASSUME playlistStatus[u] # NoStatus
      PROVE  [playlistStatus[u] EXCEPT !.playing = playing] \in Status
  BY <1>2 DEF TypeOK, Status
<1>3. NoStatus \notin Status
  BY SessionManagerAssumption DEF Status
<1>4. ASSUME playlistStatus[u] # NoStatus
      PROVE  playlistStatus' =
               [playlistStatus EXCEPT ![u] = [playlistStatus[u] EXCEPT !.playing = playing]]
  BY <1>4 DEF SetPlaying
<1> QED
  BY <1>1, <1>2, <1>3, <1>4 DEF TypeOK

(* Cancelling and dropping sessions keeps both containers well typed. *)
LEMMA CancelAndDropType ==
  ASSUME TypeOK, NEW u \in Universe, NEW dead, CancelAndDrop(u, dead)
  PROVE  /\ sessions' \in Seq(SessionRecord)
         /\ Keeps
         /\ active' \in [Universe -> SUBSET Session]
         /\ \A v \in Universe : active'[v] \subseteq active[v]
<1>1. sessions' = CancelLocked(dead) /\ active' = [active EXCEPT ![u] = @ \ dead]
  BY DEF CancelAndDrop
<1>2. sessions' \in Seq(SessionRecord) /\ Keeps
  <2>1. sessions \in Seq(SessionRecord)
    BY DEF TypeOK
  <2>2. /\ sessions' \in Seq(SessionRecord)
        /\ Len(sessions') = Len(sessions)
        /\ \A s \in Session :
             /\ sessions'[s].universe = sessions[s].universe
             /\ sessions'[s].reason = sessions[s].reason
             /\ sessions'[s].drives = sessions[s].drives
             /\ sessions'[s].cancelled = (s \in dead \/ sessions[s].cancelled)
    BY ONLY <1>1, <2>1, CancelLockedProperties
  <2> QED
    BY <2>2 DEF Keeps
<1>3. active \in [Universe -> SUBSET Session]
  BY DEF TypeOK
<1> QED
  BY <1>1, <1>2, <1>3

(* The list of sessions only shrinks and no session is renamed: what the   *)
(* session half of the type invariant needs.                               *)
LEMMA SessionsType ==
  ASSUME TypeOK, Keeps, sessions' \in Seq(SessionRecord),
         active' \in [Universe -> SUBSET Session],
         \A v \in Universe : active'[v] \subseteq active[v]
  PROVE  /\ active' \in [Universe -> SUBSET Session']
         /\ \A v \in Universe : \A s \in active'[v] : sessions'[s].universe = v
<1>1. Session' = Session
  BY DEF Session, Keeps
<1>2. ASSUME NEW v \in Universe, NEW s \in active'[v]
      PROVE  sessions'[s].universe = v
  <2>1. s \in active[v] /\ s \in Session
    BY <1>2 DEF TypeOK
  <2> QED
    BY <2>1 DEF TypeOK, Keeps
<1> QED
  BY <1>1, <1>2

(* What registerSession does to the list: the old sessions keep their      *)
(* place and identity, the new one is the last.                            *)
LEMMA RegisterProperties ==
  ASSUME TypeOK, NEW u \in Universe, NEW a \in Animation, NEW reason \in Reason,
         NEW entire \in BOOLEAN, RegisterSession(u, a, reason, entire)
  PROVE  LET n == Len(sessions) + 1
         IN  /\ sessions' \in Seq(SessionRecord)
             /\ Len(sessions') = n
             /\ n \notin Session
             /\ Session' = Session \cup {n}
             /\ sessions'[n] = [universe |-> u, reason |-> reason, drives |-> Drives[a],
                                cancelled |-> FALSE, notified |-> FALSE]
             /\ \A s \in Session :
                  /\ sessions'[s].universe = sessions[s].universe
                  /\ sessions'[s].reason = sessions[s].reason
                  /\ sessions'[s].drives = sessions[s].drives
                  /\ sessions'[s].cancelled =
                       (s \in Adopted(u, a, entire) \/ sessions[s].cancelled)
             /\ active' = [active EXCEPT ![u] = (@ \ Adopted(u, a, entire)) \cup {n}]
<1> DEFINE dead == Adopted(u, a, entire)
           old  == CancelLocked(dead)
           new  == [universe |-> u, reason |-> reason, drives |-> Drives[a],
                    cancelled |-> FALSE, notified |-> FALSE]
<1>1. sessions' = Append(old, new)
  BY DEF RegisterSession
<1>2. /\ old \in Seq(SessionRecord) /\ Len(old) = Len(sessions)
      /\ \A s \in Session : /\ old[s].universe = sessions[s].universe
                            /\ old[s].reason = sessions[s].reason
                            /\ old[s].drives = sessions[s].drives
                            /\ old[s].cancelled = (s \in dead \/ sessions[s].cancelled)
  BY CancelLockedProperties DEF TypeOK
<1>3. new \in SessionRecord
  BY SessionManagerAssumption DEF SessionRecord
<1>4. Len(sessions) \in Nat
  BY LenProperties DEF TypeOK
<1> HIDE DEF old, new
<1>5. /\ Append(old, new) \in Seq(SessionRecord)
      /\ Len(Append(old, new)) = Len(sessions) + 1
      /\ Append(old, new)[Len(sessions) + 1] = new
      /\ \A s \in Session : Append(old, new)[s] = old[s]
  BY <1>2, <1>3, <1>4, AppendProperties DEF Session
<1>6. Session' = Session \cup {Len(sessions) + 1} /\ Len(sessions) + 1 \notin Session
  BY <1>1, <1>4, <1>5 DEF Session
<1>7. active' = [active EXCEPT ![u] = (@ \ dead) \cup {Len(sessions) + 1}]
  BY DEF RegisterSession
<1> QED
  BY <1>1, <1>2, <1>5, <1>6, <1>7 DEF new

(* A step that leaves the sessions and the lists alone keeps their types. *)
LEMMA UnchangedSessions ==
  ASSUME TypeOK, UNCHANGED <<sessions, active>>
  PROVE  /\ sessions' \in Seq(SessionRecord)
         /\ active' \in [Universe -> SUBSET Session']
         /\ \A v \in Universe : \A s \in active'[v] : sessions'[s].universe = v
<1>1. Session' = Session
  BY DEF Session
<1> QED
  BY <1>1 DEF TypeOK

(* The type invariant is inductive: one case per method. *)
LEMMA TypeStep == TypeOK /\ [Next]_smVars => TypeOK'
<1> SUFFICES ASSUME TypeOK, [Next]_smVars
             PROVE  TypeOK'
  OBVIOUS
<1> USE DEF PlaylistState
<1>1. ASSUME NEW u \in Universe, NEW a \in Animation, NEW reason \in Reason,
             NEW entire \in BOOLEAN, RegisterSession(u, a, reason, entire)
      PROVE  TypeOK'
  <2> DEFINE n == Len(sessions) + 1
             dead == Adopted(u, a, entire)
  <2>1. /\ sessions' \in Seq(SessionRecord)
        /\ n \notin Session
        /\ Session' = Session \cup {n}
        /\ sessions'[n] = [universe |-> u, reason |-> reason, drives |-> Drives[a],
                           cancelled |-> FALSE, notified |-> FALSE]
        /\ \A s \in Session : sessions'[s].universe = sessions[s].universe
        /\ active' = [active EXCEPT ![u] = (@ \ dead) \cup {n}]
    BY <1>1, RegisterProperties
  <2> HIDE DEF n, dead
  <2>2. active \in [Universe -> SUBSET Session]
    BY DEF TypeOK
  <2>3. active' \in [Universe -> SUBSET Session']
    BY <2>1, <2>2
  <2>4. ASSUME NEW v \in Universe, NEW s \in active'[v]
        PROVE  sessions'[s].universe = v
    <3>1. CASE s = n
      BY <2>1, <2>2, <2>4, <3>1
    <3>2. CASE s # n
      <4>1. s \in active[v] /\ s \in Session
        BY <2>1, <2>2, <2>4, <3>2
      <4> QED
        BY <2>1, <4>1 DEF TypeOK
    <3> QED
      BY <3>1, <3>2
  <2>5. UNCHANGED <<playlistState, shouldResume, playlistStatus, queue>>
    BY <1>1 DEF RegisterSession
  <2> QED
    BY <2>1, <2>3, <2>4, <2>5 DEF TypeOK
<1>2. ASSUME NEW u \in Universe, NEW dead, CancelAndDrop(u, dead),
             UNCHANGED <<playlistState, shouldResume, playlistStatus, queue>>
      PROVE  TypeOK'
  BY <1>2, CancelAndDropType, SessionsType DEF TypeOK
<1>3. ASSUME NEW u \in Universe, NEW s \in Session, ClearSession(u, s)
      PROVE  TypeOK'
  <2>1. Session' = Session
    BY <1>3 DEF ClearSession, Session
  <2> QED
    BY <1>3, <2>1 DEF ClearSession, TypeOK
<1>4. ASSUME NEW u \in Universe, NEW s \in Session, AbortLoadingSession(u, s)
      PROVE  TypeOK'
  <2>1. Session' = Session
    BY <1>4 DEF AbortLoadingSession, Session
  <2>2. <<>> \in Seq(Animation)
    OBVIOUS
  <2> QED
    BY <1>4, <2>1, <2>2 DEF AbortLoadingSession, AbortForgets, ForgetPlaylist, TypeOK
<1>5. ASSUME NEW s \in Session, CancelDirect(s) \/ CancelQuietly(s)
      PROVE  TypeOK'
  <2>1. sessions' \in Seq(SessionRecord) /\ Keeps
    BY <1>5, SetFlags
  <2>2. UNCHANGED <<active, playlistState, shouldResume, playlistStatus, queue>>
    BY <1>5 DEF CancelDirect, CancelQuietly
  <2> QED
    BY <2>1, <2>2, SessionsType DEF TypeOK
<1>6. ASSUME NEW u \in Universe, NEW resume \in BOOLEAN, InterruptMark(u, resume)
      PROVE  TypeOK'
  BY <1>6, UnchangedSessions DEF InterruptMark, TypeOK
<1>7. ASSUME NEW u \in Universe, InterruptUndo(u)
      PROVE  TypeOK'
  BY <1>7, UnchangedSessions DEF InterruptUndo, TypeOK
<1>8. ASSUME NEW u \in Universe, ResumePlaylist(u)
      PROVE  TypeOK'
  BY <1>8, UnchangedSessions, SetPlayingType DEF ResumePlaylist, TypeOK
<1>9. ASSUME NEW u \in Universe, ConsumeDecline(u)
      PROVE  TypeOK'
  BY <1>9, UnchangedSessions, SetPlayingType DEF ConsumeDecline, TypeOK
<1>10. ASSUME NEW u \in Universe, StopPlaylist(u)
       PROVE  TypeOK'
  <2>1. CancelAndDrop(u, PlaylistSessions(u)) /\ SetPlaying(u, FALSE)
    BY <1>10 DEF StopPlaylist
  <2>2. /\ sessions' \in Seq(SessionRecord)
        /\ active' \in [Universe -> SUBSET Session']
        /\ \A v \in Universe : \A s \in active'[v] : sessions'[s].universe = v
    BY <2>1, CancelAndDropType, SessionsType
  <2>3. playlistStatus' \in [Universe -> Status \cup {NoStatus}]
    BY <2>1, SetPlayingType
  <2> QED
    BY <1>10, <2>2, <2>3 DEF StopPlaylist, TypeOK
<1>11. ASSUME NEW u \in Universe, NEW p \in Playlist, StartPlaylist(u, p)
       PROVE  TypeOK'
  BY <1>11, UnchangedSessions DEF StartPlaylist, TypeOK, Status
<1>12. ASSUME NEW u \in Universe, NEW status \in Status, SetPlaylistStatus(u, status)
       PROVE  TypeOK'
  BY <1>12, UnchangedSessions DEF SetPlaylistStatus, TypeOK
<1>13. ASSUME NEW u \in Universe, ClearPlaylist(u)
       PROVE  TypeOK'
  <2>1. <<>> \in Seq(Animation)
    OBVIOUS
  <2> QED
    BY <1>13, <2>1, UnchangedSessions DEF ClearPlaylist, ForgetPlaylist, TypeOK
<1>14. ASSUME NEW u \in Universe, QueueStep(u)
       PROVE  TypeOK'
  <2>1. queue[u] \in Seq(Animation) /\ <<>> \in Seq(Animation)
    BY DEF TypeOK
  <2>2. /\ \A a \in Animation : Append(queue[u], a) \in Seq(Animation)
        /\ queue[u] # <<>> => Tail(queue[u]) \in Seq(Animation)
    BY <2>1
  <2>3. UNCHANGED <<sessions, active, playlistState, shouldResume, playlistStatus>>
    BY <1>14 DEF QueueStep, QueueAnimation, PopQueuedAnimation, ClearAnimationQueue
  <2>4. queue' \in [Universe -> Seq(Animation)]
    BY <1>14, <2>1, <2>2
       DEF QueueStep, QueueAnimation, PopQueuedAnimation, ClearAnimationQueue, TypeOK
  <2> QED
    BY <2>3, <2>4, UnchangedSessions DEF TypeOK
<1>15. CASE UNCHANGED smVars
  BY <1>15, UnchangedSessions DEF smVars, TypeOK
<1>16. ASSUME NEW u \in Universe, SessionStep(u)
       PROVE  TypeOK'
  BY <1>1, <1>2, <1>3, <1>4, <1>5, <1>16
     DEF SessionStep, CancelSessionsForCreature, CancelIdleSessionForCreature
<1>17. ASSUME NEW u \in Universe, PlaylistStep(u)
       PROVE  TypeOK'
  BY <1>6, <1>7, <1>8, <1>9, <1>10, <1>11, <1>12, <1>13, <1>17
     DEF PlaylistStep, ConsumeResume
<1> QED
  BY <1>14, <1>15, <1>16, <1>17 DEF Next

(* TypeOK holds throughout (the registry never lists an unknown session or *)
(* one of another universe).                                               *)
THEOREM TypeCorrect == Spec => []TypeOK
<1>1. Init => TypeOK
  <2> SUFFICES ASSUME Init
               PROVE  TypeOK
    OBVIOUS
  <2>1. sessions = <<>> /\ <<>> \in Seq(SessionRecord) /\ <<>> \in Seq(Animation)
    BY DEF Init
  <2> QED
    BY <2>1 DEF Init, TypeOK, PlaylistState
<1> QED
  BY <1>1, TypeStep, PTL DEF Spec

-----------------------------------------------------------------------------
(* Apart from registerSession no step adds a live session or changes what  *)
(* a session drives.                                                       *)
LEMMA OnlyRegisterAdds ==
  ASSUME TypeOK, [Next]_smVars
  PROVE  \/ \E u \in Universe, a \in Animation, reason \in Reason, entire \in BOOLEAN :
              RegisterSession(u, a, reason, entire)
         \/ Keeps /\ \A v \in Universe : active'[v] \subseteq active[v]
<1>1. ASSUME NEW u \in Universe, NEW dead, CancelAndDrop(u, dead)
      PROVE  Keeps /\ \A v \in Universe : active'[v] \subseteq active[v]
  BY <1>1, CancelAndDropType
<1>2. ASSUME NEW s \in Session, CancelDirect(s) \/ CancelQuietly(s)
      PROVE  Keeps /\ \A v \in Universe : active'[v] \subseteq active[v]
  BY <1>2, SetFlags DEF CancelDirect, CancelQuietly
<1>3. ASSUME UNCHANGED sessions, \A v \in Universe : active'[v] \subseteq active[v]
      PROVE  Keeps /\ \A v \in Universe : active'[v] \subseteq active[v]
  BY <1>3 DEF Keeps
<1>4. ASSUME NEW u \in Universe, NEW s \in Session,
             ClearSession(u, s) \/ AbortLoadingSession(u, s)
      PROVE  UNCHANGED sessions /\ \A v \in Universe : active'[v] \subseteq active[v]
  BY <1>4 DEF ClearSession, AbortLoadingSession, TypeOK
<1>5. ASSUME NEW u \in Universe, PlaylistStep(u), ~StopPlaylist(u)
      PROVE  UNCHANGED <<sessions, active>>
  BY <1>5 DEF PlaylistStep, InterruptMark, InterruptUndo, ResumePlaylist, ConsumeResume,
              ConsumeDecline, StartPlaylist, SetPlaylistStatus, ClearPlaylist
<1>6. ASSUME NEW u \in Universe, QueueStep(u)
      PROVE  UNCHANGED <<sessions, active>>
  BY <1>6 DEF QueueStep, QueueAnimation, PopQueuedAnimation, ClearAnimationQueue
<1>7. ASSUME NEW u \in Universe, StopPlaylist(u)
      PROVE  Keeps /\ \A v \in Universe : active'[v] \subseteq active[v]
  BY <1>1, <1>7 DEF StopPlaylist
<1>8. CASE UNCHANGED smVars
  BY <1>3, <1>8 DEF smVars
<1>9. ASSUME NEW u \in Universe, SessionStep(u),
             ~ \E a \in Animation, reason \in Reason, entire \in BOOLEAN :
                 RegisterSession(u, a, reason, entire)
      PROVE  Keeps /\ \A v \in Universe : active'[v] \subseteq active[v]
  BY <1>1, <1>2, <1>3, <1>4, <1>9
     DEF SessionStep, CancelSessionsForCreature, CancelIdleSessionForCreature
<1>10. ASSUME NEW u \in Universe, PlaylistStep(u) \/ QueueStep(u)
       PROVE  Keeps /\ \A v \in Universe : active'[v] \subseteq active[v]
  BY <1>3, <1>5, <1>6, <1>7, <1>10
<1> QED
  BY <1>8, <1>9, <1>10 DEF Next

(* Cancelling and listing fewer sessions cannot make two overlap.          *)
LEMMA FewerLiveStayExclusive ==
  ASSUME TypeOK, OutputsExclusive, Keeps, \A v \in Universe : active'[v] \subseteq active[v]
  PROVE  OutputsExclusive'
<1> SUFFICES ASSUME NEW v \in Universe, NEW s \in Live(v)', NEW r \in Live(v)', s # r
             PROVE  sessions'[s].drives \cap sessions'[r].drives = {}
  BY DEF OutputsExclusive
<1>1. ASSUME NEW q \in Live(v)'
      PROVE  q \in Session /\ q \in Live(v)
  <2>1. q \in active[v] /\ ~sessions'[q].cancelled
    BY <1>1 DEF Live, Cancelled
  <2>2. q \in Session
    BY <2>1 DEF TypeOK
  <2> QED
    BY <2>1, <2>2 DEF Keeps, Live, Cancelled
<1>2. sessions[s].drives \cap sessions[r].drives = {}
  BY <1>1 DEF OutputsExclusive
<1> QED
  BY <1>1, <1>2 DEF Keeps

(* The adopted session overlaps no survivor, because every live session it *)
(* overlaps is cancelled before it is published.                           *)
LEMMA AdoptionStaysExclusive ==
  ASSUME TypeOK, OutputsExclusive, NEW u \in Universe, NEW a \in Animation,
         NEW reason \in Reason, NEW entire \in BOOLEAN, RegisterSession(u, a, reason, entire)
  PROVE  OutputsExclusive'
<1> DEFINE n == Len(sessions) + 1
           dead == Adopted(u, a, entire)
<1>1. /\ n \notin Session
      /\ sessions'[n] = [universe |-> u, reason |-> reason, drives |-> Drives[a],
                         cancelled |-> FALSE, notified |-> FALSE]
      /\ \A s \in Session : /\ sessions'[s].drives = sessions[s].drives
                            /\ sessions'[s].cancelled = (s \in dead \/ sessions[s].cancelled)
      /\ active' = [active EXCEPT ![u] = (@ \ dead) \cup {n}]
  BY RegisterProperties
<1> HIDE DEF n
<1>2. sessions'[n].drives = Drives[a]
  BY <1>1
<1>3. active \in [Universe -> SUBSET Session]
  BY DEF TypeOK
<1>4. ASSUME NEW v \in Universe, NEW s \in Live(v)', s # n
      PROVE  s \in Session /\ s \in Live(v) /\ (v = u => s \notin dead)
  <2>1. s \in active'[v] /\ ~sessions'[s].cancelled
    BY <1>4 DEF Live, Cancelled
  <2>2. s \in active[v] /\ s \in Session
    BY <1>1, <1>3, <1>4, <2>1
  <2>3. ~(s \in dead \/ sessions[s].cancelled)
    BY <1>1, <2>1, <2>2
  <2> QED
    BY <2>2, <2>3 DEF Live, Cancelled
<1>5. ASSUME NEW v \in Universe, n \in Live(v)'
      PROVE  v = u
  BY <1>1, <1>3, <1>5 DEF Live
<1>6. ASSUME NEW s \in Live(u)', s # n
      PROVE  Drives[a] \cap sessions'[s].drives = {}
  <2>1. s \in Session /\ s \in Live(u) /\ s \notin dead
    BY <1>4, <1>6
  <2>2. ~Conflict(Drives[a], s)
    BY <2>1 DEF Adopted
  <2> QED
    BY <1>1, <2>1, <2>2 DEF Conflict
<1> SUFFICES ASSUME NEW v \in Universe, NEW s \in Live(v)', NEW r \in Live(v)', s # r
             PROVE  sessions'[s].drives \cap sessions'[r].drives = {}
  BY DEF OutputsExclusive
<1>7. CASE s = n
  <2>1. v = u /\ r # n
    BY <1>5, <1>7
  <2> QED
    BY <1>2, <1>6, <1>7, <2>1
<1>8. CASE r = n
  <2>1. v = u /\ s # n
    BY <1>5, <1>8
  <2> QED
    BY <1>2, <1>6, <1>8, <2>1
<1>9. CASE s # n /\ r # n
  <2>1. s \in Session /\ s \in Live(v) /\ r \in Session /\ r \in Live(v)
    BY <1>4, <1>9
  <2>2. sessions[s].drives \cap sessions[r].drives = {}
    BY <2>1 DEF OutputsExclusive
  <2> QED
    BY <1>1, <2>1, <2>2
<1> QED
  BY <1>7, <1>8, <1>9

(* No two live sessions of a universe ever drive the same creature or      *)
(* fixture, in any interleaving of the registry's callers (issues #62,     *)
(* #65).  The inductive invariant is TypeOK /\ OutputsExclusive: that      *)
(* every listed session is a known one is what lets a step that only       *)
(* cancels or drops sessions keep the property.                            *)
THEOREM ExclusiveOutputs == Spec => []OutputsExclusive
<1>1. Init => OutputsExclusive
  BY DEF Init, OutputsExclusive, Live
<1>2. TypeOK /\ OutputsExclusive /\ [Next]_smVars => OutputsExclusive'
  BY OnlyRegisterAdds, FewerLiveStayExclusive, AdoptionStaysExclusive
<1> QED
  BY <1>1, <1>2, TypeCorrect, PTL DEF Spec

-----------------------------------------------------------------------------
(* The two facts about a universe's playlist fields, together: the resume  *)
(* choice only lives while Interrupted, and a running playlist has a       *)
(* snapshot.                                                               *)
PlaylistInv == ResumeOnlyWhileInterrupted /\ RunningHasSnapshot

(* Steps that are not playlist steps touch the playlist fields only when   *)
(* abortLoadingSession forgets the playlist.                               *)
LEMMA PlaylistFieldsFrame ==
  ASSUME NEW u \in Universe, SessionStep(u) \/ QueueStep(u)
  PROVE  ForgetPlaylist(u) \/ UNCHANGED <<playlistState, shouldResume, playlistStatus>>
BY DEF SessionStep, QueueStep, RegisterSession, CancelSessionsForCreature,
       CancelIdleSessionForCreature, ClearSession, AbortLoadingSession, AbortForgets, CancelDirect,
       CancelQuietly, QueueAnimation, PopQueuedAnimation, ClearAnimationQueue

\* Both facts survive every method of the registry.
LEMMA PlaylistInvStep == TypeOK /\ PlaylistInv /\ [Next]_smVars => PlaylistInv'
<1> SUFFICES ASSUME TypeOK, PlaylistInv, [Next]_smVars
             PROVE  PlaylistInv'
  OBVIOUS
<1> USE DEF PlaylistInv, ResumeOnlyWhileInterrupted, RunningHasSnapshot
<1>1. ASSUME NEW u \in Universe, ForgetPlaylist(u)
      PROVE  PlaylistInv'
  BY <1>1 DEF ForgetPlaylist, TypeOK
<1>2. ASSUME NEW u \in Universe, NEW resume \in BOOLEAN, InterruptMark(u, resume)
      PROVE  PlaylistInv'
  BY <1>2 DEF InterruptMark, TypeOK
<1>3. ASSUME NEW u \in Universe, InterruptUndo(u)
      PROVE  PlaylistInv'
  BY <1>3 DEF InterruptUndo, TypeOK
<1>4. ASSUME NEW u \in Universe, ResumePlaylist(u)
      PROVE  PlaylistInv'
  <2>1. \A v \in Universe : playlistStatus'[v] = NoStatus => playlistStatus[v] = NoStatus
    BY <1>4, SetPlayingType DEF ResumePlaylist
  <2> QED
    BY <1>4, <2>1 DEF ResumePlaylist, TypeOK
<1>5. ASSUME NEW u \in Universe, ConsumeDecline(u)
      PROVE  PlaylistInv'
  <2>1. \A v \in Universe : playlistStatus'[v] = NoStatus => playlistStatus[v] = NoStatus
    BY <1>5, SetPlayingType DEF ConsumeDecline
  <2> QED
    BY <1>5, <2>1 DEF ConsumeDecline, TypeOK
<1>6. ASSUME NEW u \in Universe, StopPlaylist(u)
      PROVE  PlaylistInv'
  <2>1. \A v \in Universe : playlistStatus'[v] = NoStatus => playlistStatus[v] = NoStatus
    BY <1>6, SetPlayingType DEF StopPlaylist
  <2> QED
    BY <1>6, <2>1 DEF StopPlaylist, TypeOK
<1>7. ASSUME NEW u \in Universe, NEW p \in Playlist, StartPlaylist(u, p)
      PROVE  PlaylistInv'
  <2>1. [playlist |-> p, playing |-> TRUE] # NoStatus
    <3>1. [playlist |-> p, playing |-> TRUE] \in [playlist : Playlist, playing : BOOLEAN]
      OBVIOUS
    <3> QED
      BY ONLY <3>1, SessionManagerAssumption
  <2> QED
    BY <1>7, <2>1 DEF StartPlaylist, TypeOK
<1>8. ASSUME NEW u \in Universe, NEW status \in Status, SetPlaylistStatus(u, status)
      PROVE  PlaylistInv'
  <2>1. status # NoStatus
    BY SessionManagerAssumption DEF Status
  <2> QED
    BY <1>8, <2>1 DEF SetPlaylistStatus, TypeOK
<1>9. ASSUME NEW u \in Universe, ClearPlaylist(u)
      PROVE  PlaylistInv'
  BY <1>1, <1>9 DEF ClearPlaylist
<1>10. ASSUME UNCHANGED <<playlistState, shouldResume, playlistStatus>>
       PROVE  PlaylistInv'
  BY <1>10
<1>11. ASSUME NEW u \in Universe, PlaylistStep(u)
       PROVE  PlaylistInv'
  BY <1>2, <1>3, <1>4, <1>5, <1>6, <1>7, <1>8, <1>9, <1>11 DEF PlaylistStep, ConsumeResume
<1>12. ASSUME NEW u \in Universe, SessionStep(u) \/ QueueStep(u)
       PROVE  PlaylistInv'
  BY <1>1, <1>10, <1>12, PlaylistFieldsFrame
<1> QED
  BY <1>10, <1>11, <1>12 DEF Next, smVars

\* So they hold throughout.
LEMMA PlaylistInvHolds == Spec => []PlaylistInv
<1>1. Init => PlaylistInv
  BY DEF Init, PlaylistInv, ResumeOnlyWhileInterrupted, RunningHasSnapshot
<1> QED
  BY <1>1, TypeCorrect, PlaylistInvStep, PTL DEF Spec

(* No path leaves a resume choice behind for a later interrupt (issue #78).*)
THEOREM ResumeChoiceIsFresh == Spec => []ResumeOnlyWhileInterrupted
<1>1. PlaylistInv => ResumeOnlyWhileInterrupted
  BY DEF PlaylistInv
<1> QED
  BY <1>1, PlaylistInvHolds, PTL

(* A playlist that plays or is interrupted has a status snapshot.          *)
THEOREM SnapshotWhileRunning == Spec => []RunningHasSnapshot
<1>1. PlaylistInv => RunningHasSnapshot
  BY DEF PlaylistInv
<1> QED
  BY <1>1, PlaylistInvHolds, PTL

(* The playlist of a universe moves along legal edges only (issue #64):    *)
(* no interrupt revives a stopped one.                                     *)
THEOREM LegalTransitions == Spec => PlaylistTransitions
<1>1. ASSUME TypeOK, [Next]_smVars, NEW v \in Universe
      PROVE  LegalTransition(v)
  <2>1. ASSUME UNCHANGED playlistState
        PROVE  LegalTransition(v)
    BY <2>1 DEF LegalTransition
  <2>2. ASSUME NEW u \in Universe, ForgetPlaylist(u)
        PROVE  LegalTransition(v)
    BY <1>1, <2>2 DEF ForgetPlaylist, LegalTransition, TypeOK
  <2>3. ASSUME NEW u \in Universe, PlaylistStep(u)
        PROVE  LegalTransition(v)
    <3>1. ASSUME NEW p \in Playlist, StartPlaylist(u, p), u # v
          PROVE  LegalTransition(v)
      BY <1>1, <3>1 DEF StartPlaylist, LegalTransition, TypeOK
    <3>2. ASSUME NEW p \in Playlist, StartPlaylist(v, p)
          PROVE  LegalTransition(v)
      <4>1. playlistState'[v] = "Active"
        <5>1. playlistState' = [playlistState EXCEPT ![v] = "Active"]
          BY <3>2 DEF StartPlaylist
        <5> QED
          BY <1>1, <5>1 DEF TypeOK
      <4> QED
        BY <3>2, <4>1 DEF LegalTransition
    <3>3. ASSUME NEW status \in Status, SetPlaylistStatus(u, status)
          PROVE  LegalTransition(v)
      BY <1>1, <3>3 DEF SetPlaylistStatus, LegalTransition, TypeOK
    <3>4. ASSUME StopPlaylist(u)
          PROVE  LegalTransition(v)
      BY <1>1, <3>4 DEF StopPlaylist, LegalTransition, TypeOK
    <3>5. ASSUME ClearPlaylist(u)
          PROVE  LegalTransition(v)
      BY <2>2, <3>5 DEF ClearPlaylist
    <3>6. ASSUME (\E resume \in BOOLEAN : InterruptMark(u, resume)) \/ InterruptUndo(u)
          PROVE  LegalTransition(v)
      <4>1. playlistState' = [playlistState EXCEPT ![u] =
                                 IF @ = "Active" THEN "Interrupted" ELSE "Active"]
            /\ playlistState[u] \in {"Active", "Interrupted"}
        BY <1>1, <3>6 DEF InterruptMark, InterruptUndo, TypeOK
      <4> QED
        BY <1>1, <4>1 DEF LegalTransition, TypeOK
    <3>7. ASSUME ResumePlaylist(u) \/ ConsumeDecline(u)
          PROVE  LegalTransition(v)
      <4>1. /\ playlistState[u] = "Interrupted"
            /\ playlistState'[u] \in {"Active", "Stopped"}
            /\ u # v => playlistState'[v] = playlistState[v]
        BY <1>1, <3>7 DEF ResumePlaylist, ConsumeDecline, TypeOK
      <4> QED
        BY <4>1 DEF LegalTransition
    <3> QED
      BY <2>3, <3>1, <3>2, <3>3, <3>4, <3>5, <3>6, <3>7 DEF PlaylistStep, ConsumeResume
  <2>4. ASSUME NEW u \in Universe, SessionStep(u) \/ QueueStep(u)
        PROVE  LegalTransition(v)
    BY <2>1, <2>2, <2>4, PlaylistFieldsFrame
  <2> QED
    BY <1>1, <2>1, <2>3, <2>4 DEF Next, smVars
<1>2. TypeOK /\ [Next]_smVars => [\A u \in Universe : LegalTransition(u)]_smVars
  BY <1>1
<1> QED
  BY <1>2, TypeCorrect, PTL DEF Spec, PlaylistTransitions

(* Queued speech is only ever appended to, popped, or dropped with the     *)
(* session that owned the universe: a late failure of a replaced session   *)
(* leaves the replacement's queue alone (abortLoadingSession).             *)
THEOREM QueueOwnership == Spec => QueueDropNeedsOwner
<1>1. ASSUME TypeOK, [Next]_smVars, NEW v \in Universe
      PROVE  QueueChange(v)
  <2>1. ASSUME UNCHANGED queue
        PROVE  QueueChange(v)
    BY <2>1 DEF QueueChange
  <2>2. ASSUME NEW u \in Universe, NEW s \in Session, AbortLoadingSession(u, s)
        PROVE  QueueChange(v)
    <3>1. /\ s \in active[u]
          /\ active' = [active EXCEPT ![u] = @ \ {s}]
          /\ queue' = [queue EXCEPT ![u] = <<>>]
      BY <2>2 DEF AbortLoadingSession
    <3> QED
      BY <1>1, <3>1 DEF QueueChange, TypeOK
  <2>3. ASSUME NEW u \in Universe, ClearPlaylist(u)
        PROVE  QueueChange(v)
    BY <1>1, <2>3 DEF ClearPlaylist, QueueChange, TypeOK
  <2>4. ASSUME NEW u \in Universe, NEW a \in Animation, QueueAnimation(u, a)
        PROVE  QueueChange(v)
    <3>1. queue[u] \in Seq(Animation) /\ Len(queue[u]) \in Nat
      BY <1>1, LenProperties DEF TypeOK
    <3>2. Len(Append(queue[u], a)) = Len(queue[u]) + 1
      BY <3>1, AppendProperties
    <3>3. queue' = [queue EXCEPT ![u] = Append(queue[u], a)]
      BY <2>4 DEF QueueAnimation
    <3>4. CASE v = u
      <4>1. Len(queue'[v]) > Len(queue[v])
        BY <1>1, <3>1, <3>2, <3>3, <3>4 DEF TypeOK
      <4> QED
        BY <4>1 DEF QueueChange
    <3>5. CASE v # u
      BY <1>1, <3>3, <3>5 DEF QueueChange, TypeOK
    <3> QED
      BY <3>4, <3>5
  <2>5. ASSUME NEW u \in Universe, PopQueuedAnimation(u)
        PROVE  QueueChange(v)
    BY <1>1, <2>5 DEF PopQueuedAnimation, QueueChange, TypeOK
  <2>6. ASSUME NEW u \in Universe, ClearAnimationQueue(u)
        PROVE  QueueChange(v)
    <3>1. CASE v = u
      BY <2>6, <3>1 DEF QueueChange
    <3>2. CASE v # u
      <4>1. queue' = [queue EXCEPT ![u] = <<>>]
        BY <2>6 DEF ClearAnimationQueue
      <4> QED
        BY <1>1, <3>2, <4>1 DEF QueueChange, TypeOK
    <3> QED
      BY <3>1, <3>2
  <2>7. ASSUME NEW u \in Universe, SessionStep(u)
        PROVE  QueueChange(v)
    BY <2>1, <2>2, <2>7
       DEF SessionStep, RegisterSession, CancelSessionsForCreature,
           CancelIdleSessionForCreature, ClearSession, CancelDirect, CancelQuietly
  <2>8. ASSUME NEW u \in Universe, PlaylistStep(u)
        PROVE  QueueChange(v)
    BY <2>1, <2>3, <2>8
       DEF PlaylistStep, InterruptMark, InterruptUndo, ResumePlaylist, ConsumeResume,
           ConsumeDecline, StopPlaylist, StartPlaylist, SetPlaylistStatus
  <2>9. ASSUME NEW u \in Universe, QueueStep(u)
        PROVE  QueueChange(v)
    BY <2>4, <2>5, <2>6, <2>9 DEF QueueStep
  <2>10. CASE UNCHANGED smVars
    BY <2>1, <2>10 DEF smVars
  <2> QED
    BY <1>1, <2>7, <2>8, <2>9, <2>10 DEF Next
<1>2. TypeOK /\ [Next]_smVars => [\A v \in Universe : QueueChange(v)]_smVars
  BY <1>1
<1> QED
  BY <1>2, TypeCorrect, PTL DEF Spec, QueueDropNeedsOwner

-----------------------------------------------------------------------------
(* Threads: what a record holds, and what each program counter knows.      *)

Return == {"ready", "idle", "onFinish", "interrupt", "playlist", "load"}

Counter ==
  {"ready", "schedule", "register", "running", "start", "submit", "load", "publish", "unwind",
   "abort", "unwound", "idle", "clearCancelled", "cancelledDone", "onFinish", "finishCancelled",
   "clear", "queue", "interrupted?", "consume", "resumed", "chain", "after", "toIdle", "busy?",
   "choose", "retry", "backstop", "status", "clearPlaylist", "undo", "start playlist",
   "start status", "cancel", "stream", "mark", "announce", "expired", "idle on", "idle off",
   "cancel idle"}

ThreadRecord ==
  [pc : Counter, universe : Universe, session : Nat, before : Nat,
   animation : Animation \cup {NoAnimation}, reason : Reason, entire : BOOLEAN,
   ret : Return, victims : SUBSET Nat, idles : SUBSET Creature,
   status : Status \cup {NoStatus}]

\* The counters at which the loop completes a session it has claimed.
Finishing == {"clearCancelled", "onFinish", "finishCancelled", "clear"}

\* The counters at which a thread works on a registered session.
OnSession == Working \cup Finishing \cup {"cancel"}

\* The counters at which sessions the thread has cancelled may await notification.
Notifying == {"running", "clearPlaylist", "stream", "mark", "idle off"}

\* What the record of a thread knows when S are the registered sessions.
Knows(r, S) ==
  /\ r.pc \in {"schedule", "register"} => r.animation \in Animation
  /\ r.ret = "load" => r.pc \in {"load", "publish", "unwind", "abort", "unwound"}
  /\ r.pc \in OnSession => r.session \in S
  /\ r.ret = "playlist" \/ r.pc \in {"cancel", "start playlist", "start status"} => r.status \in Status
  /\ r.pc \in {"backstop", "status"} => r.ret = "playlist"
  /\ r.victims \subseteq S
  /\ r.victims # {} => r.pc \in Notifying

ThreadsTyped ==
  /\ thread \in [Thread -> ThreadRecord]
  /\ \A t \in Thread : Knows(thread[t], Session)

(* The record of a thread with nothing to do. *)
LEMMA ReadyTyped ==
  /\ Ready \in ThreadRecord
  /\ Ready.pc = "ready" /\ Ready.ret = "ready" /\ Ready.victims = {} /\ Ready.session = 0
<1> DEFINE u0 == CHOOSE u \in Universe : TRUE
<1>1. u0 \in Universe
  BY PlaybackAssumption
<1> HIDE DEF u0
<1>2. Ready = [pc |-> "ready", universe |-> u0, session |-> 0, before |-> 0,
               animation |-> NoAnimation, reason |-> "Play", entire |-> FALSE, ret |-> "ready",
               victims |-> {}, idles |-> {}, status |-> NoStatus]
  BY DEF Ready, u0
<1>3. Ready \in ThreadRecord
  BY <1>1, <1>2 DEF ThreadRecord, Reason, Return, Counter
<1> QED
  BY <1>2, <1>3

\* A snapshot is never the empty optional.
LEMMA StatusTyped == NoStatus \notin Status
BY SessionManagerAssumption DEF Status

\* A record that goes on with another session is a thread's record.
LEMMA SessionMoves ==
  ASSUME NEW r \in ThreadRecord, NEW pc \in Counter, NEW s \in Nat
  PROVE  [r EXCEPT !.pc = pc, !.session = s] \in ThreadRecord
BY DEF ThreadRecord

(* Where a call of scheduleAnimation returns to is again a thread's record. *)
LEMMA ReturnedTyped ==
  ASSUME NEW S, NEW r \in ThreadRecord, Knows(r, S), NEW outcome \in {"ok", "Conflict", "Error"},
         r.victims = {}, NEW q, q = Returned(r, outcome)
  PROVE  q \in ThreadRecord /\ Knows(q, S) /\ q.pc \notin Working \cup Finishing \cup {"cancel"} /\ q.victims = {}
<1>1. Ready \in ThreadRecord /\ Ready.ret = "ready" /\ Ready.pc = "ready" /\ Ready.victims = {}
  BY ReadyTyped
<1>2. ASSUME NEW pc \in {"ready", "idle", "after", "undo"}, q \in ThreadRecord,
             q.pc = pc, q.ret = "ready", q.victims = {}
      PROVE  q \in ThreadRecord /\ Knows(q, S) /\ q.pc \notin Working \cup Finishing \cup {"cancel"} /\ q.victims = {}
  BY <1>2 DEF Knows, OnSession, Working, Finishing
<1>3. CASE q = Ready
  BY <1>1, <1>2, <1>3
<1>4. ASSUME NEW u \in Universe, NEW cs \in SUBSET Creature, NEW n \in Nat,
             \/ q = [Ready EXCEPT !.pc = "idle", !.universe = u, !.idles = cs]
             \/ q = [Ready EXCEPT !.pc = "idle", !.universe = u, !.before = n, !.idles = cs]
      PROVE  q \in ThreadRecord /\ q.pc = "idle" /\ q.ret = "ready" /\ q.victims = {}
  <2>1. "idle" \in Counter
    BY DEF Counter
  <2>2. CASE q = [Ready EXCEPT !.pc = "idle", !.universe = u, !.idles = cs]
    BY <1>1, <2>1, <2>2 DEF ThreadRecord
  <2>3. CASE q = [Ready EXCEPT !.pc = "idle", !.universe = u, !.before = n, !.idles = cs]
    <3>1. PICK k : k = [Ready EXCEPT !.pc = "idle", !.universe = u]
      OBVIOUS
    <3>2. k \in ThreadRecord /\ k.pc = "idle" /\ k.ret = "ready" /\ k.victims = {}
      BY <1>1, <2>1, <3>1 DEF ThreadRecord
    <3>3. q = [k EXCEPT !.before = n, !.idles = cs]
      BY <2>3, <3>1
    <3> QED
      BY <3>2, <3>3 DEF ThreadRecord
  <2> QED
    BY <1>4, <2>2, <2>3
<1>5. ASSUME NEW u \in Universe, NEW s \in Nat,
             q = [Ready EXCEPT !.pc = "after", !.universe = u, !.session = s]
      PROVE  q \in ThreadRecord /\ q.pc = "after" /\ q.ret = "ready" /\ q.victims = {}
  BY <1>1, <1>5 DEF ThreadRecord, Counter
<1>6. ASSUME NEW u \in Universe, q = [Ready EXCEPT !.pc = "undo", !.universe = u]
      PROVE  q \in ThreadRecord /\ q.pc = "undo" /\ q.ret = "ready" /\ q.victims = {}
  BY <1>1, <1>6 DEF ThreadRecord, Counter
<1>7. r.universe \in Universe /\ r.before \in Nat /\ r.idles \in SUBSET Creature /\ r.ret \in Return
  BY DEF ThreadRecord
<1>8. CASE r.ret \in {"ready", "idle", "onFinish", "interrupt"}
  BY <1>1, <1>2, <1>3, <1>4, <1>5, <1>6, <1>7, <1>8 DEF Returned
<1>9. CASE r.ret = "playlist"
  <2>1. ASSUME NEW pc \in {"backstop", "retry", "clearPlaylist"},
               q = [r EXCEPT !.pc = pc, !.session = 0]
        PROVE  q \in ThreadRecord /\ q.pc = pc /\ q.ret = r.ret /\ q.victims = r.victims
               /\ q.status = r.status
    <3>1. pc \in Counter
      BY DEF Counter
    <3>2. q \in ThreadRecord
      <4>1. q = [r EXCEPT !.pc = pc, !.session = 0]
        BY <2>1
      <4>2. r \in ThreadRecord
        OBVIOUS
      <4>3. [r EXCEPT !.pc = pc, !.session = 0] \in ThreadRecord
        BY <3>1, <4>2, SessionMoves
      <4> QED
        BY <4>1, <4>3
    <3>3. q.pc = pc
      BY <2>1 DEF ThreadRecord
    <3>4. q.ret = r.ret /\ q.victims = r.victims
      BY <2>1 DEF ThreadRecord
    <3>5. q.status = r.status
      BY <2>1 DEF ThreadRecord
    <3> QED
      BY <3>2, <3>3, <3>4, <3>5
  <2>2. ASSUME NEW pc \in {"backstop", "retry", "clearPlaylist"},
               q = [r EXCEPT !.pc = pc, !.session = 0]
        PROVE  q \in ThreadRecord /\ Knows(q, S) /\ q.pc \notin Working \cup Finishing \cup {"cancel"} /\ q.victims = {}
    BY <1>9, <2>1, <2>2 DEF Knows, OnSession, Working, Finishing
  <2>3. q = [r EXCEPT !.pc = CASE outcome = "ok"       -> "backstop"
                                [] outcome = "Conflict" -> "retry"
                                [] outcome = "Error"    -> "clearPlaylist", !.session = 0]
    BY <1>9 DEF Returned
  <2> QED
    BY <2>2, <2>3
<1>10. CASE r.ret = "load"
  <2>1. Creatures(r.session) \subseteq Creature
    BY DEF Creatures
  <2>2. q = [Ready EXCEPT !.pc = "idle", !.universe = r.universe, !.idles = Creatures(r.session)]
    BY <1>10 DEF Returned
  <2> QED
    BY <1>2, <1>4, <1>7, <2>1, <2>2
<1> QED
  BY <1>7, <1>8, <1>9, <1>10 DEF Return

(* A step that gives one thread a new record keeps the threads typed. *)
LEMMA ThreadMoves ==
  ASSUME ThreadsTyped, NEW t \in Thread, NEW q \in ThreadRecord, Session \subseteq Session',
         Knows(q, Session'), thread' = [thread EXCEPT ![t] = q]
  PROVE  ThreadsTyped'
<1>1. thread' \in [Thread -> ThreadRecord]
  BY DEF ThreadsTyped
<1>2. ASSUME NEW o \in Thread
      PROVE  Knows(thread'[o], Session')
  <2>1. CASE o = t
    BY <2>1 DEF ThreadsTyped
  <2>2. CASE o # t
    <3>1. thread'[o] = thread[o] /\ Knows(thread[o], Session)
      BY <2>2 DEF ThreadsTyped
    <3> QED
      BY <3>1 DEF Knows
  <2> QED
    BY <2>1, <2>2
<1> QED
  BY <1>1, <1>2 DEF ThreadsTyped

-----------------------------------------------------------------------------
(* What a step of playback does to the ownership of sessions.  Every       *)
(* action of Playback has one of the effects below on the thread it moves. *)

owned == <<sessions, active, runners, ended, finished, loading>>

\* Thread t goes on with record q.
Moves(t, q) == /\ q \in ThreadRecord
               /\ thread' = [thread EXCEPT ![t] = q]
               /\ Knows(q, Session')
               /\ UNCHANGED workload

\* No session is owned before or after, none is touched.
Passes(t, q) ==
  /\ thread[t].victims = {} /\ q.victims = {}
  /\ thread[t].pc \notin Working /\ q.pc \notin Working
  /\ q.pc \in Finishing => thread[t].pc \in Finishing /\ q.session = thread[t].session
  /\ q.pc = "cancel" => "start" \in workload.kinds
  /\ UNCHANGED owned

SameWork(t, q) ==
  /\ thread[t].pc \in Working /\ q.pc \in Working
  /\ q.session = thread[t].session /\ q.universe = thread[t].universe
  /\ thread[t].victims = {} /\ q.victims = {}

\* The thread keeps the session it works on.
Carries(t, q) ==
  /\ SameWork(t, q) /\ thread[t].pc # "abort" /\ q.pc # "abort"
  /\ UNCHANGED owned

\* A new session, and the ones it replaces to notify.
Registers(t, q) ==
  LET r == thread[t]
  IN  /\ r.pc = "register" /\ q.pc = "running"
      /\ q.session = Len(sessions) + 1 /\ q.universe = r.universe
      /\ r.victims = {} /\ q.victims = Adopted(r.universe, r.animation, r.entire)
      /\ r.animation \in Animation
      /\ RegisterSession(r.universe, r.animation, r.reason, r.entire)
      /\ UNCHANGED <<runners, ended, finished, loading>>

\* A cancelled session gets its teardown runner.
Notifies(t, q) ==
  \E s \in thread[t].victims :
    /\ q.victims = thread[t].victims \ {s}
    /\ q.pc = thread[t].pc /\ q.session = thread[t].session /\ q.universe = thread[t].universe
    /\ PushRunner(s)
    /\ UNCHANGED <<sessions, active, ended, finished, loading>>

\* The thread leaves the session it worked on.
Leaves(t, q) ==
  /\ thread[t].pc \in Working /\ thread[t].victims = {}
  /\ q.pc \notin Working \cup Finishing \cup {"cancel"} /\ q.victims = {}

HandsToRunner(t, q) ==
  /\ Leaves(t, q) /\ PushRunner(thread[t].session) /\ thread[t].pc # "abort"
  /\ UNCHANGED <<sessions, active, ended, finished, loading>>

HandsToLoader(t, q) ==
  /\ Leaves(t, q) /\ loading' = loading \cup {thread[t].session} /\ thread[t].pc # "abort"
  /\ UNCHANGED <<sessions, active, runners, ended, finished>>

\* A loader takes a session up, or crosses a cancelled one.
TakesUp(t, q) ==
  \E s \in loading :
    /\ loading' = loading \ {s}
    /\ thread[t].pc = "ready" /\ thread[t].victims = {} /\ q.victims = {}
    /\ \/ Cancelled(s) /\ q = thread[t]
       \/ q.pc = "load" /\ q.session = s /\ q.universe = sessions[s].universe
    /\ UNCHANGED <<sessions, active, runners, ended, finished>>

\* A loader finds its session cancelled, or its universe taken over.
GivesUp(t, q) ==
  /\ Leaves(t, q)
  /\ \/ Cancelled(thread[t].session) /\ thread[t].pc # "abort"
     \/ thread[t].pc = "abort" /\ thread[t].session \notin active[thread[t].universe]
  /\ UNCHANGED owned

Unwinds(t, q) ==
  /\ SameWork(t, q) /\ thread[t].pc # "abort" /\ q.pc = "abort"
  /\ CancelQuietly(thread[t].session)
  /\ UNCHANGED <<active, runners, ended, finished, loading>>

TearsDown(t, q) ==
  LET s == thread[t].session
  IN  /\ Leaves(t, q) /\ thread[t].pc = "abort"
      /\ s \in active[thread[t].universe]
      /\ active' = [active EXCEPT ![thread[t].universe] = @ \ {s}]
      /\ ended' = [ended EXCEPT ![s] = @ + 1]
      /\ UNCHANGED <<sessions, runners, finished, loading>>

\* The loop runs a runner event: late, or the one that completes the session.
RunsLate(t, q) ==
  \E s \in Session :
    /\ TakeRunner(s) /\ s \in finished /\ q = thread[t]
    /\ UNCHANGED <<sessions, active, ended, finished, loading>>

Completes(t, q) ==
  \E s \in Session :
    /\ TakeRunner(s) /\ s \notin finished /\ Claim(s)
    /\ thread[t].pc = "ready" /\ thread[t].victims = {} /\ q.victims = {}
    /\ q.pc \in Finishing /\ q.session = s
    /\ UNCHANGED sessions \/ CancelDirect(s)
    /\ UNCHANGED <<active, loading>>

Clears(t, q) ==
  /\ thread[t].pc \in Finishing /\ thread[t].victims = {} /\ q.victims = {}
  /\ q.pc \notin Working \cup Finishing \cup {"cancel"}
  /\ ClearSession(thread[t].universe, thread[t].session)
  /\ UNCHANGED <<runners, ended, finished, loading>>

\* Sessions are cancelled and dropped by the registry, and to be notified.
Drops(t, q) ==
  /\ thread[t].victims = {}
  /\ thread[t].pc \notin Working /\ q.pc \in Notifying \ {"running"}
  /\ \E u \in Universe :
       /\ CancelAndDrop(u, q.victims)
       /\ q.victims \subseteq Live(u)
  /\ UNCHANGED <<runners, ended, finished, loading>>

\* A start of a playlist cancels the newest session past the registry.
StartsOver(t, q) ==
  /\ thread[t].pc = "cancel" /\ thread[t].victims = {} /\ q.victims = {}
  /\ q.pc \notin Working \cup Finishing \cup {"cancel"}
  /\ CancelDirect(thread[t].session)
  /\ UNCHANGED <<runners, ended, finished, loading>>

Effect(t, q) ==
  \/ Passes(t, q) \/ Carries(t, q) \/ Registers(t, q) \/ Notifies(t, q)
  \/ HandsToRunner(t, q) \/ HandsToLoader(t, q) \/ TakesUp(t, q) \/ GivesUp(t, q)
  \/ Unwinds(t, q) \/ TearsDown(t, q) \/ RunsLate(t, q) \/ Completes(t, q)
  \/ Clears(t, q) \/ Drops(t, q) \/ StartsOver(t, q)

\* What a step must be shown to do: move a thread with an effect, as a step
\* of the registry.
Effective == /\ \E t \in Thread, q \in ThreadRecord : Moves(t, q) /\ Effect(t, q)
             /\ [Next]_smVars

-----------------------------------------------------------------------------
(* The inductive invariant behind SessionsEndOnce.                         *)

Works(t, s) == thread[t].pc \in Working /\ thread[t].session = s

\* A session no runner has been scheduled for by its owner yet.
Preparing(s) == s \in loading \/ \E t \in Thread : Works(t, s)

Listed(s) == s \in active[sessions[s].universe]

ToNotify(s) == \E t \in Thread : s \in thread[t].victims

\* The completion of the session is done, scheduled, or about to be.
Handed(s) == ended[s] > 0 \/ runners[s] > 0 \/ ToNotify(s)

Books ==
  /\ Len(sessions) <= MaxSessions
  /\ runners \in [Ids -> Nat] /\ ended \in [Ids -> Nat]
  /\ finished \subseteq Session /\ loading \subseteq Session
  /\ \A s \in Ids \ Session : runners[s] = 0 /\ ended[s] = 0

\* A session under preparation has one owner, which knows its universe.
OneOwner ==
  \A t \in Thread : thread[t].pc \in Working =>
    /\ thread[t].session \notin loading
    /\ \A o \in Thread : Works(o, thread[t].session) => o = t
    /\ thread[t].universe = sessions[thread[t].session].universe

FinishingHasEnded == \A t \in Thread : thread[t].pc \in Finishing => ended[thread[t].session] > 0

Started == "start" \in workload.kinds

OnlyStartsCancel == \A t \in Thread : thread[t].pc = "cancel" => Started

Aborting(s) == \E t \in Thread : thread[t].pc = "abort" /\ thread[t].session = s

\* What is under preparation and still listed has not begun to end; what is to be
\* notified is off the list.
InOrder(s) ==
  /\ Preparing(s) /\ Listed(s) => runners[s] = 0 /\ ended[s] = 0
  /\ ToNotify(s) => ~Listed(s)

\* A session ended by a runner is finished; one ended by a failed load is out of
\* everybody's reach.
EndsAgree(s) ==
  /\ ended[s] <= 1
  /\ s \in finished => ended[s] = 1
  /\ ended[s] = 1 /\ s \notin finished =>
       runners[s] = 0 /\ ~Listed(s) /\ ~Preparing(s) /\ ~ToNotify(s)

\* Who takes a session off the list, or cancels it, hands it over; so does who
\* prepared it.
Accounted(s) ==
  /\ ~Listed(s) => Handed(s)
  /\ Started \/ (Cancelled(s) => Handed(s) \/ Aborting(s))
  /\ Started \/ Handed(s) \/ Preparing(s)

Safe(s) == InOrder(s) /\ EndsAgree(s) /\ Accounted(s)

OwnershipInv ==
  /\ Books /\ OneOwner /\ FinishingHasEnded /\ OnlyStartsCancel
  /\ \A s \in Session : Safe(s)

-----------------------------------------------------------------------------
(* Records made from the ready one, and their fields. *)
LEMMA FreshRecords ==
  ASSUME NEW pc \in Counter, NEW u \in Universe, NEW s \in Nat, NEW cs \in SUBSET Creature,
         NEW status \in Status \cup {NoStatus}, NEW victims \in SUBSET Nat, NEW q,
         \/ q = [Ready EXCEPT !.pc = pc, !.idles = cs]
         \/ q = [Ready EXCEPT !.pc = pc, !.universe = u]
         \/ q = [Ready EXCEPT !.pc = pc, !.universe = u, !.idles = cs]
         \/ q = [Ready EXCEPT !.pc = pc, !.session = s, !.universe = u]
         \/ q = [Ready EXCEPT !.pc = pc, !.universe = u, !.status = status]
  PROVE  q \in ThreadRecord /\ q.pc = pc /\ q.ret = "ready" /\ q.victims = {}
<1>1. Ready \in ThreadRecord /\ Ready.ret = "ready" /\ Ready.victims = {}
  BY ReadyTyped
<1>2. CASE q = [Ready EXCEPT !.pc = pc, !.idles = cs]
  BY <1>1, <1>2 DEF ThreadRecord
<1>3. CASE q = [Ready EXCEPT !.pc = pc, !.universe = u]
  BY <1>1, <1>3 DEF ThreadRecord
<1>4. CASE q = [Ready EXCEPT !.pc = pc, !.universe = u, !.idles = cs]
  BY <1>1, <1>4 DEF ThreadRecord
<1>5. CASE q = [Ready EXCEPT !.pc = pc, !.session = s, !.universe = u]
  BY <1>1, <1>5 DEF ThreadRecord
<1>6. CASE q = [Ready EXCEPT !.pc = pc, !.universe = u, !.status = status]
  BY <1>1, <1>6 DEF ThreadRecord
<1> QED
  BY <1>2, <1>3, <1>4, <1>5, <1>6

(* A jump changes the program counter and nothing else. *)
LEMMA JumpMoves ==
  ASSUME ThreadsTyped, NEW t \in Thread, NEW pc \in Counter, NEW q,
         q = [thread[t] EXCEPT !.pc = pc]
  PROVE  /\ q \in ThreadRecord
         /\ q.pc = pc /\ q.session = thread[t].session /\ q.universe = thread[t].universe
         /\ q.ret = thread[t].ret /\ q.victims = thread[t].victims
         /\ q.animation = thread[t].animation /\ q.status = thread[t].status
         /\ Jump(t, pc) => thread' = [thread EXCEPT ![t] = q]
<1>1. thread[t] \in ThreadRecord
  BY DEF ThreadsTyped
<1>2. q \in ThreadRecord
  BY <1>1 DEF ThreadRecord
<1>3. /\ q.pc = pc /\ q.session = thread[t].session /\ q.universe = thread[t].universe
      /\ q.ret = thread[t].ret /\ q.victims = thread[t].victims
      /\ q.animation = thread[t].animation /\ q.status = thread[t].status
  BY <1>1 DEF ThreadRecord
<1>4. ASSUME Jump(t, pc)
      PROVE  thread' = [thread EXCEPT ![t] = q]
  BY <1>4 DEF Jump
<1> QED
  BY <1>2, <1>3, <1>4

(* Counters at which a record has no obligation of its own. *)
Plain == Counter \ (Working \cup Finishing \cup
           {"cancel", "schedule", "register", "start playlist", "start status", "backstop", "status"})

\* The thread has no session at hand and none to notify.
Unburdened(t) == /\ thread[t].victims = {}
                 /\ thread[t].pc \notin Working \cup {"unwound"}

(* A counter outside the notifying ones has nothing left to notify. *)
LEMMA NothingToNotify ==
  ASSUME ThreadsTyped, NEW t \in Thread, thread[t].pc \notin Notifying
  PROVE  thread[t].victims = {}
BY DEF ThreadsTyped, Knows

(* A jump to a plain counter passes. *)
LEMMA JumpPasses ==
  ASSUME ThreadsTyped, NEW t \in Thread, NEW pc \in Plain, Jump(t, pc), Unburdened(t),
         UNCHANGED <<owned, workload>>
  PROVE  \E q \in ThreadRecord : Moves(t, q) /\ Effect(t, q)
<1>1. PICK q : q = [thread[t] EXCEPT !.pc = pc]
  OBVIOUS
<1>2. pc \in Counter
  BY DEF Plain
<1>3. /\ q \in ThreadRecord /\ thread' = [thread EXCEPT ![t] = q]
      /\ q.pc = pc /\ q.ret = thread[t].ret /\ q.victims = {} /\ q.status = thread[t].status
  BY <1>1, <1>2, JumpMoves DEF Unburdened
<1>4. Knows(thread[t], Session)
  BY DEF ThreadsTyped
<1>5. Knows(q, Session)
  BY <1>3, <1>4 DEF Knows, Plain, Unburdened, OnSession, Working
<1>6. Session' = Session
  BY DEF owned, Session
<1>7. Moves(t, q)
  BY <1>3, <1>5, <1>6 DEF Moves
<1>8. Passes(t, q)
  BY <1>3 DEF Passes, Plain, Unburdened
<1> QED
  BY <1>3, <1>7, <1>8 DEF Effect

(* So does a new record at a counter with nothing at hand. *)
LEMMA GotoPasses ==
  ASSUME ThreadsTyped, NEW t \in Thread, NEW q \in ThreadRecord, Goto(t, q),
         Knows(q, Session), q.victims = {}, q.pc \notin Working \cup Finishing \cup {"cancel"},
         thread[t].victims = {}, thread[t].pc \notin Working, UNCHANGED <<owned, workload>>
  PROVE  \E p \in ThreadRecord : Moves(t, p) /\ Effect(t, p)
<1>1. Session' = Session
  BY DEF owned, Session
<1>2. Moves(t, q)
  BY <1>1 DEF Moves, Goto
<1>3. Passes(t, q)
  BY DEF Passes
<1> QED
  BY <1>2, <1>3 DEF Effect

\* A record with no obligations: from the ready one, at a plain counter.
LEMMA PlainKnows ==
  ASSUME NEW S, NEW q, q.pc \in Plain, q.ret = "ready", q.victims = {}
  PROVE  Knows(q, S) /\ q.pc \notin Working \cup Finishing \cup {"cancel"}
BY DEF Knows, Plain, OnSession

-----------------------------------------------------------------------------
(* The effect of every action.  First scheduleAnimation up to registration.*)

\* Where scheduleAnimation returns when nothing was registered.
LEMMA ReturnsEarly ==
  ASSUME ThreadsTyped, NEW t \in Thread, NEW outcome \in {"ok", "Conflict", "Error"},
         At(t, "schedule"), Goto(t, Returned(thread[t], outcome)),
         UNCHANGED <<smVars, eventVars, endVars, creatureVars, bound>>
  PROVE  Effective
<1>1. thread[t] \in ThreadRecord /\ Knows(thread[t], Session) /\ thread[t].victims = {}
  BY NothingToNotify DEF ThreadsTyped, At, Notifying
<1>2. PICK q : q = Returned(thread[t], outcome)
  OBVIOUS
<1>3. q \in ThreadRecord /\ Knows(q, Session) /\ q.victims = {}
      /\ q.pc \notin Working \cup Finishing \cup {"cancel"}
  BY <1>1, <1>2, ReturnedTyped
<1>4. Goto(t, q) /\ thread[t].pc \notin Working
  BY <1>2 DEF At, Working
<1>5. UNCHANGED <<owned, workload>> /\ UNCHANGED smVars
  BY DEF owned, smVars, eventVars, endVars, bound
<1>6. \E p \in ThreadRecord : Moves(t, p) /\ Effect(t, p)
  BY <1>1, <1>3, <1>4, <1>5, GotoPasses
<1> QED
  BY <1>5, <1>6 DEF Effective

\* scheduleAnimation up to the registration has an effect of the list above.
LEMMA ScheduleEffects ==
  ASSUME TypeOK, ThreadsTyped, NEW t \in Thread,
         \/ ScheduleConflict(t) \/ ScheduleNoSlot(t) \/ ScheduleBroken(t) \/ ScheduleAdmitted(t)
         \/ ScheduleRegister(t)
  PROVE  Effective
<1>1. ASSUME ScheduleConflict(t) \/ ScheduleNoSlot(t) \/ ScheduleBroken(t)
      PROVE  Effective
  BY <1>1, ReturnsEarly DEF ScheduleConflict, ScheduleNoSlot, ScheduleBroken
<1>2. ASSUME ScheduleAdmitted(t)
      PROVE  Effective
  <2>1. /\ thread[t].pc = "schedule" /\ Jump(t, "register")
        /\ UNCHANGED <<smVars, eventVars, endVars, creatureVars, bound>>
    BY <1>2 DEF ScheduleAdmitted, At
  <2>2. thread[t].victims = {} /\ Knows(thread[t], Session)
    BY <2>1, NothingToNotify DEF ThreadsTyped, Notifying
  <2>3. PICK q : q = [thread[t] EXCEPT !.pc = "register"]
    OBVIOUS
  <2>4. "register" \in Counter
    BY DEF Counter
  <2>5. /\ q \in ThreadRecord /\ thread' = [thread EXCEPT ![t] = q]
        /\ q.pc = "register" /\ q.ret = thread[t].ret /\ q.victims = thread[t].victims
        /\ q.status = thread[t].status /\ q.animation = thread[t].animation
    BY <2>1, <2>3, <2>4, JumpMoves
  <2>6. Knows(q, Session)
    BY <2>1, <2>2, <2>5 DEF Knows, OnSession, Working, Finishing
  <2>7. UNCHANGED <<owned, workload>> /\ UNCHANGED smVars
    BY <2>1 DEF owned, smVars, eventVars, endVars, bound
  <2>8. Goto(t, q) /\ q.victims = {} /\ q.pc \notin Working \cup Finishing \cup {"cancel"}
        /\ thread[t].pc \notin Working
    BY <2>1, <2>2, <2>5 DEF Goto, Working, Finishing
  <2>9. \E p \in ThreadRecord : Moves(t, p) /\ Effect(t, p)
    BY <2>2, <2>5, <2>6, <2>7, <2>8, GotoPasses
  <2> QED
    BY <2>7, <2>9 DEF Effective
<1>3. ASSUME ScheduleRegister(t)
      PROVE  Effective
  <2> DEFINE r == thread[t]
             n == Len(sessions) + 1
             dead == Adopted(r.universe, r.animation, r.entire)
  <2>1. /\ r.pc = "register"
        /\ RegisterSession(r.universe, r.animation, r.reason, r.entire)
        /\ Goto(t, [r EXCEPT !.session = n, !.pc = "running", !.victims = dead])
        /\ UNCHANGED <<eventVars, endVars, creatureVars, bound>>
    BY <1>3 DEF ScheduleRegister, At
  <2>2. r.victims = {} /\ Knows(r, Session) /\ r \in ThreadRecord
    BY <2>1, NothingToNotify DEF ThreadsTyped, Notifying
  <2>3. r.universe \in Universe /\ r.reason \in Reason /\ r.entire \in BOOLEAN
    BY <2>2 DEF ThreadRecord
  <2>4. r.animation \in Animation
    BY <2>1, <2>2 DEF Knows
  <2>5. n \notin Session /\ Session' = Session \cup {n}
    BY <2>1, <2>3, <2>4, RegisterProperties
  <2>6. n \in Nat /\ Session \subseteq Nat
    BY LenProperties DEF TypeOK, Session
  <2>7. dead \subseteq Session
    BY <2>3 DEF Adopted, Live, TypeOK
  <2>8. PICK q : q = [r EXCEPT !.session = n, !.pc = "running", !.victims = dead]
    OBVIOUS
  <2>9. PICK m : m = n
    OBVIOUS
  <2>10. PICK dd : dd = dead
    OBVIOUS
  <2>11. q = [r EXCEPT !.session = m, !.pc = "running", !.victims = dd]
    BY <2>8, <2>9, <2>10
  <2>12. m \in Nat /\ dd \in SUBSET Nat /\ "running" \in Counter
    BY <2>6, <2>7, <2>9, <2>10 DEF Counter
  <2> HIDE DEF n, dead
  <2>13. q \in ThreadRecord
    BY <2>2, <2>11, <2>12 DEF ThreadRecord
  <2>14. /\ q.pc = "running" /\ q.session = m /\ q.victims = dd /\ q.universe = r.universe
         /\ q.ret = r.ret /\ q.status = r.status
    BY <2>2, <2>11 DEF ThreadRecord
  <2>15. Knows(q, Session')
    BY <2>1, <2>2, <2>5, <2>7, <2>9, <2>10, <2>14 DEF Knows, OnSession, Working, Finishing, Notifying
  <2>16. Moves(t, q)
    BY <2>1, <2>8, <2>13, <2>15 DEF Moves, Goto, bound
  <2>17. Registers(t, q)
    BY <2>1, <2>2, <2>4, <2>9, <2>10, <2>14 DEF Registers, n, dead, eventVars, endVars
  <2>18. [Next]_smVars
    BY <2>1, <2>3, <2>4 DEF Next, SessionStep
  <2> QED
    BY <2>13, <2>16, <2>17, <2>18 DEF Effective, Effect
<1> QED
  BY <1>1, <1>2, <1>3

-----------------------------------------------------------------------------
(* The next victim is one of the victims. *)
LEMMA SmallestIsIn ==
  ASSUME NEW S \in SUBSET Nat, S # {}
  PROVE  Smallest(S) \in S
<1>1. PICK R : R = OpToRel(<, Nat)
  OBVIOUS
<1>2. IsWellFoundedOn(R, Nat)
  BY <1>1, NatLessThanWellFounded
<1>3. PICK x \in S : \A y \in S : ~ (<<y, x>> \in R)
  BY <1>2, WFMin
<1>4. ASSUME NEW y \in S
      PROVE  x <= y
  <2>1. x \in Nat /\ y \in Nat /\ ~ (<<y, x>> \in R)
    BY <1>3
  <2>2. ~ (y < x)
    BY <1>1, <2>1 DEF OpToRel
  <2> QED
    BY <2>1, <2>2
<1> QED
  BY <1>4 DEF Smallest

(* Where a thread that worked on a session goes when it lets go of it.     *)
LEMMA ReturnsFromWork ==
  ASSUME ThreadsTyped, NEW t \in Thread, NEW outcome \in {"ok", "Conflict", "Error"}, NEW q,
         thread[t].victims = {},
         q = Ready \/ q = Returned(thread[t], outcome), Goto(t, q), Session' = Session,
         UNCHANGED workload
  PROVE  /\ q \in ThreadRecord /\ Moves(t, q) /\ Knows(q, Session)
         /\ q.pc \notin Working \cup Finishing \cup {"cancel"}
         /\ q.victims = {}
<1>1. thread[t] \in ThreadRecord /\ Knows(thread[t], Session)
  BY DEF ThreadsTyped
<1>2. Knows(Ready, Session) /\ Ready.pc \notin Working \cup Finishing \cup {"cancel"}
  <2>1. Ready.pc \in Plain
    BY ReadyTyped DEF Plain, Counter, Working, Finishing
  <2> QED
    BY <2>1, ReadyTyped, PlainKnows
<1>3. /\ q \in ThreadRecord /\ Knows(q, Session)
      /\ q.pc \notin Working \cup Finishing \cup {"cancel"} /\ q.victims = {}
  BY <1>1, <1>2, ReadyTyped, ReturnedTyped
<1> QED
  BY <1>3 DEF Moves, Goto

(* A jump from work to work. *)
LEMMA JumpsAtWork ==
  ASSUME ThreadsTyped, NEW t \in Thread, NEW pc \in Working, Jump(t, pc),
         pc \in {"publish", "unwind", "abort"} \/ thread[t].ret # "load",
         thread[t].pc \in Working, thread[t].victims = {}, Session' = Session, UNCHANGED workload
  PROVE  \E q \in ThreadRecord : Moves(t, q) /\ SameWork(t, q) /\ q.pc = pc
<1>1. PICK q : q = [thread[t] EXCEPT !.pc = pc]
  OBVIOUS
<1>2. pc \in Counter
  BY DEF Working, Counter
<1>3. /\ q \in ThreadRecord /\ thread' = [thread EXCEPT ![t] = q]
      /\ q.pc = pc /\ q.session = thread[t].session /\ q.universe = thread[t].universe
      /\ q.ret = thread[t].ret /\ q.victims = {} /\ q.status = thread[t].status
  BY <1>1, <1>2, JumpMoves
<1>4. Knows(thread[t], Session)
  BY DEF ThreadsTyped
<1>5. pc \notin {"cancel", "schedule", "register", "start playlist", "start status", "backstop", "status"}
  BY DEF Working
<1>6. Knows(q, Session)
  BY <1>3, <1>4, <1>5 DEF Knows, OnSession
<1> QED
  BY <1>3, <1>6 DEF Moves, SameWork

\* The registered sessions are those the vector holds.
LEMMA SessionUnchanged == UNCHANGED sessions => Session' = Session
BY DEF Session

(* What the thread is doing and knows at a working counter. *)
LEMMA AtWork ==
  ASSUME TypeOK, ThreadsTyped, NEW t \in Thread, thread[t].pc \in Working
  PROVE  /\ thread[t] \in ThreadRecord /\ thread[t].universe \in Universe
         /\ thread[t].session \in Session /\ thread[t].session \in Nat
         /\ thread[t].pc # "running" => thread[t].victims = {}
         /\ thread[t].ret = "load" => thread[t].pc \in {"load", "publish", "unwind", "abort"}
<1>1. thread[t] \in ThreadRecord /\ Knows(thread[t], Session)
  BY DEF ThreadsTyped
<1> QED
  BY <1>1 DEF ThreadRecord, Knows, OnSession, Working, Notifying

\* So has the work on a registered session, with its victims and its unwinding.
LEMMA WorkEffects ==
  ASSUME TypeOK, ThreadsTyped, NEW t \in Thread,
         \/ ScheduleRunning(t) \/ ScheduleStart(t) \/ ScheduleSubmit(t)
         \/ ScheduleSubmitRejected(t) \/ LoaderLoaded(t) \/ LoaderPublish(t) \/ LoaderFail(t)
         \/ Unwind(t) \/ UnwindAbort(t) \/ UnwindReplaced(t)
  PROVE  Effective
<1>1. ASSUME ScheduleRunning(t)
      PROVE  Effective
  <2>1. /\ thread[t].pc = "running" /\ thread[t].victims = {}
        /\ Jump(t, IF thread[t].animation \in Sound THEN "submit" ELSE "start")
        /\ UNCHANGED <<owned, workload>> /\ UNCHANGED smVars
    BY <1>1 DEF ScheduleRunning, Notified, At, owned, smVars, eventVars, endVars, bound
  <2>2. PICK pc \in {"submit", "start"} : Jump(t, pc)
    BY <2>1
  <2>3. pc \in Working /\ thread[t].pc \in Working /\ Session' = Session /\ pc # "abort"
    BY <2>1, SessionUnchanged DEF Working, owned
  <2>4. thread[t].ret # "load"
    BY <2>1, <2>3, AtWork
  <2>5. PICK q \in ThreadRecord : Moves(t, q) /\ SameWork(t, q) /\ q.pc = pc
    BY <2>1, <2>2, <2>3, <2>4, JumpsAtWork
  <2>6. Carries(t, q)
    BY <2>1, <2>3, <2>5 DEF Carries
  <2> QED
    BY <2>1, <2>5, <2>6 DEF Effective, Effect
<1>2. ASSUME ScheduleStart(t) \/ LoaderPublish(t)
      PROVE  Effective
  <2>1. /\ thread[t].pc \in {"start", "publish"} /\ PushRunner(thread[t].session)
        /\ Goto(t, Returned(thread[t], "ok")) \/ Goto(t, Ready)
        /\ UNCHANGED <<sessions, active, ended, finished, loading, workload>> /\ UNCHANGED smVars
    BY <1>2 DEF ScheduleStart, LoaderPublish, At, smVars, endVars, bound
  <2>2. thread[t].victims = {} /\ thread[t].pc \in Working /\ Session' = Session
    BY <2>1, AtWork, SessionUnchanged DEF Working
  <2>3. PICK q : (q = Ready \/ q = Returned(thread[t], "ok")) /\ Goto(t, q)
    BY <2>1
  <2>4. /\ q \in ThreadRecord /\ Moves(t, q)
        /\ q.pc \notin Working \cup Finishing \cup {"cancel"} /\ q.victims = {}
    BY <2>1, <2>2, <2>3, ReturnsFromWork
  <2>5. HandsToRunner(t, q)
    BY <2>1, <2>2, <2>4 DEF HandsToRunner, Leaves
  <2> QED
    BY <2>1, <2>4, <2>5 DEF Effective, Effect
<1>3. ASSUME ScheduleSubmit(t)
      PROVE  Effective
  <2>1. /\ thread[t].pc = "submit" /\ loading' = loading \cup {thread[t].session}
        /\ Goto(t, Returned(thread[t], "ok"))
        /\ UNCHANGED <<sessions, active, runners, ended, finished, workload>> /\ UNCHANGED smVars
    BY <1>3 DEF ScheduleSubmit, At, smVars, endVars, bound
  <2>2. thread[t].victims = {} /\ thread[t].pc \in Working /\ Session' = Session
    BY <2>1, AtWork, SessionUnchanged DEF Working
  <2>3. PICK q : q = Returned(thread[t], "ok") /\ Goto(t, q)
    BY <2>1
  <2>4. /\ q \in ThreadRecord /\ Moves(t, q)
        /\ q.pc \notin Working \cup Finishing \cup {"cancel"} /\ q.victims = {}
    BY <2>1, <2>2, <2>3, ReturnsFromWork
  <2>5. HandsToLoader(t, q)
    BY <2>1, <2>2, <2>4 DEF HandsToLoader, Leaves
  <2> QED
    BY <2>1, <2>4, <2>5 DEF Effective, Effect
<1>4. ASSUME ScheduleSubmitRejected(t) \/ LoaderFail(t)
      PROVE  Effective
  <2>1. /\ thread[t].pc \in {"submit", "load", "publish"} /\ Jump(t, "unwind")
        /\ UNCHANGED <<owned, workload>> /\ UNCHANGED smVars
    BY <1>4 DEF ScheduleSubmitRejected, LoaderFail, At, owned, smVars, eventVars, endVars, bound
  <2>2. /\ "unwind" \in Working /\ thread[t].pc \in Working /\ Session' = Session
        /\ thread[t].victims = {}
    BY <2>1, AtWork, SessionUnchanged DEF Working, owned
  <2>3. PICK q \in ThreadRecord : Moves(t, q) /\ SameWork(t, q) /\ q.pc = "unwind"
    BY <2>1, <2>2, JumpsAtWork
  <2>4. Carries(t, q)
    BY <2>1, <2>3 DEF Carries
  <2> QED
    BY <2>1, <2>3, <2>4 DEF Effective, Effect
<1>5. ASSUME LoaderLoaded(t)
      PROVE  Effective
  <2>1. /\ thread[t].pc = "load" /\ UNCHANGED <<owned, workload>> /\ UNCHANGED smVars
        /\ IF Cancelled(thread[t].session) THEN Goto(t, Ready) ELSE Jump(t, "publish")
    BY <1>5 DEF LoaderLoaded, At, owned, smVars, eventVars, endVars, bound
  <2>2. /\ "publish" \in Working /\ thread[t].pc \in Working /\ Session' = Session
        /\ thread[t].victims = {}
    BY <2>1, AtWork, SessionUnchanged DEF Working, owned
  <2>3. CASE Cancelled(thread[t].session)
    <3>1. PICK q : q = Ready /\ Goto(t, q)
      BY <2>1, <2>3
    <3>2. /\ q \in ThreadRecord /\ Moves(t, q)
          /\ q.pc \notin Working \cup Finishing \cup {"cancel"} /\ q.victims = {}
      BY <2>1, <2>2, <3>1, ReturnsFromWork
    <3>3. GivesUp(t, q)
      BY <2>1, <2>2, <2>3, <3>2 DEF GivesUp, Leaves
    <3> QED
      BY <2>1, <3>2, <3>3 DEF Effective, Effect
  <2>4. CASE ~ Cancelled(thread[t].session)
    <3>1. PICK q \in ThreadRecord : Moves(t, q) /\ SameWork(t, q) /\ q.pc = "publish"
      BY <2>1, <2>2, <2>4, JumpsAtWork
    <3>2. Carries(t, q)
      BY <2>1, <3>1 DEF Carries
    <3> QED
      BY <2>1, <3>1, <3>2 DEF Effective, Effect
  <2> QED
    BY <2>3, <2>4
<1>6. ASSUME Unwind(t)
      PROVE  Effective
  <2>1. /\ thread[t].pc = "unwind" /\ CancelQuietly(thread[t].session) /\ Jump(t, "abort")
        /\ UNCHANGED <<active, runners, ended, finished, loading, workload>>
    BY <1>6 DEF Unwind, At, CancelQuietly, eventVars, endVars, bound
  <2>2. /\ "abort" \in Working /\ thread[t].pc \in Working /\ thread[t].victims = {}
        /\ thread[t].session \in Session /\ thread[t].universe \in Universe
    BY <2>1, AtWork DEF Working
  <2>3. Session' = Session
    BY <2>1, <2>2, SetFlags DEF Session, Keeps
  <2>4. PICK q \in ThreadRecord : Moves(t, q) /\ SameWork(t, q) /\ q.pc = "abort"
    BY <2>1, <2>2, <2>3, JumpsAtWork
  <2>5. Unwinds(t, q)
    BY <2>1, <2>4 DEF Unwinds
  <2>6. [Next]_smVars
    BY <2>1, <2>2 DEF Next, SessionStep
  <2> QED
    BY <2>4, <2>5, <2>6 DEF Effective, Effect
<1>7. ASSUME UnwindAbort(t)
      PROVE  Effective
  <2> DEFINE s == thread[t].session
             u == thread[t].universe
  <2>1. /\ thread[t].pc = "abort" /\ AbortLoadingSession(u, s) /\ Jump(t, "unwound")
        /\ ended' = [ended EXCEPT ![s] = @ + 1]
        /\ s \in active[u] /\ active' = [active EXCEPT ![u] = @ \ {s}]
        /\ UNCHANGED <<sessions, runners, finished, loading, workload>>
    BY <1>7 DEF UnwindAbort, At, AbortLoadingSession, eventVars, bound
  <2>2. thread[t].pc \in Working /\ thread[t].victims = {} /\ s \in Session /\ u \in Universe
    BY <2>1, AtWork DEF Working
  <2>3. Session' = Session /\ "unwound" \in Counter /\ Knows(thread[t], Session)
    BY <2>1, SessionUnchanged DEF Counter, ThreadsTyped
  <2>4. PICK q : q = [thread[t] EXCEPT !.pc = "unwound"]
    OBVIOUS
  <2>5. /\ q \in ThreadRecord /\ thread' = [thread EXCEPT ![t] = q] /\ q.pc = "unwound"
        /\ q.ret = thread[t].ret /\ q.victims = {} /\ q.status = thread[t].status
    BY <2>1, <2>2, <2>3, <2>4, JumpMoves
  <2>6. Knows(q, Session)
    BY <2>3, <2>5 DEF Knows, OnSession, Working, Finishing
  <2>7. Moves(t, q)
    BY <2>1, <2>3, <2>5, <2>6 DEF Moves
  <2>8. TearsDown(t, q)
    BY <2>1, <2>2, <2>5 DEF TearsDown, Leaves, Working, Finishing
  <2>9. [Next]_smVars
    BY <2>1, <2>2 DEF Next, SessionStep
  <2> QED
    BY <2>5, <2>7, <2>8, <2>9 DEF Effective, Effect
<1>8. ASSUME UnwindReplaced(t)
      PROVE  Effective
  <2>1. /\ thread[t].pc = "abort" /\ thread[t].session \notin active[thread[t].universe]
        /\ Goto(t, Ready) \/ Goto(t, Returned(thread[t], "Error"))
        /\ UNCHANGED <<owned, workload>> /\ UNCHANGED smVars
    BY <1>8 DEF UnwindReplaced, At, owned, smVars, eventVars, endVars, bound
  <2>2. thread[t].victims = {} /\ thread[t].pc \in Working /\ Session' = Session
    BY <2>1, AtWork, SessionUnchanged DEF Working, owned
  <2>3. PICK q : (q = Ready \/ q = Returned(thread[t], "Error")) /\ Goto(t, q)
    BY <2>1
  <2>4. /\ q \in ThreadRecord /\ Moves(t, q)
        /\ q.pc \notin Working \cup Finishing \cup {"cancel"} /\ q.victims = {}
    BY <2>1, <2>2, <2>3, ReturnsFromWork
  <2>5. GivesUp(t, q)
    BY <2>1, <2>2, <2>4 DEF GivesUp, Leaves
  <2> QED
    BY <2>1, <2>4, <2>5 DEF Effective, Effect
<1> QED
  BY <1>1, <1>2, <1>3, <1>4, <1>5, <1>6, <1>7, <1>8


\* So has handing the session over, to a runner or to the loader.
LEMMA HandOverEffects ==
  ASSUME TypeOK, ThreadsTyped, loading \subseteq Session, NEW t \in Thread,
         NotifyVictim(t) \/ LoaderTake(t)
  PROVE  Effective
<1>1. ASSUME NotifyVictim(t)
      PROVE  Effective
  <2>1. PICK s : s = Smallest(thread[t].victims)
    OBVIOUS
  <2>2. /\ thread[t].victims # {} /\ PushRunner(s)
        /\ thread' = [thread EXCEPT ![t].victims = @ \ {s}]
        /\ UNCHANGED <<sessions, active, ended, finished, loading, workload>> /\ UNCHANGED smVars
    BY <1>1, <2>1 DEF NotifyVictim, smVars, endVars, bound
  <2>3. thread[t] \in ThreadRecord /\ Knows(thread[t], Session)
    BY DEF ThreadsTyped
  <2>4. thread[t].victims \in SUBSET Nat
    BY <2>3 DEF ThreadRecord
  <2>5. s \in thread[t].victims
    BY <2>1, <2>2, <2>4, SmallestIsIn
  <2>6. PICK q : q = [thread[t] EXCEPT !.victims = @ \ {s}]
    OBVIOUS
  <2>7. q = [thread[t] EXCEPT !.victims = thread[t].victims \ {s}]
    BY <2>6
  <2>8. q \in ThreadRecord
    BY <2>3, <2>7 DEF ThreadRecord
  <2>9. /\ q.pc = thread[t].pc /\ q.session = thread[t].session
        /\ q.universe = thread[t].universe /\ q.ret = thread[t].ret
        /\ q.victims = thread[t].victims \ {s} /\ q.status = thread[t].status
        /\ q.animation = thread[t].animation
    BY <2>3, <2>7 DEF ThreadRecord
  <2>10. thread' = [thread EXCEPT ![t] = q]
    BY <2>2, <2>6
  <2>11. Knows(q, Session) /\ Session' = Session
    BY <2>2, <2>3, <2>9, SessionUnchanged DEF Knows
  <2>12. Moves(t, q)
    BY <2>2, <2>8, <2>10, <2>11 DEF Moves
  <2>13. Notifies(t, q)
    BY <2>2, <2>5, <2>9 DEF Notifies
  <2> QED
    BY <2>2, <2>8, <2>12, <2>13 DEF Effective, Effect
<1>2. ASSUME LoaderTake(t)
      PROVE  Effective
  <2>1. /\ thread[t].pc = "ready"
        /\ UNCHANGED <<sessions, active, runners, ended, finished, workload>> /\ UNCHANGED smVars
    BY <1>2 DEF LoaderTake, At, smVars, endVars, bound
  <2>2. PICK s \in loading :
          /\ loading' = loading \ {s}
          /\ IF Cancelled(s) THEN UNCHANGED thread
             ELSE Goto(t, [Ready EXCEPT !.pc = "load", !.session = s, !.ret = "load",
                                        !.universe = sessions[s].universe])
    BY <1>2 DEF LoaderTake
  <2>3. thread[t] \in ThreadRecord /\ Knows(thread[t], Session) /\ thread[t].victims = {}
    BY <2>1, NothingToNotify DEF ThreadsTyped, Notifying
  <2>4. Session' = Session
    BY <2>1, SessionUnchanged
  <2>5. CASE Cancelled(s)
    <3>1. PICK q : q = thread[t]
      OBVIOUS
    <3>2. q \in ThreadRecord /\ Moves(t, q)
      <4>1. thread' = [thread EXCEPT ![t] = q]
        BY <2>2, <2>5, <3>1 DEF ThreadsTyped
      <4> QED
        BY <2>1, <2>3, <2>4, <3>1, <4>1 DEF Moves
    <3>3. TakesUp(t, q)
      BY <2>1, <2>2, <2>3, <2>5, <3>1 DEF TakesUp
    <3> QED
      BY <2>1, <3>2, <3>3 DEF Effective, Effect
  <2>6. CASE ~ Cancelled(s)
    <3>1. s \in Session /\ s \in Nat /\ sessions[s].universe \in Universe
      <4>1. s \in Session /\ sessions \in Seq(SessionRecord)
        BY <2>2 DEF TypeOK
      <4>2. sessions[s] \in SessionRecord /\ s \in Nat
        BY <4>1, LenProperties DEF Session
      <4> QED
        BY <4>1, <4>2 DEF SessionRecord
    <3>2. PICK u \in Universe : u = sessions[s].universe
      BY <3>1
    <3>3. PICK q : q = [Ready EXCEPT !.pc = "load", !.session = s, !.ret = "load", !.universe = u]
      OBVIOUS
    <3>4. Ready \in ThreadRecord /\ Ready.victims = {} /\ "load" \in Counter /\ "load" \in Return
      BY ReadyTyped DEF Counter, Return
    <3>5. q \in ThreadRecord
      BY <3>1, <3>3, <3>4 DEF ThreadRecord
    <3>6. q.pc = "load" /\ q.session = s /\ q.ret = "load" /\ q.universe = u /\ q.victims = {}
      BY <3>3, <3>4 DEF ThreadRecord
    <3>7. Goto(t, q)
      BY <2>2, <2>6, <3>2, <3>3
    <3>8. Knows(q, Session)
      BY <3>1, <3>6 DEF Knows
    <3>9. Moves(t, q)
      BY <2>1, <2>4, <3>5, <3>7, <3>8 DEF Moves, Goto
    <3>10. TakesUp(t, q)
      BY <2>1, <2>2, <2>3, <3>2, <3>6 DEF TakesUp
    <3> QED
      BY <2>1, <3>5, <3>9, <3>10 DEF Effective, Effect
  <2> QED
    BY <2>5, <2>6
<1> QED
  BY <1>1, <1>2

\* A step outside the registry's sessions: the thread passes.
LEMMA PassesQuietly ==
  ASSUME ThreadsTyped, NEW t \in Thread, NEW q, Goto(t, q), q \in ThreadRecord,
         q.pc \in Plain, q.ret = "ready", q.victims = {},
         thread[t].pc \notin Working \cup Notifying, UNCHANGED <<owned, workload>>
  PROVE  \E p \in ThreadRecord : Moves(t, p) /\ Effect(t, p)
<1>1. thread[t].victims = {}
  BY NothingToNotify
<1> QED
  BY <1>1, PlainKnows, GotoPasses

\* So have the idle restarts and the ends of playlist requests.
LEMMA IdleEffects ==
  ASSUME TypeOK, ThreadsTyped, NEW t \in Thread,
         Unwound(t) \/ StartIdle(t) \/ IdleDone(t) \/ PlaylistClear(t) \/ PlaylistRetry(t)
  PROVE  Effective
<1>r. thread[t] \in ThreadRecord /\ Knows(thread[t], Session) /\ thread[t].universe \in Universe
      /\ thread[t].idles \in SUBSET Creature
  BY DEF ThreadsTyped, ThreadRecord
<1>1. ASSUME Unwound(t)
      PROVE  Effective
  <2>1. /\ thread[t].pc = "unwound" /\ Goto(t, Returned(thread[t], "Error"))
        /\ UNCHANGED <<owned, workload>> /\ UNCHANGED smVars
    BY <1>1 DEF Unwound, At, owned, smVars, eventVars, endVars, bound
  <2>2. thread[t].victims = {}
    BY <2>1, NothingToNotify DEF Notifying
  <2>3. PICK q : q = Returned(thread[t], "Error")
    OBVIOUS
  <2>4. /\ q \in ThreadRecord /\ Knows(q, Session) /\ q.victims = {}
        /\ q.pc \notin Working \cup Finishing \cup {"cancel"}
    BY <1>r, <2>2, <2>3, ReturnedTyped
  <2>5. Goto(t, q) /\ thread[t].pc \notin Working
    BY <2>1, <2>3 DEF Working
  <2>6. \E p \in ThreadRecord : Moves(t, p) /\ Effect(t, p)
    BY <2>1, <2>2, <2>4, <2>5, GotoPasses
  <2> QED
    BY <2>1, <2>6 DEF Effective
<1>2. ASSUME StartIdle(t)
      PROVE  Effective
  <2>1. /\ thread[t].pc = "idle" /\ UNCHANGED <<owned, workload>> /\ UNCHANGED smVars
    BY <1>2 DEF StartIdle, At, owned, smVars, eventVars, endVars, bound
  <2>2. thread[t].victims = {} /\ thread[t].pc \notin Working /\ thread[t].ret # "load"
        /\ thread[t].pc \notin OnSession
    BY <1>r, <2>1, NothingToNotify DEF Notifying, Working, Knows, OnSession, Finishing
  <2>3. PICK c \in thread[t].idles :
          LET rest == [thread[t] EXCEPT !.idles = @ \ {c}]
          IN  Goto(t, IF NeedsIdle(Home[c], c) /\ ~Occupied(thread[t], c)
                      THEN [rest EXCEPT !.pc = "schedule", !.universe = Home[c], !.ret = "idle",
                                        !.animation = IdleAnimation[c], !.reason = "Idle"]
                      ELSE rest)
    BY <1>2 DEF StartIdle
  <2>4. PICK rest : rest = [thread[t] EXCEPT !.idles = thread[t].idles \ {c}]
    OBVIOUS
  <2>5. rest \in ThreadRecord
    BY <1>r, <2>4 DEF ThreadRecord
  <2>6. /\ rest.pc = "idle" /\ rest.ret = thread[t].ret /\ rest.victims = {}
        /\ rest.status = thread[t].status
    BY <1>r, <2>1, <2>2, <2>4 DEF ThreadRecord
  <2>7. Knows(rest, Session)
    BY <1>r, <2>1, <2>2, <2>6 DEF Knows, OnSession
  <2>8. CASE ~ (NeedsIdle(Home[c], c) /\ ~Occupied(thread[t], c))
    <3>1. Goto(t, rest)
      BY <2>3, <2>4, <2>8
    <3>2. rest.pc \notin Working \cup Finishing \cup {"cancel"}
      BY <2>6 DEF Working, Finishing
    <3>3. \E p \in ThreadRecord : Moves(t, p) /\ Effect(t, p)
      BY <2>1, <2>2, <2>5, <2>6, <2>7, <3>1, <3>2, GotoPasses
    <3> QED
      BY <2>1, <3>3 DEF Effective
  <2>9. CASE NeedsIdle(Home[c], c) /\ ~Occupied(thread[t], c)
    <3>1. c \in Creature /\ c \in DOMAIN IdleAnimation
      BY <1>r, <2>9 DEF NeedsIdle
    <3>2. Home[c] \in Universe /\ IdleAnimation[c] \in Animation
      BY <3>1, PlaybackAssumption
    <3>3. PICK u \in Universe, a \in Animation : u = Home[c] /\ a = IdleAnimation[c]
      BY <3>2
    <3>4. PICK q : q = [rest EXCEPT !.pc = "schedule", !.universe = u, !.ret = "idle",
                                    !.animation = a, !.reason = "Idle"]
      OBVIOUS
    <3>5. "schedule" \in Counter /\ "idle" \in Return /\ "Idle" \in Reason
      BY DEF Counter, Return, Reason
    <3>6. q \in ThreadRecord
      BY <2>5, <3>4, <3>5 DEF ThreadRecord
    <3>7. /\ q.pc = "schedule" /\ q.ret = "idle" /\ q.victims = {} /\ q.animation = a
          /\ q.status = rest.status
      BY <2>5, <2>6, <3>4 DEF ThreadRecord
    <3>8. Goto(t, q)
      BY <2>3, <2>4, <2>9, <3>3, <3>4
    <3>9. Knows(q, Session)
      BY <3>7 DEF Knows, OnSession, Working, Finishing
    <3>10. q.pc \notin Working \cup Finishing \cup {"cancel"}
      BY <3>7 DEF Working, Finishing
    <3>11. \E p \in ThreadRecord : Moves(t, p) /\ Effect(t, p)
      BY <2>1, <2>2, <3>6, <3>7, <3>8, <3>9, <3>10, GotoPasses
    <3> QED
      BY <2>1, <3>11 DEF Effective
  <2> QED
    BY <2>8, <2>9
<1>3. ASSUME IdleDone(t) \/ PlaylistRetry(t)
      PROVE  Effective
  <2>1. /\ thread[t].pc \in {"idle", "retry"} /\ Goto(t, Ready)
        /\ UNCHANGED <<owned, workload>> /\ UNCHANGED smVars
    BY <1>3 DEF IdleDone, PlaylistRetry, At, owned, smVars, eventVars, endVars, bound
  <2>2. thread[t].pc \notin Working \cup Notifying
    BY <2>1 DEF Working, Notifying
  <2>3. Ready \in ThreadRecord /\ Ready.pc \in Plain /\ Ready.ret = "ready" /\ Ready.victims = {}
    BY ReadyTyped DEF Plain, Counter, Working, Finishing
  <2>4. \E p \in ThreadRecord : Moves(t, p) /\ Effect(t, p)
    BY <2>1, <2>2, <2>3, PassesQuietly
  <2> QED
    BY <2>1, <2>4 DEF Effective
<1>4. ASSUME PlaylistClear(t)
      PROVE  Effective
  <2>1. /\ thread[t].pc = "clearPlaylist" /\ thread[t].victims = {} /\ Goto(t, Ready)
        /\ ClearPlaylist(thread[t].universe) /\ UNCHANGED <<owned, workload>>
    BY <1>4 DEF PlaylistClear, Notified, At, owned, ClearPlaylist, eventVars, endVars, bound
  <2>2. thread[t].pc \notin Working
    BY <2>1 DEF Working
  <2>3. Ready \in ThreadRecord /\ Ready.pc \in Plain /\ Ready.ret = "ready" /\ Ready.victims = {}
    BY ReadyTyped DEF Plain, Counter, Working, Finishing
  <2>4. \E p \in ThreadRecord : Moves(t, p) /\ Effect(t, p)
    BY <2>1, <2>2, <2>3, PlainKnows, GotoPasses
  <2>5. [Next]_smVars
    BY <1>r, <2>1 DEF Next, PlaylistStep
  <2> QED
    BY <2>4, <2>5 DEF Effective
<1> QED
  BY <1>1, <1>2, <1>3, <1>4


\* So has taking a runner event.
LEMMA RunnerEffects ==
  ASSUME TypeOK, ThreadsTyped, NEW s \in Session, RunnerStep(s)
  PROVE  Effective
<1>1. Loop \in Thread /\ thread[Loop] \in ThreadRecord /\ Knows(thread[Loop], Session)
  BY DEF ThreadsTyped, Thread
<1>2. /\ thread[Loop].pc = "ready" /\ TakeRunner(s) /\ UNCHANGED <<active, loading, workload>>
      /\ UNCHANGED smVars \/ CancelDirect(s)
  BY DEF RunnerStep, RunnerLate, RunnerCancelled, RunnerFinished, RunnerFailed, TakeRunner, At,
         smVars, bound, CancelDirect
<1>3. thread[Loop].victims = {}
  BY <1>1, <1>2, NothingToNotify DEF Notifying
<1>4. [Next]_smVars
  <2>1. PICK u \in Universe : TRUE
    BY PlaybackAssumption
  <2> QED
    BY <1>2, <2>1 DEF Next, SessionStep
<1>5. Session' = Session
  BY <1>2, SetFlags DEF Keeps, Session, smVars
<1>6. ASSUME RunnerLate(s)
      PROVE  Effective
  <2>1. s \in finished /\ UNCHANGED thread /\ UNCHANGED <<sessions, active, ended, finished, loading>>
    BY <1>6 DEF RunnerLate, smVars, endVars
  <2>2. PICK q : q = thread[Loop]
    OBVIOUS
  <2>3. thread' = [thread EXCEPT ![Loop] = q]
    BY <2>1, <2>2 DEF ThreadsTyped
  <2>4. q \in ThreadRecord /\ Moves(Loop, q)
    BY <1>1, <1>2, <1>5, <2>2, <2>3 DEF Moves
  <2>5. RunsLate(Loop, q)
    BY <1>2, <2>1, <2>2 DEF RunsLate
  <2> QED
    BY <1>1, <1>4, <2>4, <2>5 DEF Effective, Effect
<1>7. ASSUME NEW pc \in {"clearCancelled", "onFinish"}, Goto(Loop, InRunner(s, pc)),
             s \notin finished, Claim(s), UNCHANGED sessions \/ CancelDirect(s)
      PROVE  Effective
  <2>1. sessions[s].universe \in Universe /\ s \in Nat
    <3>1. sessions \in Seq(SessionRecord)
      BY DEF TypeOK
    <3>2. sessions[s] \in SessionRecord /\ s \in Nat
      BY <3>1, LenProperties DEF Session
    <3> QED
      BY <3>2 DEF SessionRecord
  <2>2. PICK u \in Universe : u = sessions[s].universe
    BY <2>1
  <2>3. PICK q : q = [Ready EXCEPT !.pc = pc, !.session = s, !.universe = u]
    OBVIOUS
  <2>4. Ready \in ThreadRecord /\ Ready.victims = {} /\ Ready.ret = "ready" /\ pc \in Counter
    BY ReadyTyped DEF Counter
  <2>5. q \in ThreadRecord
    <3>1. [Ready EXCEPT !.pc = pc, !.session = s, !.universe = u] \in ThreadRecord
      BY <2>1, <2>4 DEF ThreadRecord
    <3> QED
      BY <2>3, <3>1
  <2>6. q.pc = pc /\ q.session = s /\ q.ret = "ready" /\ q.victims = {}
    BY <2>3, <2>4 DEF ThreadRecord
  <2>7. Goto(Loop, q)
    BY <1>7, <2>2, <2>3 DEF InRunner
  <2>8. Knows(q, Session)
    BY <2>6 DEF Knows
  <2>9. Moves(Loop, q)
    BY <1>2, <1>5, <2>5, <2>7, <2>8 DEF Moves, Goto
  <2>10. Completes(Loop, q)
    BY <1>2, <1>3, <1>7, <2>6 DEF Completes, Finishing
  <2> QED
    BY <1>1, <1>4, <2>5, <2>9, <2>10 DEF Effective, Effect
<1> QED
  BY <1>6, <1>7 DEF RunnerStep, RunnerCancelled, RunnerFinished, RunnerFailed, smVars

\* The loop jumps to a plain counter, with a step of the registry or none.
LEMMA LoopJumps ==
  ASSUME ThreadsTyped, NEW pc \in Plain, Jump(Loop, pc),
         thread[Loop].pc \notin Working \cup Notifying \cup {"unwound"},
         UNCHANGED <<owned, workload>>, [Next]_smVars
  PROVE  Effective
<1>1. Loop \in Thread
  BY DEF Thread
<1>2. Unburdened(Loop)
  BY <1>1, NothingToNotify DEF Unburdened
<1> QED
  BY <1>1, <1>2, JumpPasses DEF Effective

\* The loop goes to a new record, with a step of the registry or none.
LEMMA LoopGoes ==
  ASSUME ThreadsTyped, NEW q, Goto(Loop, q), q \in ThreadRecord,
         Knows(q, Session), q.victims = {}, q.pc \notin Working \cup Finishing \cup {"cancel"},
         thread[Loop].pc \notin Working \cup Notifying,
         UNCHANGED <<owned, workload>>, [Next]_smVars
  PROVE  Effective
<1>1. Loop \in Thread
  BY DEF Thread
<1>2. thread[Loop].victims = {}
  BY <1>1, NothingToNotify
<1> QED
  BY <1>1, <1>2, GotoPasses DEF Effective

\* So has every step of a completion and of onFinish.
LEMMA FinishEffects ==
  ASSUME TypeOK, ThreadsTyped,
         \/ ClearCancelled \/ CancelledDone \/ OnFinish \/ FinishCancelled \/ FinishClear
         \/ FinishQueued \/ FinishNothingQueued \/ FinishInterrupted \/ FinishConsume
         \/ FinishResumed \/ FinishChain \/ RunnerAfter \/ RunnerToIdle
  PROVE  Effective
<1>1. /\ Loop \in Thread /\ thread[Loop] \in ThreadRecord /\ Knows(thread[Loop], Session)
      /\ thread[Loop].universe \in Universe /\ thread[Loop].session \in Nat
  BY DEF ThreadsTyped, Thread, ThreadRecord
<1>2. ASSUME NEW pc \in {"cancelledDone", "after", "queue"},
             thread[Loop].pc \in Finishing, ClearSession(thread[Loop].universe, thread[Loop].session),
             Jump(Loop, pc), UNCHANGED <<eventVars, endVars, creatureVars, bound>>
      PROVE  Effective
  <2>1. thread[Loop].victims = {} /\ thread[Loop].session \in Session
    BY <1>1, <1>2, NothingToNotify DEF Notifying, Finishing, Knows, OnSession
  <2>2. UNCHANGED <<sessions, runners, ended, finished, loading, workload>> /\ Session' = Session
    BY <1>2, SessionUnchanged DEF ClearSession, eventVars, endVars, bound
  <2>3. PICK q : q = [thread[Loop] EXCEPT !.pc = pc]
    OBVIOUS
  <2>4. pc \in Counter
    BY DEF Counter
  <2>5. /\ q \in ThreadRecord /\ thread' = [thread EXCEPT ![Loop] = q] /\ q.pc = pc
        /\ q.ret = thread[Loop].ret /\ q.victims = {} /\ q.status = thread[Loop].status
    BY <1>1, <1>2, <2>1, <2>3, <2>4, JumpMoves
  <2>6. Knows(q, Session) /\ q.pc \notin Working \cup Finishing \cup {"cancel"}
    BY <1>1, <1>2, <2>5 DEF Knows, OnSession, Working, Finishing
  <2>7. Moves(Loop, q)
    BY <2>2, <2>5, <2>6 DEF Moves
  <2>8. Clears(Loop, q)
    BY <1>2, <2>1, <2>2, <2>5, <2>6 DEF Clears
  <2>9. [Next]_smVars
    BY <1>1, <1>2, <2>1 DEF Next, SessionStep
  <2> QED
    BY <1>1, <2>5, <2>7, <2>8, <2>9 DEF Effective, Effect
<1>3. ASSUME ClearCancelled \/ FinishCancelled \/ FinishClear
      PROVE  Effective
  BY <1>2, <1>3 DEF ClearCancelled, FinishCancelled, FinishClear, At, Finishing
<1>4. ASSUME OnFinish
      PROVE  Effective
  <2>1. /\ thread[Loop].pc = "onFinish" /\ UNCHANGED <<owned, workload>> /\ UNCHANGED smVars
        /\ Jump(Loop, IF Cancelled(thread[Loop].session) THEN "finishCancelled" ELSE "clear")
    BY <1>4 DEF OnFinish, At, owned, smVars, eventVars, endVars, bound
  <2>2. PICK pc \in {"finishCancelled", "clear"} : Jump(Loop, pc)
    BY <2>1
  <2>3. PICK q : q = [thread[Loop] EXCEPT !.pc = pc]
    OBVIOUS
  <2>4. pc \in Counter /\ thread[Loop].victims = {} /\ Session' = Session
    BY <1>1, <2>1, NothingToNotify, SessionUnchanged DEF Counter, Notifying, owned
  <2>5. /\ q \in ThreadRecord /\ thread' = [thread EXCEPT ![Loop] = q] /\ q.pc = pc
        /\ q.ret = thread[Loop].ret /\ q.victims = {} /\ q.status = thread[Loop].status
        /\ q.session = thread[Loop].session
    BY <1>1, <2>2, <2>3, <2>4, JumpMoves
  <2>6. Knows(q, Session)
    BY <1>1, <2>1, <2>5 DEF Knows, OnSession, Working, Finishing
  <2>7. Moves(Loop, q)
    BY <2>1, <2>4, <2>5, <2>6 DEF Moves
  <2>8. Passes(Loop, q)
    BY <2>1, <2>4, <2>5 DEF Passes, Working, Finishing
  <2> QED
    BY <1>1, <2>1, <2>5, <2>7, <2>8 DEF Effective, Effect
<1>5. ASSUME NEW pc \in {"interrupted?", "consume", "chain", "resumed", "after", "toIdle"},
             Jump(Loop, pc), UNCHANGED <<owned, workload>>, [Next]_smVars,
             thread[Loop].pc \in {"queue", "interrupted?", "consume", "resumed", "chain", "after"}
      PROVE  Effective
  <2>1. pc \in Plain /\ thread[Loop].pc \notin Working \cup Notifying \cup {"unwound"}
    BY <1>5 DEF Plain, Counter, Working, Finishing, Notifying
  <2> QED
    BY <1>5, <2>1, LoopJumps
<1>6. ASSUME FinishNothingQueued \/ FinishInterrupted \/ FinishResumed \/ FinishChain
      PROVE  Effective
  <2>1. UNCHANGED <<owned, workload>> /\ UNCHANGED smVars
    BY <1>6 DEF FinishNothingQueued, FinishInterrupted, FinishResumed, FinishChain, owned,
                smVars, eventVars, endVars, bound
  <2> QED
    BY <1>5, <1>6, <2>1 DEF FinishNothingQueued, FinishInterrupted, FinishResumed, FinishChain, At
<1>7. ASSUME FinishConsume
      PROVE  Effective
  <2>1. /\ thread[Loop].pc = "consume"
        /\ \E pc \in {"resumed", "after"} : Jump(Loop, pc)
        /\ \/ ConsumeResume(thread[Loop].universe) \/ ConsumeDecline(thread[Loop].universe)
           \/ UNCHANGED smVars
        /\ UNCHANGED <<runners, endVars, loading, workload>>
    BY <1>7 DEF FinishConsume, At, eventVars, bound
  <2>2. UNCHANGED <<owned, workload>>
    BY <2>1 DEF owned, smVars, endVars, ConsumeResume, ResumePlaylist, ConsumeDecline
  <2>3. [Next]_smVars
    BY <1>1, <2>1 DEF Next, PlaylistStep
  <2> QED
    BY <1>5, <2>1, <2>2, <2>3
<1>8. ASSUME FinishQueued
      PROVE  Effective
  <2> DEFINE r == thread[Loop]
             a == Head(queue[r.universe])
  <2>1. /\ r.pc = "queue" /\ PopQueuedAnimation(r.universe)
        /\ Goto(Loop, [r EXCEPT !.pc = "schedule", !.animation = a, !.reason = "AdHoc",
                                !.before = r.session, !.session = 0, !.ret = "onFinish"])
        /\ UNCHANGED <<owned, workload>>
    BY <1>8 DEF FinishQueued, At, owned, PopQueuedAnimation, eventVars, endVars, bound
  <2>2. a \in Animation
    <3>1. queue[r.universe] \in Seq(Animation) /\ queue[r.universe] # <<>>
      BY <1>1, <2>1 DEF TypeOK, PopQueuedAnimation
    <3> QED
      BY <3>1
  <2>3. PICK b \in Animation : b = a
    BY <2>2
  <2>4. PICK n \in Nat : n = r.session
    BY <1>1
  <2>5. PICK q : q = [r EXCEPT !.pc = "schedule", !.animation = b, !.reason = "AdHoc",
                               !.before = n, !.session = 0, !.ret = "onFinish"]
    OBVIOUS
  <2>6. Goto(Loop, q)
    BY <2>1, <2>3, <2>4, <2>5
  <2> HIDE DEF a
  <2>7. "schedule" \in Counter /\ "onFinish" \in Return /\ "AdHoc" \in Reason
    BY DEF Counter, Return, Reason
  <2>8. q \in ThreadRecord
    BY <1>1, <2>5, <2>7 DEF ThreadRecord
  <2>9. /\ q.pc = "schedule" /\ q.ret = "onFinish" /\ q.victims = r.victims /\ q.animation = b
    BY <1>1, <2>5 DEF ThreadRecord
  <2>10. r.victims = {}
    BY <1>1, <2>1, NothingToNotify DEF Notifying
  <2>11. Knows(q, Session)
    BY <2>9, <2>10 DEF Knows, OnSession, Working, Finishing
  <2>12. /\ q.pc \notin Working \cup Finishing \cup {"cancel"}
         /\ r.pc \notin Working \cup Notifying
    BY <2>1, <2>9 DEF Working, Finishing, Notifying
  <2>13. [Next]_smVars
    BY <1>1, <2>1 DEF Next, QueueStep
  <2> QED
    BY <2>1, <2>6, <2>8, <2>9, <2>10, <2>11, <2>12, <2>13, LoopGoes
<1>9. ASSUME NEW q, Goto(Loop, q), UNCHANGED <<owned, workload>>, [Next]_smVars,
             thread[Loop].pc \in {"cancelledDone", "after", "toIdle"},
             \/ q = Ready
             \/ \E cs \in SUBSET Creature, n \in Nat :
                  \/ q = [Ready EXCEPT !.pc = "idle", !.idles = cs]
                  \/ q = [Ready EXCEPT !.pc = "idle", !.before = n, !.idles = cs]
      PROVE  Effective
  <2>1. "idle" \in Counter
    BY DEF Counter
  <2>2. q \in ThreadRecord /\ q.pc \in {"ready", "idle"} /\ q.ret = "ready" /\ q.victims = {}
    <3>1. CASE q = Ready
      BY <3>1, ReadyTyped
    <3>2. ASSUME NEW cs \in SUBSET Creature, NEW n \in Nat,
                 \/ q = [Ready EXCEPT !.pc = "idle", !.idles = cs]
                 \/ q = [Ready EXCEPT !.pc = "idle", !.before = n, !.idles = cs]
          PROVE  q \in ThreadRecord /\ q.pc = "idle" /\ q.ret = "ready" /\ q.victims = {}
      BY <2>1, <3>2, ReadyTyped DEF ThreadRecord
    <3> QED
      BY <1>9, <3>1, <3>2
  <2>3. q.pc \in Plain
    BY <2>2 DEF Plain, Counter, Working, Finishing
  <2>4. Knows(q, Session) /\ q.pc \notin Working \cup Finishing \cup {"cancel"}
    BY <2>2, <2>3, PlainKnows
  <2>5. thread[Loop].pc \notin Working \cup Notifying
    BY <1>9 DEF Working, Notifying
  <2> QED
    BY <1>9, <2>2, <2>4, <2>5, LoopGoes
<1>10. ASSUME CancelledDone \/ RunnerToIdle
       PROVE  Effective
  <2>1. Creatures(thread[Loop].session) \in SUBSET Creature /\ thread[Loop].session \in Nat
    BY DEF Creatures, ThreadsTyped, ThreadRecord, Thread
  <2>2. /\ thread[Loop].pc \in {"cancelledDone", "toIdle"}
        /\ \E q : /\ Goto(Loop, q)
                  /\ \/ q = Ready
                     \/ q = [Ready EXCEPT !.pc = "idle", !.idles = Creatures(thread[Loop].session)]
                     \/ q = [Ready EXCEPT !.pc = "idle", !.before = thread[Loop].session,
                                          !.idles = Creatures(thread[Loop].session)]
        /\ UNCHANGED <<owned, workload>> /\ UNCHANGED smVars
    BY <1>10 DEF CancelledDone, RunnerToIdle, At, owned, smVars, eventVars, endVars, bound
  <2> QED
    BY <1>9, <2>1, <2>2
<1>11. ASSUME RunnerAfter
       PROVE  Effective
  <2>1. /\ thread[Loop].pc = "after"
        /\ Goto(Loop, Ready) \/ Jump(Loop, "toIdle")
        /\ UNCHANGED <<owned, workload>> /\ UNCHANGED smVars
    BY <1>11 DEF RunnerAfter, At, owned, smVars, eventVars, endVars, bound
  <2>2. PICK q : q = Ready
    OBVIOUS
  <2> QED
    BY <1>5, <1>9, <2>1, <2>2
<1> QED
  BY <1>3, <1>4, <1>6, <1>7, <1>8, <1>10, <1>11


\* So has every step of a playlist or timeout event.
LEMMA EventEffects ==
  ASSUME TypeOK, ThreadsTyped,
         \/ \E u \in Universe : TakePlaylistEvent(u)
         \/ PlaylistBusy \/ PlaylistChoose \/ PlaylistUnreadable
         \/ PlaylistBackstop \/ PlaylistUpdateStatus
         \/ \E c \in Creature : StreamExpires(c)
         \/ StreamStopped
  PROVE  Effective
<1>1. /\ Loop \in Thread /\ thread[Loop] \in ThreadRecord /\ Knows(thread[Loop], Session)
      /\ thread[Loop].universe \in Universe
  BY DEF ThreadsTyped, Thread, ThreadRecord
<1>2. ASSUME NEW q, Goto(Loop, q), UNCHANGED <<owned, workload>>, [Next]_smVars,
             thread[Loop].pc \notin Working \cup Notifying,
             q \in ThreadRecord, q.pc \in Plain, q.ret = "ready", q.victims = {}
      PROVE  Effective
  <2>1. Knows(q, Session) /\ q.pc \notin Working \cup Finishing \cup {"cancel"}
    BY <1>2, PlainKnows
  <2> QED
    BY <1>2, <2>1, LoopGoes
<1>3. Ready \in ThreadRecord /\ Ready.pc = "ready" /\ Ready.ret = "ready" /\ Ready.victims = {}
  BY ReadyTyped
<1>4. {"ready", "clearPlaylist", "busy?", "choose", "idle", "expired"} \subseteq Plain
  BY DEF Plain, Counter, Working, Finishing
<1>5. ASSUME NEW u \in Universe, TakePlaylistEvent(u)
      PROVE  Effective
  <2>1. /\ thread[Loop].pc = "ready" /\ UNCHANGED <<owned, workload>> /\ UNCHANGED smVars
        /\ Goto(Loop, CASE playlistState[u] \in {"None", "Stopped"} ->
                             [Ready EXCEPT !.pc = "clearPlaylist", !.universe = u]
                        [] playlistState[u] = "Interrupted" -> Ready
                        [] playlistState[u] = "Active" -> [Ready EXCEPT !.pc = "busy?", !.universe = u])
    BY <1>5 DEF TakePlaylistEvent, At, owned, smVars, endVars, bound
  <2>2. playlistState[u] \in PlaylistState
    BY DEF TypeOK
  <2>3. \E q : /\ Goto(Loop, q)
               /\ \/ q = Ready
                  \/ q = [Ready EXCEPT !.pc = "clearPlaylist", !.universe = u]
                  \/ q = [Ready EXCEPT !.pc = "busy?", !.universe = u]
    BY <2>1, <2>2 DEF PlaylistState
  <2>4. PICK q : /\ Goto(Loop, q)
                 /\ \/ q = Ready
                    \/ q = [Ready EXCEPT !.pc = "clearPlaylist", !.universe = u]
                    \/ q = [Ready EXCEPT !.pc = "busy?", !.universe = u]
    BY <2>3
  <2>5. ASSUME NEW pc \in {"clearPlaylist", "busy?"}, q = [Ready EXCEPT !.pc = pc, !.universe = u]
        PROVE  q \in ThreadRecord /\ q.pc = pc /\ q.ret = "ready" /\ q.victims = {}
    <3>1. pc \in Counter
      BY DEF Counter
    <3>2. q \in ThreadRecord
      BY <1>3, <2>5, <3>1 DEF ThreadRecord
    <3> QED
      BY <1>3, <2>5, <3>2 DEF ThreadRecord
  <2>6. q \in ThreadRecord /\ q.pc \in Plain /\ q.ret = "ready" /\ q.victims = {}
    BY <1>3, <1>4, <2>4, <2>5
  <2>7. thread[Loop].pc \notin Working \cup Notifying
    BY <2>1 DEF Working, Notifying
  <2> QED
    BY <1>2, <2>1, <2>4, <2>6, <2>7
<1>6. ASSUME PlaylistBusy
      PROVE  Effective
  <2>1. /\ thread[Loop].pc = "busy?" /\ UNCHANGED <<owned, workload>> /\ UNCHANGED smVars
        /\ Goto(Loop, IF HasActiveNonIdleSession(thread[Loop].universe) THEN Ready
                      ELSE [thread[Loop] EXCEPT !.pc = "choose"])
    BY <1>6 DEF PlaylistBusy, At, owned, smVars, endVars, bound
  <2>2. thread[Loop].pc \notin Working \cup Notifying \cup {"unwound"}
    BY <2>1 DEF Working, Notifying
  <2>3. CASE Goto(Loop, Ready)
    BY <1>2, <1>3, <1>4, <2>1, <2>2, <2>3
  <2>4. CASE Goto(Loop, [thread[Loop] EXCEPT !.pc = "choose"])
    <3>1. Jump(Loop, "choose")
      BY <2>4 DEF Jump, Goto
    <3> QED
      BY <1>4, <2>1, <2>2, <3>1, LoopJumps
  <2> QED
    BY <2>1, <2>3, <2>4
<1>7. ASSUME PlaylistChoose
      PROVE  Effective
  <2> DEFINE r == thread[Loop]
             status == playlistStatus[r.universe]
  <2>1. /\ r.pc = "choose" /\ status # NoStatus /\ UNCHANGED <<owned, workload>> /\ UNCHANGED smVars
        /\ \E a \in Items[status.playlist] :
             Goto(Loop, [r EXCEPT !.pc = "schedule", !.animation = a, !.reason = "Playlist",
                                  !.ret = "playlist", !.status = status])
    BY <1>7 DEF PlaylistChoose, At, owned, smVars, eventVars, endVars, bound
  <2>2. status \in Status
    BY <1>1, <2>1 DEF TypeOK
  <2>3. Items[status.playlist] \subseteq Animation
    BY <2>2, PlaybackAssumption DEF Status
  <2>4. PICK g \in Status : g = status
    BY <2>2
  <2>5. PICK a \in Animation :
          Goto(Loop, [r EXCEPT !.pc = "schedule", !.animation = a, !.reason = "Playlist",
                               !.ret = "playlist", !.status = g])
    BY <2>1, <2>3, <2>4
  <2>6. PICK q : q = [r EXCEPT !.pc = "schedule", !.animation = a, !.reason = "Playlist",
                               !.ret = "playlist", !.status = g]
    OBVIOUS
  <2>7. "schedule" \in Counter /\ "playlist" \in Return /\ "Playlist" \in Reason
    BY DEF Counter, Return, Reason
  <2> HIDE DEF status
  <2>8. q \in ThreadRecord
    BY <1>1, <2>6, <2>7 DEF ThreadRecord
  <2>9. /\ q.pc = "schedule" /\ q.ret = "playlist" /\ q.victims = r.victims /\ q.animation = a
        /\ q.status = g
    BY <1>1, <2>6 DEF ThreadRecord
  <2>10. r.victims = {}
    BY <1>1, <2>1, NothingToNotify DEF Notifying
  <2>11. Knows(q, Session)
    BY <2>9, <2>10 DEF Knows, OnSession, Working, Finishing
  <2>12. /\ q.pc \notin Working \cup Finishing \cup {"cancel"}
         /\ r.pc \notin Working \cup Notifying
    BY <2>1, <2>9 DEF Working, Finishing, Notifying
  <2> QED
    BY <2>1, <2>5, <2>6, <2>8, <2>9, <2>10, <2>11, <2>12, LoopGoes
<1>8. ASSUME PlaylistUnreadable
      PROVE  Effective
  <2>1. /\ thread[Loop].pc = "choose" /\ Jump(Loop, "clearPlaylist")
        /\ UNCHANGED <<owned, workload>> /\ UNCHANGED smVars
    BY <1>8 DEF PlaylistUnreadable, At, owned, smVars, eventVars, endVars, bound
  <2>2. thread[Loop].pc \notin Working \cup Notifying \cup {"unwound"}
    BY <2>1 DEF Working, Notifying
  <2> QED
    BY <1>4, <2>1, <2>2, LoopJumps
<1>9. ASSUME PlaylistBackstop
      PROVE  Effective
  <2>1. /\ thread[Loop].pc = "backstop" /\ Jump(Loop, "status")
        /\ UNCHANGED <<owned, workload>> /\ UNCHANGED smVars
    BY <1>9 DEF PlaylistBackstop, At, owned, smVars, eventVars, endVars, bound
  <2>2. thread[Loop].victims = {}
    BY <1>1, <2>1, NothingToNotify DEF Notifying
  <2>3. PICK q : q = [thread[Loop] EXCEPT !.pc = "status"]
    OBVIOUS
  <2>4. "status" \in Counter
    BY DEF Counter
  <2>5. /\ q \in ThreadRecord /\ thread' = [thread EXCEPT ![Loop] = q] /\ q.pc = "status"
        /\ q.ret = thread[Loop].ret /\ q.victims = {} /\ q.status = thread[Loop].status
    BY <1>1, <2>1, <2>2, <2>3, <2>4, JumpMoves
  <2>6. Goto(Loop, q)
    BY <2>5 DEF Goto
  <2>7. Knows(q, Session)
    BY <1>1, <2>1, <2>5 DEF Knows, OnSession, Working, Finishing
  <2>8. /\ q.pc \notin Working \cup Finishing \cup {"cancel"}
        /\ thread[Loop].pc \notin Working \cup Notifying
    BY <2>1, <2>5 DEF Working, Finishing, Notifying
  <2> QED
    BY <2>1, <2>5, <2>6, <2>7, <2>8, LoopGoes
<1>10. ASSUME NEW pc \in {"idle", "expired"}, NEW cs \in SUBSET Creature, NEW u \in Universe,
              NEW q, q = [Ready EXCEPT !.pc = pc, !.idles = cs]
                     \/ q = [Ready EXCEPT !.pc = pc, !.universe = u, !.idles = cs]
       PROVE  q \in ThreadRecord /\ q.pc \in Plain /\ q.ret = "ready" /\ q.victims = {}
  <2>1. pc \in Counter
    BY DEF Counter
  <2>2. CASE q = [Ready EXCEPT !.pc = pc, !.idles = cs]
    <3>1. q \in ThreadRecord
      BY <1>3, <2>1, <2>2 DEF ThreadRecord
    <3>2. q.pc = pc /\ q.ret = "ready" /\ q.victims = {}
      BY <1>3, <2>2 DEF ThreadRecord
    <3> QED
      BY <1>4, <3>1, <3>2
  <2>3. CASE q = [Ready EXCEPT !.pc = pc, !.universe = u, !.idles = cs]
    <3>1. q \in ThreadRecord
      BY <1>3, <2>1, <2>3 DEF ThreadRecord
    <3>2. q.pc = pc /\ q.ret = "ready" /\ q.victims = {}
      BY <1>3, <2>3 DEF ThreadRecord
    <3> QED
      BY <1>4, <3>1, <3>2
  <2> QED
    BY <1>10, <2>2, <2>3
<1>11. ASSUME PlaylistUpdateStatus
       PROVE  Effective
  <2>1. /\ thread[Loop].pc = "status" /\ UNCHANGED <<owned, workload>>
        /\ SetPlaylistStatus(thread[Loop].universe, thread[Loop].status)
        /\ Goto(Loop, [Ready EXCEPT !.pc = "idle", !.universe = thread[Loop].universe,
                         !.idles = {c \in Creature : Home[c] = thread[Loop].universe}
                                     \ Drives[thread[Loop].animation]])
    BY <1>11 DEF PlaylistUpdateStatus, At, owned, SetPlaylistStatus, eventVars, endVars, bound
  <2>2. thread[Loop].status \in Status
    BY <1>1, <2>1 DEF Knows
  <2>3. PICK cs : cs = {c \in Creature : Home[c] = thread[Loop].universe}
                         \ Drives[thread[Loop].animation]
    OBVIOUS
  <2>4. PICK q : q = [Ready EXCEPT !.pc = "idle", !.universe = thread[Loop].universe, !.idles = cs]
    OBVIOUS
  <2>5. q \in ThreadRecord /\ q.pc \in Plain /\ q.ret = "ready" /\ q.victims = {}
    <3>1. cs \in SUBSET Creature
      BY <2>3
    <3> QED
      BY <1>1, <1>10, <2>4, <3>1
  <2>6. thread[Loop].pc \notin Working \cup Notifying /\ Goto(Loop, q)
    BY <2>1, <2>3, <2>4 DEF Working, Notifying
  <2>7. [Next]_smVars
    BY <1>1, <2>1, <2>2 DEF Next, PlaylistStep
  <2> QED
    BY <1>2, <2>1, <2>5, <2>6, <2>7
<1>12. ASSUME NEW c \in Creature, StreamExpires(c)
       PROVE  Effective
  <2>1. /\ thread[Loop].pc = "ready" /\ UNCHANGED <<owned, workload>> /\ UNCHANGED smVars
        /\ Goto(Loop, [Ready EXCEPT !.pc = "expired", !.idles = {c}])
    BY <1>12 DEF StreamExpires, At, owned, smVars, eventVars, endVars, bound
  <2>2. PICK q : q = [Ready EXCEPT !.pc = "expired", !.idles = {c}]
    OBVIOUS
  <2>3. q \in ThreadRecord /\ q.pc \in Plain /\ q.ret = "ready" /\ q.victims = {}
    BY <1>1, <1>10, <2>2
  <2>4. thread[Loop].pc \notin Working \cup Notifying /\ Goto(Loop, q)
    BY <2>1, <2>2 DEF Working, Notifying
  <2> QED
    BY <1>2, <2>1, <2>3, <2>4
<1>13. ASSUME StreamStopped
       PROVE  Effective
  <2>1. /\ thread[Loop].pc = "expired" /\ Jump(Loop, "idle")
        /\ UNCHANGED <<owned, workload>> /\ UNCHANGED smVars
    BY <1>13 DEF StreamStopped, At, owned, smVars, eventVars, endVars, bound
  <2>2. thread[Loop].pc \notin Working \cup Notifying \cup {"unwound"}
    BY <2>1 DEF Working, Notifying
  <2> QED
    BY <1>4, <2>1, <2>2, LoopJumps
<1> QED
  BY <1>5, <1>6, <1>7, <1>8, <1>9, <1>11, <1>12, <1>13


\* A thread's next record, made from the ready one, at a plain counter.
LEMMA GoesQuietly ==
  ASSUME ThreadsTyped, NEW t \in Thread, NEW q, Goto(t, q), q \in ThreadRecord,
         q.pc \in Plain, q.ret = "ready", q.victims = {},
         thread[t].pc \notin Working, thread[t].victims = {}, UNCHANGED <<owned, workload>>,
         [Next]_smVars
  PROVE  Effective
<1>1. Knows(q, Session) /\ q.pc \notin Working \cup Finishing \cup {"cancel"}
  BY PlainKnows
<1> QED
  BY <1>1, GotoPasses DEF Effective

\* What holds when a request arrives.
LEMMA Arrival ==
  ASSUME ThreadsTyped, NEW t \in Thread, NEW kind, Arrives(t, kind)
  PROVE  /\ thread[t].pc = "ready" /\ thread[t].victims = {} /\ UNCHANGED workload
         /\ thread[t].pc \notin Working \cup Notifying \cup {"unwound"}
         /\ thread[t] \in ThreadRecord /\ Knows(thread[t], Session)
<1>1. thread[t].pc = "ready" /\ UNCHANGED workload
  BY DEF Arrives, At
<1>2. thread[t].pc \notin Working \cup Notifying \cup {"unwound"}
  BY <1>1 DEF Working, Notifying
<1> QED
  BY <1>1, <1>2, NothingToNotify DEF ThreadsTyped

\* A request schedules an animation.
LEMMA RequestSchedules ==
  ASSUME ThreadsTyped, NEW t \in Thread, NEW u \in Universe, NEW a \in Animation,
         NEW reason \in Reason, NEW entire \in BOOLEAN, NEW ret \in {"ready", "interrupt"},
         Goto(t, ToSchedule(u, a, reason, entire, ret)),
         thread[t].pc \notin Working \cup Notifying,
         UNCHANGED <<owned, workload>>, [Next]_smVars
  PROVE  Effective
<1>1. Ready \in ThreadRecord /\ Ready.victims = {} /\ "schedule" \in Counter /\ ret \in Return
  BY ReadyTyped DEF Counter, Return
<1>2. PICK q : q = [Ready EXCEPT !.pc = "schedule", !.universe = u, !.animation = a,
                                 !.reason = reason, !.entire = entire, !.ret = ret]
  OBVIOUS
<1>3. q \in ThreadRecord
  <2>1. [Ready EXCEPT !.pc = "schedule", !.universe = u, !.animation = a, !.reason = reason,
                      !.entire = entire, !.ret = ret] \in ThreadRecord
    BY <1>1 DEF ThreadRecord
  <2> QED
    BY <1>2, <2>1
<1>4. q.pc = "schedule" /\ q.ret = ret /\ q.victims = {} /\ q.animation = a
  BY <1>1, <1>2 DEF ThreadRecord
<1>5. Knows(q, Session) /\ q.pc \notin Working \cup Finishing \cup {"cancel"}
  BY <1>4 DEF Knows, OnSession, Working, Finishing
<1>6. Goto(t, q) /\ thread[t].victims = {} /\ thread[t].pc \notin Working
  BY <1>2, NothingToNotify DEF ToSchedule
<1> QED
  BY <1>3, <1>4, <1>5, <1>6, GotoPasses DEF Effective

\* So have requests that play, interrupt or queue.
LEMMA PlayRequestEffects ==
  ASSUME TypeOK, ThreadsTyped, NEW t \in Thread, NEW u \in Universe, NEW a \in Animation,
         \/ RequestPlay(t, u, a) \/ RequestInterruptIdle(t, u, a) \/ RequestQueue(t, u, a)
         \/ \E resume \in BOOLEAN : RequestInterrupt(t, u, a, resume)
  PROVE  Effective
<1>1. \E kind : Arrives(t, kind)
  BY DEF RequestPlay, RequestInterruptIdle, RequestQueue, RequestInterrupt
<1>2. /\ thread[t].victims = {} /\ UNCHANGED workload
      /\ thread[t].pc \notin Working \cup Notifying
      /\ thread[t] \in ThreadRecord /\ Knows(thread[t], Session)
  BY <1>1, Arrival
<1>3. "Play" \in Reason /\ "AdHoc" \in Reason
  BY DEF Reason
<1>4. ASSUME RequestPlay(t, u, a) \/ RequestInterruptIdle(t, u, a)
      PROVE  Effective
  <2>1. UNCHANGED <<owned, workload>> /\ UNCHANGED smVars
    BY <1>2, <1>4 DEF RequestPlay, RequestInterruptIdle, owned, smVars, eventVars, endVars
  <2>2. \/ Goto(t, ToSchedule(u, a, "Play", FALSE, "ready"))
        \/ Goto(t, ToSchedule(u, a, "AdHoc", FALSE, "ready"))
    BY <1>4 DEF RequestPlay, RequestInterruptIdle
  <2> QED
    BY <1>2, <1>3, <2>1, <2>2, RequestSchedules
<1>5. ASSUME NEW resume \in BOOLEAN, RequestInterrupt(t, u, a, resume)
      PROVE  Effective
  <2>1. \/ InterruptMark(u, resume) /\ Goto(t, ToSchedule(u, a, "AdHoc", TRUE, "interrupt"))
        \/ Goto(t, ToSchedule(u, a, "AdHoc", TRUE, "ready")) /\ UNCHANGED smVars
    BY <1>5 DEF RequestInterrupt
  <2>2. UNCHANGED <<eventVars, endVars>>
    BY <1>5 DEF RequestInterrupt
  <2>3. UNCHANGED <<owned, workload>>
    BY <1>2, <2>1, <2>2 DEF InterruptMark, owned, smVars, eventVars, endVars
  <2>4. [Next]_smVars
    BY <2>1 DEF Next, PlaylistStep
  <2> QED
    BY <1>2, <1>3, <2>1, <2>3, <2>4, RequestSchedules
<1>6. ASSUME RequestQueue(t, u, a)
      PROVE  Effective
  <2>1. /\ QueueAnimation(u, a) /\ UNCHANGED thread
        /\ UNCHANGED <<owned, workload>>
    BY <1>2, <1>6 DEF RequestQueue, QueueAnimation, owned, eventVars, endVars
  <2>2. thread' = [thread EXCEPT ![t] = thread[t]]
    BY <2>1 DEF ThreadsTyped
  <2>3. Session' = Session
    BY <2>1, SessionUnchanged DEF owned
  <2>4. PICK q : q = thread[t]
    OBVIOUS
  <2>5. Moves(t, q)
    BY <1>2, <2>1, <2>2, <2>3, <2>4 DEF Moves
  <2>6. thread[t].pc = "ready"
    BY <1>1, Arrival
  <2>7. Passes(t, q)
    BY <1>2, <2>1, <2>4, <2>6 DEF Passes
  <2>8. [Next]_smVars
    BY <2>1 DEF Next, QueueStep
  <2> QED
    BY <1>2, <2>4, <2>5, <2>7, <2>8 DEF Effective, Effect
<1> QED
  BY <1>4, <1>5, <1>6

\* So have starts of playlists.
LEMMA StartRequestEffects ==
  ASSUME TypeOK, ThreadsTyped, NEW t \in Thread,
         \/ \E u \in Universe, p \in Playlist : RequestStart(t, u, p)
         \/ StartCancels(t) \/ StartStarts(t) \/ StartStatus(t) \/ InterruptFailed(t)
  PROVE  Effective
<1>r. /\ thread[t] \in ThreadRecord /\ Knows(thread[t], Session) /\ thread[t].universe \in Universe
  BY DEF ThreadsTyped, ThreadRecord
<1>1. ASSUME NEW u \in Universe, NEW p \in Playlist, RequestStart(t, u, p)
      PROVE  Effective
  <2>1. PICK status \in Status : status = [playlist |-> p, playing |-> TRUE]
    BY DEF Status
  <2>2. PICK start : start = [Ready EXCEPT !.pc = "start playlist", !.universe = u,
                                           !.status = status]
    OBVIOUS
  <2>3. Ready \in ThreadRecord /\ Ready.ret = "ready" /\ Ready.victims = {}
        /\ "start playlist" \in Counter /\ "cancel" \in Counter
    BY ReadyTyped DEF Counter
  <2>4. start \in ThreadRecord
    BY <2>2, <2>3 DEF ThreadRecord
  <2>5. /\ start.pc = "start playlist" /\ start.status = status /\ start.ret = "ready"
        /\ start.victims = {}
    BY <2>2, <2>3 DEF ThreadRecord
  <2>6. /\ Arrives(t, "start") /\ UNCHANGED <<smVars, eventVars, endVars>>
        /\ \/ Goto(t, start)
           \/ \E s \in Live(u) : Goto(t, [start EXCEPT !.pc = "cancel", !.session = s])
    BY <1>1, <2>1, <2>2 DEF RequestStart
  <2>7. /\ thread[t].victims = {} /\ UNCHANGED <<owned, workload>> /\ UNCHANGED smVars
        /\ thread[t].pc \notin Working \cup Notifying /\ "start" \in workload.kinds
        /\ Session' = Session
    BY <2>6, Arrival, SessionUnchanged DEF owned, smVars, eventVars, endVars, Arrives
  <2>8. CASE Goto(t, start)
    <3>1. Knows(start, Session) /\ start.pc \notin Working \cup Finishing \cup {"cancel"}
      BY <2>5 DEF Knows, OnSession, Working, Finishing
    <3> QED
      BY <2>4, <2>5, <2>7, <2>8, <3>1, GotoPasses DEF Effective
  <2>9. ASSUME NEW s \in Live(u), Goto(t, [start EXCEPT !.pc = "cancel", !.session = s])
        PROVE  Effective
    <3>1. s \in Session /\ s \in Nat
      BY LenProperties DEF Live, TypeOK, Session
    <3>2. PICK q : q = [start EXCEPT !.pc = "cancel", !.session = s]
      OBVIOUS
    <3>3. q \in ThreadRecord
      BY <2>3, <2>4, <3>1, <3>2 DEF ThreadRecord
    <3>4. /\ q.pc = "cancel" /\ q.session = s /\ q.ret = "ready" /\ q.victims = {}
          /\ q.status = status
      BY <2>4, <2>5, <3>2 DEF ThreadRecord
    <3>5. Knows(q, Session)
      BY <3>1, <3>4 DEF Knows
    <3>6. Moves(t, q)
      BY <2>7, <2>9, <3>2, <3>3, <3>5 DEF Moves, Goto
    <3>7. Passes(t, q)
      BY <2>7, <3>4 DEF Passes, Working, Finishing
    <3> QED
      BY <2>7, <3>3, <3>6, <3>7 DEF Effective, Effect
  <2> QED
    BY <2>6, <2>8, <2>9
<1>2. ASSUME StartCancels(t)
      PROVE  Effective
  <2>1. /\ thread[t].pc = "cancel" /\ CancelDirect(thread[t].session)
        /\ thread' = [thread EXCEPT ![t].pc = "start playlist", ![t].session = 0]
        /\ UNCHANGED <<runners, ended, finished, loading, workload>>
    BY <1>2 DEF StartCancels, At, eventVars, endVars, bound
  <2>2. thread[t].victims = {} /\ thread[t].session \in Session
    BY <1>r, <2>1, NothingToNotify DEF Notifying, Knows, OnSession
  <2>3. Session' = Session
    BY <2>1, <2>2, SetFlags DEF Keeps, Session
  <2>4. PICK q : q = [thread[t] EXCEPT !.pc = "start playlist", !.session = 0]
    OBVIOUS
  <2>5. thread' = [thread EXCEPT ![t] = q]
    BY <2>1, <2>4
  <2>6. "start playlist" \in Counter
    BY DEF Counter
  <2>7. q \in ThreadRecord
    BY <1>r, <2>4, <2>6 DEF ThreadRecord
  <2>8. /\ q.pc = "start playlist" /\ q.ret = thread[t].ret /\ q.victims = {}
        /\ q.status = thread[t].status
    BY <1>r, <2>2, <2>4 DEF ThreadRecord
  <2>9. Knows(q, Session) /\ q.pc \notin Working \cup Finishing \cup {"cancel"}
    BY <1>r, <2>1, <2>8 DEF Knows, OnSession, Working, Finishing
  <2>10. Moves(t, q)
    BY <2>1, <2>3, <2>5, <2>7, <2>9 DEF Moves
  <2>11. StartsOver(t, q)
    BY <2>1, <2>2, <2>8, <2>9 DEF StartsOver, CancelDirect
  <2>12. [Next]_smVars
    BY <1>r, <2>1, <2>2 DEF Next, SessionStep
  <2> QED
    BY <2>7, <2>10, <2>11, <2>12 DEF Effective, Effect
<1>3. ASSUME StartStarts(t)
      PROVE  Effective
  <2>1. /\ thread[t].pc = "start playlist" /\ Jump(t, "start status")
        /\ StartPlaylist(thread[t].universe, thread[t].status.playlist)
        /\ UNCHANGED <<owned, workload>>
    BY <1>3 DEF StartStarts, At, StartPlaylist, owned, eventVars, endVars, bound
  <2>2. thread[t].victims = {}
    BY <2>1, NothingToNotify DEF Notifying
  <2>3. PICK q : q = [thread[t] EXCEPT !.pc = "start status"]
    OBVIOUS
  <2>4. "start status" \in Counter
    BY DEF Counter
  <2>5. /\ q \in ThreadRecord /\ thread' = [thread EXCEPT ![t] = q] /\ q.pc = "start status"
        /\ q.ret = thread[t].ret /\ q.victims = {} /\ q.status = thread[t].status
    <3>1. PICK pc \in Counter : pc = "start status"
      BY <2>4
    <3>2. Jump(t, pc) /\ q = [thread[t] EXCEPT !.pc = pc]
      BY <2>1, <2>3, <3>1
    <3>3. /\ q \in ThreadRecord /\ thread' = [thread EXCEPT ![t] = q] /\ q.pc = pc
          /\ q.ret = thread[t].ret /\ q.victims = thread[t].victims
          /\ q.status = thread[t].status
      BY <3>2, JumpMoves
    <3> QED
      BY <2>2, <3>1, <3>3
  <2>6. Goto(t, q)
    BY <2>5 DEF Goto
  <2>7. /\ Knows(q, Session) /\ q.pc \notin Working \cup Finishing \cup {"cancel"}
        /\ thread[t].pc \notin Working
    BY <1>r, <2>1, <2>5 DEF Knows, OnSession, Working, Finishing
  <2>8. thread[t].status.playlist \in Playlist
    BY <1>r, <2>1 DEF Knows, Status
  <2>9. [Next]_smVars
    BY <1>r, <2>1, <2>8 DEF Next, PlaylistStep
  <2>10. \E p \in ThreadRecord : Moves(t, p) /\ Effect(t, p)
    BY <2>1, <2>2, <2>5, <2>6, <2>7, GotoPasses
  <2> QED
    BY <2>9, <2>10 DEF Effective
<1>4. ASSUME StartStatus(t)
      PROVE  Effective
  <2>1. /\ thread[t].pc = "start status" /\ Jump(t, "retry")
        /\ SetPlaylistStatus(thread[t].universe, thread[t].status)
        /\ UNCHANGED <<owned, workload>>
    BY <1>4 DEF StartStatus, At, SetPlaylistStatus, owned, eventVars, endVars, bound
  <2>2. Unburdened(t) /\ "retry" \in Plain
    BY <2>1, NothingToNotify DEF Unburdened, Notifying, Plain, Counter, Working, Finishing
  <2>3. thread[t].status \in Status
    BY <1>r, <2>1 DEF Knows
  <2>4. [Next]_smVars
    BY <1>r, <2>1, <2>3 DEF Next, PlaylistStep
  <2> QED
    BY <2>1, <2>2, <2>4, JumpPasses DEF Effective
<1>5. ASSUME InterruptFailed(t)
      PROVE  Effective
  <2>1. /\ thread[t].pc = "undo" /\ Goto(t, Ready)
        /\ InterruptUndo(thread[t].universe) \/ UNCHANGED smVars
        /\ UNCHANGED <<runners, loading, endVars, workload>>
    BY <1>5 DEF InterruptFailed, At, bound
  <2>2. UNCHANGED <<owned, workload>>
    BY <2>1 DEF InterruptUndo, owned, smVars, endVars
  <2>3. thread[t].victims = {} /\ thread[t].pc \notin Working
    BY <2>1, NothingToNotify DEF Notifying, Working
  <2>4. Ready \in ThreadRecord /\ Ready.pc \in Plain /\ Ready.ret = "ready" /\ Ready.victims = {}
    BY ReadyTyped DEF Plain, Counter, Working, Finishing
  <2>5. [Next]_smVars
    BY <1>r, <2>1 DEF Next, PlaylistStep
  <2> QED
    BY <2>1, <2>2, <2>3, <2>4, <2>5, GoesQuietly
<1> QED
  BY <1>1, <1>2, <1>3, <1>4, <1>5


\* The live sessions a canceller takes are sessions of the universe.
LEMMA VictimsAreLive ==
  ASSUME NEW u, NEW c
  PROVE  /\ SessionsForCreature(u, c) \subseteq Live(u)
         /\ IdleSessionsForCreature(u, c) \subseteq Live(u)
         /\ PlaylistSessions(u) \subseteq Live(u)
BY DEF SessionsForCreature, IdleSessionsForCreature, PlaylistSessions

\* A thread cancels sessions and goes on to notify them.
LEMMA DropsSessions ==
  ASSUME TypeOK, ThreadsTyped, NEW t \in Thread, NEW u \in Universe, NEW dead \in SUBSET Live(u),
         NEW q \in ThreadRecord, q.victims = dead, q.pc \in Notifying \ {"running"},
         q.ret # "load", q.ret = "playlist" => q.status \in Status, Goto(t, q),
         thread[t].victims = {}, thread[t].pc \notin Working, CancelAndDrop(u, dead),
         UNCHANGED <<runners, ended, finished, loading, workload>>
  PROVE  \E p \in ThreadRecord : Moves(t, p) /\ Effect(t, p)
<1>1. Session' = Session
  BY CancelAndDropType DEF Keeps, Session
<1>2. dead \subseteq Session
  BY DEF Live, TypeOK
<1>3. Knows(q, Session)
  BY <1>2 DEF Knows, Notifying, OnSession, Working, Finishing
<1>4. Moves(t, q)
  BY <1>1, <1>3 DEF Moves, Goto
<1>5. Drops(t, q)
  BY DEF Drops
<1> QED
  BY <1>4, <1>5 DEF Effect

\* stopPlaylist and what its caller does next.
LEMMA StopEffects ==
  ASSUME TypeOK, ThreadsTyped, NEW t \in Thread, NEW u \in Universe,
         NEW next \in {"clearPlaylist", "mark"}, Stop(t, u, next), thread[t].victims = {},
         thread[t].pc \in {"ready", "stream"}, UNCHANGED workload
  PROVE  Effective
<1>1. /\ thread[t] \in ThreadRecord /\ Knows(thread[t], Session)
      /\ thread[t].pc \notin Working /\ thread[t].ret # "load"
      /\ thread[t].ret = "playlist" => thread[t].status \in Status
  BY DEF ThreadsTyped, Knows, Working
<1>2. next \in Counter /\ next \in Notifying \ {"running"}
  BY DEF Counter, Notifying
<1>3. UNCHANGED <<runners, ended, finished, loading, workload>>
  BY DEF Stop, eventVars, endVars
<1>4. CASE /\ StopPlaylist(u)
           /\ Goto(t, [thread[t] EXCEPT !.pc = next, !.universe = u, !.victims = PlaylistSessions(u)])
  <2>1. PICK dead \in SUBSET Live(u) : dead = PlaylistSessions(u)
    BY VictimsAreLive
  <2>2. dead \in SUBSET Nat
    BY LenProperties DEF Live, TypeOK, Session
  <2>3. PICK q : q = [thread[t] EXCEPT !.pc = next, !.universe = u, !.victims = dead]
    OBVIOUS
  <2>4. q \in ThreadRecord
    BY <1>1, <1>2, <2>2, <2>3 DEF ThreadRecord
  <2>5. /\ q.pc = next /\ q.victims = dead /\ q.ret = thread[t].ret
        /\ q.status = thread[t].status
    BY <1>1, <2>3 DEF ThreadRecord
  <2>6. Goto(t, q) /\ CancelAndDrop(u, dead)
    BY <1>4, <2>1, <2>3 DEF StopPlaylist
  <2>7. \E p \in ThreadRecord : Moves(t, p) /\ Effect(t, p)
    BY <1>1, <1>2, <1>3, <2>4, <2>5, <2>6, DropsSessions
  <2>8. [Next]_smVars
    BY <1>4 DEF Next, PlaylistStep
  <2> QED
    BY <2>7, <2>8 DEF Effective
<1>5. CASE /\ Goto(t, [thread[t] EXCEPT !.pc = next, !.universe = u])
           /\ UNCHANGED smVars
  <2>1. PICK q : q = [thread[t] EXCEPT !.pc = next, !.universe = u]
    OBVIOUS
  <2>2. q \in ThreadRecord
    BY <1>1, <1>2, <2>1 DEF ThreadRecord
  <2>3. /\ q.pc = next /\ q.victims = {} /\ q.ret = thread[t].ret
        /\ q.status = thread[t].status
    BY <1>1, <2>1 DEF ThreadRecord
  <2>4. Goto(t, q)
    BY <1>5, <2>1
  <2>5. Knows(q, Session) /\ q.pc \notin Working \cup Finishing \cup {"cancel"}
    BY <1>1, <2>3 DEF Knows, OnSession, Working, Finishing
  <2>6. UNCHANGED <<owned, workload>> /\ UNCHANGED smVars
    BY <1>3, <1>5 DEF owned, smVars
  <2>7. \E p \in ThreadRecord : Moves(t, p) /\ Effect(t, p)
    BY <1>1, <2>2, <2>3, <2>4, <2>5, <2>6, GotoPasses
  <2> QED
    BY <2>6, <2>7 DEF Effective
<1> QED
  BY <1>4, <1>5 DEF Stop

\* So have stops of playlists and streamed frames.
LEMMA StreamRequestEffects ==
  ASSUME TypeOK, ThreadsTyped, NEW t \in Thread,
         \/ \E u \in Universe : RequestStop(t, u)
         \/ \E c \in Creature : RequestStream(t, c)
         \/ StreamStopsPlaylist(t) \/ StreamMarks(t) \/ StreamAnnounces(t)
  PROVE  Effective
<1>r. /\ thread[t] \in ThreadRecord /\ Knows(thread[t], Session) /\ thread[t].universe \in Universe
  BY DEF ThreadsTyped, ThreadRecord
<1>1. ASSUME NEW u \in Universe, RequestStop(t, u)
      PROVE  Effective
  <2>1. Arrives(t, "stop") /\ Stop(t, u, "clearPlaylist")
    BY <1>1 DEF RequestStop
  <2>2. thread[t].pc = "ready" /\ thread[t].victims = {} /\ UNCHANGED workload
    BY <2>1, Arrival
  <2> QED
    BY <2>1, <2>2, StopEffects
<1>2. ASSUME NEW c \in Creature, RequestStream(t, c)
      PROVE  Effective
  <2>1. Arrives(t, "stream")
    BY <1>2 DEF RequestStream
  <2>2. /\ thread[t].victims = {} /\ UNCHANGED workload
        /\ thread[t].pc \notin Working \cup Notifying
    BY <2>1, Arrival
  <2>3. PICK u \in Universe : u = Home[c]
    BY PlaybackAssumption
  <2>4. PICK dead \in SUBSET Live(u) : dead = SessionsForCreature(u, c)
    BY VictimsAreLive
  <2>5. dead \in SUBSET Nat
    BY LenProperties DEF Live, TypeOK, Session
  <2>6. PICK q : q = [Ready EXCEPT !.pc = "stream", !.universe = u, !.idles = {c},
                                   !.victims = dead]
    OBVIOUS
  <2>7. Ready \in ThreadRecord /\ Ready.ret = "ready" /\ "stream" \in Counter
        /\ {c} \in SUBSET Creature
    BY ReadyTyped DEF Counter
  <2>8. q \in ThreadRecord
    BY <2>5, <2>6, <2>7 DEF ThreadRecord
  <2>9. q.pc = "stream" /\ q.victims = dead /\ q.ret = "ready"
    BY <2>6, <2>7 DEF ThreadRecord
  <2>10. /\ Goto(t, q) /\ CancelSessionsForCreature(u, c)
         /\ UNCHANGED <<runners, ended, finished, loading, workload>>
    BY <1>2, <2>2, <2>3, <2>4, <2>6 DEF RequestStream, eventVars, endVars
  <2>11. CancelAndDrop(u, dead) /\ q.pc \in Notifying \ {"running"}
    BY <2>4, <2>9, <2>10 DEF CancelSessionsForCreature, Notifying
  <2>12. \E p \in ThreadRecord : Moves(t, p) /\ Effect(t, p)
    BY <2>2, <2>8, <2>9, <2>10, <2>11, DropsSessions
  <2>13. c \in Output
    BY PlaybackAssumption
  <2>14. [Next]_smVars
    BY <2>10, <2>13 DEF Next, SessionStep
  <2> QED
    BY <2>12, <2>14 DEF Effective
<1>3. ASSUME StreamStopsPlaylist(t)
      PROVE  Effective
  <2>1. /\ thread[t].pc = "stream" /\ thread[t].victims = {} /\ UNCHANGED workload
        /\ Stop(t, thread[t].universe, "mark")
    BY <1>3 DEF StreamStopsPlaylist, Notified, At, bound
  <2> QED
    BY <1>r, <2>1, StopEffects
<1>4. ASSUME StreamMarks(t) \/ StreamAnnounces(t)
      PROVE  Effective
  <2>1. /\ thread[t].pc \in {"mark", "announce"} /\ thread[t].victims = {}
        /\ Goto(t, Ready) \/ Jump(t, "announce")
        /\ UNCHANGED <<owned, workload>> /\ UNCHANGED smVars
    BY <1>4, NothingToNotify
       DEF StreamMarks, StreamAnnounces, Notified, At, Notifying, owned, smVars, eventVars, endVars, bound
  <2>2. Unburdened(t) /\ "announce" \in Plain
    BY <2>1 DEF Unburdened, Plain, Counter, Working, Finishing
  <2>3. thread[t].pc \notin Working
    BY <2>1 DEF Working
  <2>4. Ready \in ThreadRecord /\ Ready.pc \in Plain /\ Ready.ret = "ready" /\ Ready.victims = {}
    BY ReadyTyped DEF Plain, Counter, Working, Finishing
  <2>5. CASE Goto(t, Ready)
    BY <2>1, <2>3, <2>4, <2>5, GoesQuietly
  <2>6. CASE Jump(t, "announce")
    BY <2>1, <2>2, <2>6, JumpPasses DEF Effective
  <2> QED
    BY <2>1, <2>5, <2>6
<1> QED
  BY <1>1, <1>2, <1>3, <1>4

\* So have the switches of idle playback.
LEMMA IdleRequestEffects ==
  ASSUME TypeOK, ThreadsTyped, NEW t \in Thread,
         \/ \E c \in Creature, enabled \in BOOLEAN : RequestSetIdle(t, c, enabled)
         \/ SetIdleCancels(t) \/ SetIdleState(t)
  PROVE  Effective
<1>r. /\ thread[t] \in ThreadRecord /\ Knows(thread[t], Session) /\ thread[t].universe \in Universe
      /\ thread[t].idles \in SUBSET Creature
  BY DEF ThreadsTyped, ThreadRecord
<1>q. Ready \in ThreadRecord /\ Ready.pc = "ready" /\ Ready.ret = "ready" /\ Ready.victims = {}
  BY ReadyTyped
<1>1. ASSUME NEW c \in Creature, NEW enabled \in BOOLEAN, RequestSetIdle(t, c, enabled)
      PROVE  Effective
  <2>1. Arrives(t, "setIdle")
    BY <1>1 DEF RequestSetIdle
  <2>2. /\ thread[t].victims = {} /\ UNCHANGED workload
        /\ thread[t].pc \notin Working \cup Notifying
    BY <2>1, Arrival
  <2>3. PICK u \in Universe : u = Home[c]
    BY PlaybackAssumption
  <2>4. PICK pc \in {"idle on", "cancel idle"} :
          pc = IF enabled THEN "idle on" ELSE "cancel idle"
    OBVIOUS
  <2>5. pc \in Plain /\ pc \in Counter
    BY DEF Plain, Counter, Working, Finishing
  <2>6. PICK cs \in SUBSET Creature : cs = {c}
    OBVIOUS
  <2>7. PICK q : q = [Ready EXCEPT !.pc = pc, !.universe = u, !.idles = cs]
    OBVIOUS
  <2>8. q \in ThreadRecord
    <3>1. [Ready EXCEPT !.pc = pc, !.universe = u, !.idles = cs] \in ThreadRecord
      BY <1>q, <2>5 DEF ThreadRecord
    <3> QED
      BY <2>7, <3>1
  <2>9. q.pc = pc /\ q.victims = {} /\ q.ret = "ready"
    BY <1>q, <2>7 DEF ThreadRecord
  <2>10. /\ Goto(t, q) /\ UNCHANGED <<owned, workload>> /\ UNCHANGED smVars
    BY <1>1, <2>2, <2>3, <2>4, <2>6, <2>7 DEF RequestSetIdle, owned, smVars, eventVars, endVars
  <2> QED
    BY <2>2, <2>5, <2>8, <2>9, <2>10, GoesQuietly
<1>2. ASSUME SetIdleCancels(t)
      PROVE  Effective
  <2> DEFINE r == thread[t]
  <2>1. PICK c \in r.idles :
          /\ CancelIdleSessionForCreature(r.universe, c)
          /\ Goto(t, [r EXCEPT !.pc = "idle off", !.victims = IdleSessionsForCreature(r.universe, c)])
    BY <1>2 DEF SetIdleCancels
  <2>2. /\ r.pc = "cancel idle" /\ UNCHANGED <<runners, ended, finished, loading, workload>>
    BY <1>2 DEF SetIdleCancels, At, eventVars, endVars, bound
  <2>3. /\ r.victims = {} /\ r.pc \notin Working /\ r.ret # "load"
        /\ r.ret = "playlist" => r.status \in Status
    BY <1>r, <2>2, NothingToNotify DEF Notifying, Working, Knows
  <2>4. PICK u \in Universe : u = r.universe
    BY <1>r
  <2>5. PICK dead \in SUBSET Live(u) : dead = IdleSessionsForCreature(u, c)
    BY VictimsAreLive
  <2>6. dead \in SUBSET Nat
    BY LenProperties DEF Live, TypeOK, Session
  <2>7. PICK q : q = [r EXCEPT !.pc = "idle off", !.victims = dead]
    OBVIOUS
  <2>8. "idle off" \in Counter /\ "idle off" \in Notifying \ {"running"}
    BY DEF Counter, Notifying
  <2>9. q \in ThreadRecord
    BY <1>r, <2>6, <2>7, <2>8 DEF ThreadRecord
  <2>10. q.pc = "idle off" /\ q.victims = dead /\ q.ret = r.ret /\ q.status = r.status
    BY <1>r, <2>7 DEF ThreadRecord
  <2>11. Goto(t, q)
    BY <2>1, <2>4, <2>5, <2>7
  <2>12. CancelAndDrop(u, dead)
    BY <2>1, <2>4, <2>5 DEF CancelIdleSessionForCreature
  <2>13. \E p \in ThreadRecord : Moves(t, p) /\ Effect(t, p)
    BY <2>2, <2>3, <2>8, <2>9, <2>10, <2>11, <2>12, DropsSessions
  <2>14. c \in Output
    BY <1>r, PlaybackAssumption
  <2>15. [Next]_smVars
    BY <2>1, <2>4, <2>14 DEF Next, SessionStep
  <2> QED
    BY <2>13, <2>15 DEF Effective
<1>3. ASSUME SetIdleState(t)
      PROVE  Effective
  <2>1. /\ thread[t].pc \in {"idle on", "idle off"} /\ thread[t].victims = {}
        /\ \/ Goto(t, [Ready EXCEPT !.pc = "idle", !.idles = thread[t].idles])
           \/ Goto(t, Ready)
        /\ UNCHANGED <<owned, workload>> /\ UNCHANGED smVars
    BY <1>3 DEF SetIdleState, Notified, At, owned, smVars, eventVars, endVars, bound
  <2>2. thread[t].pc \notin Working
    BY <2>1 DEF Working
  <2>3. PICK cs \in SUBSET Creature : cs = thread[t].idles
    BY <1>r
  <2>4. PICK q : Goto(t, q) /\ (q = Ready \/ q = [Ready EXCEPT !.pc = "idle", !.idles = cs])
    BY <2>1, <2>3
  <2>5. "idle" \in Counter /\ {"idle", "ready"} \subseteq Plain
    BY DEF Counter, Plain, Working, Finishing
  <2>6. [Ready EXCEPT !.pc = "idle", !.idles = cs] \in ThreadRecord
    BY <1>q, <2>5 DEF ThreadRecord
  <2>7. q \in ThreadRecord
    BY <1>q, <2>4, <2>6
  <2>8. q.pc \in {"idle", "ready"} /\ q.ret = "ready" /\ q.victims = {}
    BY <1>q, <2>4 DEF ThreadRecord
  <2> QED
    BY <2>1, <2>2, <2>4, <2>5, <2>7, <2>8, GoesQuietly
<1> QED
  BY <1>1, <1>2, <1>3

(* Every step of playback moves one thread with an effect, as a step of    *)
(* the registry or none.                                                   *)
LEMMA EveryStepHasAnEffect ==
  ASSUME TypeOK, ThreadsTyped, loading \subseteq Session, workload \in Workloads, PlaybackNext
  PROVE  Effective
<1>1. ASSUME NEW t \in Thread, ScheduleStep(t)
      PROVE  Effective
  BY <1>1, ScheduleEffects, WorkEffects, HandOverEffects, IdleEffects DEF ScheduleStep
<1>2. ASSUME NEW t \in Loader, LoaderStep(t)
      PROVE  Effective
  <2>1. t \in Thread
    BY DEF Thread
  <2> QED
    BY <1>2, <2>1, WorkEffects, HandOverEffects DEF LoaderStep
<1>3. ASSUME NEW t \in Rest, RequestStep(t)
      PROVE  Effective
  <2>1. t \in Thread
    BY DEF Thread
  <2>2. workload.animations \subseteq Animation
    BY PlaybackAssumption
  <2> QED
    BY <1>3, <2>1, <2>2, PlayRequestEffects, StartRequestEffects, StreamRequestEffects,
       IdleRequestEffects DEF RequestStep
<1>4. ASSUME LoopStep
      PROVE  Effective
  BY <1>4, RunnerEffects, FinishEffects, EventEffects DEF LoopStep
<1> QED
  BY <1>1, <1>2, <1>3, <1>4 DEF PlaybackNext

-----------------------------------------------------------------------------
(* What a move changes of who owns a session: the other threads' share of  *)
(* it stays.                                                               *)
OtherNotifies(t, s) == \E o \in Thread \ {t} : s \in thread[o].victims

OtherWorks(t, s) == \E o \in Thread \ {t} : Works(o, s)

OtherAborts(t, s) == \E o \in Thread \ {t} : thread[o].pc = "abort" /\ thread[o].session = s

\* The moved thread has its new record, the others their old ones.
LEMMA MovedThread ==
  ASSUME ThreadsTyped, NEW t \in Thread, NEW q, Moves(t, q)
  PROVE  thread'[t] = q /\ \A o \in Thread \ {t} : thread'[o] = thread[o]
BY DEF ThreadsTyped, Moves

\* Before a move, who owns a session: the moved thread or another.
LEMMA SharesBefore ==
  ASSUME NEW t \in Thread, NEW s
  PROVE  /\ ToNotify(s) <=> s \in thread[t].victims \/ OtherNotifies(t, s)
         /\ Preparing(s) <=> s \in loading \/ Works(t, s) \/ OtherWorks(t, s)
         /\ Aborting(s) <=> (thread[t].pc = "abort" /\ thread[t].session = s) \/ OtherAborts(t, s)
         /\ OtherAborts(t, s) => OtherWorks(t, s)
BY DEF ToNotify, OtherNotifies, Preparing, OtherWorks, Aborting, OtherAborts, Works, Working

\* After it, the others own what they owned.
LEMMA SharesAfter ==
  ASSUME ThreadsTyped, NEW t \in Thread, NEW q, Moves(t, q), NEW s
  PROVE  /\ ToNotify(s)' <=> s \in q.victims \/ OtherNotifies(t, s)
         /\ Preparing(s)' <=> s \in loading' \/ (q.pc \in Working /\ q.session = s) \/ OtherWorks(t, s)
         /\ Aborting(s)' <=> (q.pc = "abort" /\ q.session = s) \/ OtherAborts(t, s)
<1>1. thread'[t] = q /\ \A o \in Thread \ {t} : thread'[o] = thread[o]
  BY MovedThread
<1>2. ToNotify(s)' <=> s \in q.victims \/ OtherNotifies(t, s)
  BY <1>1 DEF ToNotify, OtherNotifies
<1>3. Preparing(s)' <=> s \in loading' \/ (q.pc \in Working /\ q.session = s) \/ OtherWorks(t, s)
  BY <1>1 DEF Preparing, OtherWorks, Works
<1>4. Aborting(s)' <=> (q.pc = "abort" /\ q.session = s) \/ OtherAborts(t, s)
  BY <1>1 DEF Aborting, OtherAborts
<1> QED
  BY <1>2, <1>3, <1>4

\* The owner of a session under preparation has it for itself.
LEMMA SoleOwner ==
  ASSUME OneOwner, NEW t \in Thread, thread[t].pc \in Working
  PROVE  ~OtherWorks(t, thread[t].session) /\ thread[t].session \notin loading
BY DEF OneOwner, OtherWorks

\* Nobody works on a session that waits for the loader.
LEMMA LoadingIsSole ==
  ASSUME OneOwner, NEW t \in Thread, NEW s \in loading
  PROVE  ~OtherWorks(t, s) /\ ~Works(t, s)
BY DEF OneOwner, OtherWorks, Works

(* The invariant's part about threads, from what the moved one does. *)
LEMMA ThreadsStayRight ==
  ASSUME ThreadsTyped, OneOwner, FinishingHasEnded, OnlyStartsCancel,
         NEW t \in Thread, NEW q, Moves(t, q),
         \A s \in Session : sessions'[s].universe = sessions[s].universe /\ ended'[s] >= ended[s],
         \A s \in Session : OtherWorks(t, s) => s \notin loading' \/ s \in loading,
         ended \in [Ids -> Nat], ended' \in [Ids -> Nat], Session \subseteq Ids,
         q.pc \in Working => /\ q.session \notin loading' /\ ~OtherWorks(t, q.session)
                             /\ q.universe = sessions'[q.session].universe,
         q.pc \in Finishing => ended'[q.session] > 0,
         q.pc = "cancel" => Started
  PROVE  OneOwner' /\ FinishingHasEnded' /\ OnlyStartsCancel'
<1>1. thread'[t] = q /\ \A o \in Thread \ {t} : thread'[o] = thread[o]
  BY MovedThread
<1>2. \A o \in Thread : thread[o].pc \in OnSession => thread[o].session \in Session
  BY DEF ThreadsTyped, Knows
<1>3. OneOwner'
  <2> SUFFICES ASSUME NEW o \in Thread, thread'[o].pc \in Working
               PROVE  /\ thread'[o].session \notin loading'
                      /\ \A p \in Thread : thread'[p].pc \in Working
                                          /\ thread'[p].session = thread'[o].session => p = o
                      /\ thread'[o].universe = sessions'[thread'[o].session].universe
    BY DEF OneOwner, Works
  <2>1. CASE o = t
    <3>1. ASSUME NEW p \in Thread, thread'[p].pc \in Working, thread'[p].session = q.session
          PROVE  p = t
      BY <1>1, <2>1, <3>1 DEF Works, OtherWorks
    <3> QED
      BY <1>1, <2>1, <3>1
  <2>2. CASE o # t
    <3>1. thread'[o] = thread[o] /\ thread[o].pc \in Working /\ thread[o].session \in Session
      BY <1>1, <1>2, <2>2 DEF OnSession
    <3>2. /\ thread[o].session \notin loading
          /\ \A p \in Thread : Works(p, thread[o].session) => p = o
          /\ thread[o].universe = sessions[thread[o].session].universe
      BY <3>1 DEF OneOwner
    <3>3. OtherWorks(t, thread[o].session)
      BY <2>2, <3>1 DEF OtherWorks, Works
    <3>4. ASSUME NEW p \in Thread, thread'[p].pc \in Working, thread'[p].session = thread[o].session
          PROVE  p = o
      <4>1. CASE p = t
        <5>1. q.pc \in Working /\ q.session = thread[o].session
          BY <1>1, <3>1, <3>4, <4>1
        <5> QED
          BY <3>3, <5>1
      <4>2. CASE p # t
        BY <1>1, <3>1, <3>2, <3>4, <4>2 DEF Works
      <4> QED
        BY <4>1, <4>2
    <3> QED
      BY <3>1, <3>2, <3>3, <3>4
  <2> QED
    BY <2>1, <2>2
<1>4. FinishingHasEnded'
  <2> SUFFICES ASSUME NEW o \in Thread, thread'[o].pc \in Finishing
               PROVE  ended'[thread'[o].session] > 0
    BY DEF FinishingHasEnded
  <2>1. CASE o = t
    BY <1>1, <2>1
  <2>2. CASE o # t
    <3>1. thread'[o] = thread[o] /\ thread[o].session \in Session
      BY <1>1, <1>2, <2>2 DEF OnSession
    <3>2. ended[thread[o].session] > 0
      BY <3>1 DEF FinishingHasEnded
    <3> QED
      BY <3>1, <3>2
  <2> QED
    BY <2>1, <2>2
<1>5. OnlyStartsCancel'
  BY <1>1 DEF OnlyStartsCancel, Started, Moves
<1> QED
  BY <1>3, <1>4, <1>5

\* What the proofs of single effects assume.
Owned == TypeOK /\ ThreadsTyped /\ OwnershipInv

-----------------------------------------------------------------------------
(* What the invariant says of one session, step by step.                   *)
SameView(s) ==
  /\ ToNotify(s)' <=> ToNotify(s)
  /\ Preparing(s)' <=> Preparing(s)
  /\ Aborting(s)' <=> Aborting(s)
  /\ Listed(s)' <=> Listed(s)
  /\ Cancelled(s)' <=> Cancelled(s)
  /\ runners'[s] = runners[s] /\ ended'[s] = ended[s]
  /\ s \in finished' <=> s \in finished

\* A session whose view a step leaves alone stays safe.
LEMMA ViewStays ==
  ASSUME NEW s \in Session, Safe(s), SameView(s), UNCHANGED workload
  PROVE  Safe(s)'
BY DEF Safe, SameView, InOrder, EndsAgree, Accounted, Handed, Started

\* What the invariant says of the numbers of sessions.
LEMMA Numbers ==
  ASSUME Owned
  PROVE  /\ Len(sessions) \in Nat /\ Session \subseteq Ids /\ Session \subseteq Nat
         /\ \A s \in Session : runners[s] \in Nat /\ ended[s] \in Nat
         /\ Books /\ OneOwner /\ FinishingHasEnded /\ OnlyStartsCancel /\ ThreadsTyped /\ TypeOK
         /\ \A s \in Session : Safe(s)
<1>1. Books /\ OneOwner /\ FinishingHasEnded /\ OnlyStartsCancel /\ ThreadsTyped /\ TypeOK
      /\ \A s \in Session : Safe(s)
  BY DEF Owned, OwnershipInv
<1>2. Len(sessions) \in Nat
  BY <1>1, LenProperties DEF TypeOK
<1>3. Session \subseteq Ids /\ Session \subseteq Nat
  BY <1>1, <1>2, SessionManagerAssumption DEF Books, Session, Ids
<1> QED
  BY <1>1, <1>2, <1>3 DEF Books

\* The sessions a thread holds are registered.
LEMMA HeldAreSessions ==
  ASSUME ThreadsTyped, NEW t \in Thread
  PROVE  /\ thread[t].pc \in OnSession => thread[t].session \in Session
         /\ thread[t].victims \subseteq Session
BY DEF ThreadsTyped, Knows

\* While no session is registered the books are kept by the numbers.
LEMMA BooksStay ==
  ASSUME Owned, UNCHANGED Session, Len(sessions') = Len(sessions),
         runners' \in [Ids -> Nat], ended' \in [Ids -> Nat],
         finished' \subseteq Session, loading' \subseteq Session,
         \A s \in Ids \ Session : runners'[s] = runners[s] /\ ended'[s] = ended[s]
  PROVE  Books'
BY Numbers DEF Books

\* A step that leaves the registry alone leaves the lists and flags alone.
LEMMA RegistryStays ==
  ASSUME Owned, UNCHANGED <<sessions, active>>
  PROVE  /\ Session' = Session /\ Len(sessions') = Len(sessions)
         /\ \A s \in Session : /\ sessions'[s].universe = sessions[s].universe
                               /\ Listed(s)' <=> Listed(s)
                               /\ Cancelled(s)' <=> Cancelled(s)
BY DEF Session, Listed, Cancelled

\* Passes and Carries leave every session as it is.
LEMMA QuietEffects ==
  ASSUME Owned, NEW t \in Thread, NEW q \in ThreadRecord, Moves(t, q),
         Passes(t, q) \/ Carries(t, q)
  PROVE  OwnershipInv'
<1>1. /\ Session \subseteq Ids /\ Books /\ OneOwner /\ FinishingHasEnded /\ OnlyStartsCancel
      /\ ThreadsTyped /\ \A s \in Session : Safe(s)
  BY Numbers
<1>2. UNCHANGED owned /\ UNCHANGED workload
  BY DEF Passes, Carries, Moves
<1>3. /\ Session' = Session /\ Len(sessions') = Len(sessions)
      /\ \A s \in Session : /\ sessions'[s].universe = sessions[s].universe
                            /\ Listed(s)' <=> Listed(s)
                            /\ Cancelled(s)' <=> Cancelled(s)
  BY <1>2, RegistryStays DEF owned
<1>4. Books'
  BY <1>1, <1>2, <1>3, BooksStay DEF owned, Books
<1>5. OneOwner' /\ FinishingHasEnded' /\ OnlyStartsCancel'
  <2>1. q.pc \in Working => /\ q.session \notin loading' /\ ~OtherWorks(t, q.session)
                            /\ q.universe = sessions'[q.session].universe
    <3> SUFFICES ASSUME q.pc \in Working
                 PROVE  /\ q.session \notin loading' /\ ~OtherWorks(t, q.session)
                        /\ q.universe = sessions'[q.session].universe
      OBVIOUS
    <3>1. thread[t].pc \in Working /\ q.session = thread[t].session /\ q.universe = thread[t].universe
      BY DEF Passes, Carries, SameWork
    <3>2. thread[t].session \notin loading /\ ~OtherWorks(t, thread[t].session)
          /\ thread[t].universe = sessions[thread[t].session].universe
      BY <1>1, <3>1, SoleOwner DEF OneOwner
    <3> QED
      BY <1>2, <3>1, <3>2 DEF owned
  <2>2. q.pc \in Finishing => ended'[q.session] > 0
    BY <1>1, <1>2 DEF Passes, Carries, SameWork, FinishingHasEnded, owned, Finishing, Working
  <2>3. q.pc = "cancel" => Started
    BY DEF Passes, Carries, SameWork, Started, Working
  <2>4. \A s \in Session : sessions'[s].universe = sessions[s].universe /\ ended'[s] >= ended[s]
    BY <1>1, <1>2, <1>3 DEF owned, Books
  <2>5. ended \in [Ids -> Nat] /\ ended' \in [Ids -> Nat] /\ loading' = loading
    BY <1>1, <1>2 DEF Books, owned
  <2> QED
    BY <1>1, <2>1, <2>2, <2>3, <2>4, <2>5, ThreadsStayRight
<1>6. ASSUME NEW s \in Session
      PROVE  Safe(s)'
  <2>1. ToNotify(s)' <=> ToNotify(s)
    BY <1>1, SharesBefore, SharesAfter DEF Passes, Carries, SameWork
  <2>2. Preparing(s)' <=> Preparing(s)
    BY <1>1, <1>2, SharesBefore, SharesAfter DEF Passes, Carries, SameWork, owned, Works
  <2>3. Aborting(s)' <=> Aborting(s)
    BY <1>1, SharesBefore, SharesAfter DEF Passes, Carries, SameWork, Working
  <2>4. SameView(s)
    BY <1>2, <1>3, <2>1, <2>2, <2>3 DEF SameView, owned
  <2> QED
    BY <1>1, <1>2, <2>4, ViewStays
<1> QED
  BY <1>3, <1>4, <1>5, <1>6 DEF OwnershipInv

-----------------------------------------------------------------------------
\* A thread that takes no session on keeps the threads' part of the invariant.
LEMMA NothingTaken ==
  ASSUME Owned, NEW t \in Thread, NEW q \in ThreadRecord, Moves(t, q),
         q.pc \notin Working \cup Finishing \cup {"cancel"},
         \A s \in Session : sessions'[s].universe = sessions[s].universe /\ ended'[s] >= ended[s],
         ended' \in [Ids -> Nat],
         \A s \in Session : OtherWorks(t, s) => s \notin loading' \/ s \in loading
  PROVE  OneOwner' /\ FinishingHasEnded' /\ OnlyStartsCancel'
<1>1. ThreadsTyped /\ OneOwner /\ FinishingHasEnded /\ OnlyStartsCancel
      /\ ended \in [Ids -> Nat] /\ Session \subseteq Ids
  BY Numbers DEF Books
<1> QED
  BY <1>1, ThreadsStayRight

\* One victim gets its runner.
LEMMA NotifyEffect ==
  ASSUME Owned, NEW t \in Thread, NEW q \in ThreadRecord, Moves(t, q), Notifies(t, q)
  PROVE  OwnershipInv'
<1>1. /\ Session \subseteq Ids /\ Books /\ OneOwner /\ FinishingHasEnded /\ OnlyStartsCancel
      /\ ThreadsTyped /\ \A s \in Session : Safe(s) /\ runners[s] \in Nat /\ ended[s] \in Nat
  BY Numbers
<1>2. PICK v \in thread[t].victims :
        /\ q.victims = thread[t].victims \ {v}
        /\ q.pc = thread[t].pc /\ q.session = thread[t].session /\ q.universe = thread[t].universe
        /\ PushRunner(v)
        /\ UNCHANGED <<sessions, active, ended, finished, loading>>
  BY DEF Notifies
<1>3. UNCHANGED workload /\ v \in Session
  BY <1>1, HeldAreSessions DEF Moves
<1>4. /\ Session' = Session /\ Len(sessions') = Len(sessions)
      /\ \A s \in Session : /\ sessions'[s].universe = sessions[s].universe
                            /\ Listed(s)' <=> Listed(s)
                            /\ Cancelled(s)' <=> Cancelled(s)
  BY <1>2, RegistryStays
<1>5. /\ runners' \in [Ids -> Nat] /\ runners'[v] = runners[v] + 1
      /\ \A s \in Ids \ {v} : runners'[s] = runners[s]
  <2>1. runners \in [Ids -> Nat] /\ v \in Ids /\ runners[v] + 1 \in Nat
    BY <1>1, <1>3 DEF Books
  <2> QED
    BY <1>2, <2>1 DEF PushRunner
<1>6. Books'
  BY <1>1, <1>2, <1>3, <1>4, <1>5, BooksStay DEF Books
<1>7. OneOwner' /\ FinishingHasEnded' /\ OnlyStartsCancel'
  <2>1. q.pc \in Working => /\ q.session \notin loading' /\ ~OtherWorks(t, q.session)
                            /\ q.universe = sessions'[q.session].universe
    <3> SUFFICES ASSUME q.pc \in Working
                 PROVE  /\ q.session \notin loading' /\ ~OtherWorks(t, q.session)
                        /\ q.universe = sessions'[q.session].universe
      OBVIOUS
    <3>1. thread[t].session \notin loading /\ ~OtherWorks(t, thread[t].session)
          /\ thread[t].universe = sessions[thread[t].session].universe
      BY <1>1, <1>2, SoleOwner DEF OneOwner
    <3> QED
      BY <1>2, <3>1
  <2>2. q.pc \in Finishing => ended'[q.session] > 0
    BY <1>1, <1>2 DEF FinishingHasEnded
  <2>3. q.pc = "cancel" => Started
    BY <1>1, <1>2 DEF OnlyStartsCancel
  <2>4. \A s \in Session : sessions'[s].universe = sessions[s].universe /\ ended'[s] >= ended[s]
    BY <1>1, <1>2, <1>4
  <2>5. ended \in [Ids -> Nat] /\ ended' \in [Ids -> Nat] /\ loading' = loading
    BY <1>1, <1>2 DEF Books
  <2> QED
    BY <1>1, <2>1, <2>2, <2>3, <2>4, <2>5, ThreadsStayRight
<1>8. ASSUME NEW s \in Session
      PROVE  Safe(s)'
  <2>1. Preparing(s)' <=> Preparing(s)
    BY <1>1, <1>2, SharesBefore, SharesAfter DEF Works
  <2>2. Aborting(s)' <=> Aborting(s)
    BY <1>1, <1>2, SharesBefore, SharesAfter
  <2>3. CASE s # v
    <3>1. ToNotify(s)' <=> ToNotify(s)
      BY <1>1, <1>2, <2>3, SharesBefore, SharesAfter
    <3>2. SameView(s)
      BY <1>1, <1>2, <1>4, <1>5, <2>1, <2>2, <2>3, <3>1 DEF SameView
    <3> QED
      BY <1>1, <1>3, <3>2, ViewStays
  <2>4. CASE s = v
    <3>1. ToNotify(v)
      BY <1>2 DEF ToNotify
    <3>2. Safe(v) /\ runners[v] \in Nat /\ ended[v] \in Nat /\ ended'[v] = ended[v] /\ finished' = finished
      BY <1>1, <1>2, <1>3
    <3>3. ~Listed(v) /\ ~(ended[v] = 1 /\ v \notin finished)
      BY <3>1, <3>2 DEF Safe, InOrder, EndsAgree
    <3>4. ~Listed(v)' /\ runners'[v] > 0
      BY <1>3, <1>4, <1>5, <3>2, <3>3
    <3>5. InOrder(v)'
      BY <3>4 DEF InOrder
    <3>6. EndsAgree(v)'
      BY <3>2, <3>3 DEF EndsAgree, Safe
    <3>7. Accounted(v)'
      BY <3>4 DEF Accounted, Handed
    <3> QED
      BY <2>4, <3>5, <3>6, <3>7 DEF Safe
  <2> QED
    BY <2>3, <2>4
<1> QED
  BY <1>4, <1>6, <1>7, <1>8 DEF OwnershipInv

\* A session under preparation is scheduled to run.
LEMMA RunnerEffect ==
  ASSUME Owned, NEW t \in Thread, NEW q \in ThreadRecord, Moves(t, q), HandsToRunner(t, q)
  PROVE  OwnershipInv'
<1>1. /\ Session \subseteq Ids /\ Books /\ OneOwner /\ FinishingHasEnded /\ OnlyStartsCancel
      /\ ThreadsTyped /\ \A s \in Session : Safe(s) /\ runners[s] \in Nat /\ ended[s] \in Nat
  BY Numbers
<1>2. PICK v : v = thread[t].session
  OBVIOUS
<1>3. /\ PushRunner(v) /\ thread[t].pc \in Working /\ thread[t].victims = {} /\ thread[t].pc # "abort"
      /\ q.pc \notin Working \cup Finishing \cup {"cancel"} /\ q.victims = {}
      /\ UNCHANGED <<sessions, active, ended, finished, loading>> /\ UNCHANGED workload
  BY <1>2 DEF HandsToRunner, Leaves, Moves
<1>4. v \in Session /\ ~OtherWorks(t, v) /\ v \notin loading
  BY <1>1, <1>2, <1>3, HeldAreSessions, SoleOwner DEF OnSession
<1>5. /\ Session' = Session /\ Len(sessions') = Len(sessions)
      /\ \A s \in Session : /\ sessions'[s].universe = sessions[s].universe
                            /\ Listed(s)' <=> Listed(s)
                            /\ Cancelled(s)' <=> Cancelled(s)
  BY <1>3, RegistryStays
<1>6. /\ runners' \in [Ids -> Nat] /\ runners'[v] = runners[v] + 1
      /\ \A s \in Ids \ {v} : runners'[s] = runners[s]
  <2>1. runners \in [Ids -> Nat] /\ v \in Ids /\ runners[v] + 1 \in Nat
    BY <1>1, <1>4 DEF Books
  <2> QED
    BY <1>3, <2>1 DEF PushRunner
<1>7. Books'
  BY <1>1, <1>3, <1>4, <1>5, <1>6, BooksStay DEF Books
<1>8. OneOwner' /\ FinishingHasEnded' /\ OnlyStartsCancel'
  <2>1. \A s \in Session : sessions'[s].universe = sessions[s].universe /\ ended'[s] >= ended[s]
    BY <1>1, <1>3, <1>5
  <2>2. ended' \in [Ids -> Nat] /\ loading' = loading
    BY <1>1, <1>3 DEF Books
  <2> QED
    BY <1>3, <2>1, <2>2, NothingTaken
<1>9. ASSUME NEW s \in Session
      PROVE  Safe(s)'
  <2>1. ToNotify(s)' <=> ToNotify(s)
    BY <1>1, <1>3, SharesBefore, SharesAfter
  <2>2. Aborting(s)' <=> Aborting(s)
    BY <1>1, <1>3, SharesBefore, SharesAfter DEF Working
  <2>3. CASE s # v
    <3>1. Preparing(s)' <=> Preparing(s)
      BY <1>1, <1>2, <1>3, <2>3, SharesBefore, SharesAfter DEF Works
    <3>2. SameView(s)
      BY <1>1, <1>3, <1>5, <1>6, <2>1, <2>2, <2>3, <3>1 DEF SameView
    <3> QED
      BY <1>1, <1>3, <3>2, ViewStays
  <2>4. CASE s = v
    <3>1. Preparing(v)
      BY <1>2, <1>3 DEF Preparing, Works
    <3>2. ~Preparing(v)'
      BY <1>1, <1>3, <1>4, SharesAfter
    <3>3. Safe(v) /\ runners[v] \in Nat /\ ended[v] \in Nat /\ ended'[v] = ended[v] /\ finished' = finished
      BY <1>1, <1>3, <1>4
    <3>4. ~(ended[v] = 1 /\ v \notin finished)
      BY <3>1, <3>3 DEF Safe, EndsAgree
    <3>5. runners'[v] > 0
      BY <1>4, <1>6, <3>3
    <3>6. InOrder(v)'
      BY <1>4, <1>5, <2>1, <2>4, <3>2, <3>3 DEF InOrder, Safe
    <3>7. EndsAgree(v)'
      BY <3>3, <3>4 DEF EndsAgree, Safe
    <3>8. Accounted(v)'
      BY <3>5 DEF Accounted, Handed
    <3> QED
      BY <2>4, <3>6, <3>7, <3>8 DEF Safe
  <2> QED
    BY <2>3, <2>4
<1> QED
  BY <1>5, <1>7, <1>8, <1>9 DEF OwnershipInv

\* A session under preparation is queued for the loader.
LEMMA LoaderEffect ==
  ASSUME Owned, NEW t \in Thread, NEW q \in ThreadRecord, Moves(t, q), HandsToLoader(t, q)
  PROVE  OwnershipInv'
<1>1. /\ Session \subseteq Ids /\ Books /\ OneOwner /\ FinishingHasEnded /\ OnlyStartsCancel
      /\ ThreadsTyped /\ \A s \in Session : Safe(s) /\ runners[s] \in Nat /\ ended[s] \in Nat
  BY Numbers
<1>2. PICK v : v = thread[t].session
  OBVIOUS
<1>3. /\ loading' = loading \cup {v} /\ thread[t].pc \in Working /\ thread[t].victims = {}
      /\ q.pc \notin Working \cup Finishing \cup {"cancel"} /\ q.victims = {} /\ thread[t].pc # "abort"
      /\ UNCHANGED <<sessions, active, runners, ended, finished>> /\ UNCHANGED workload
  BY <1>2 DEF HandsToLoader, Leaves, Moves
<1>4. v \in Session /\ ~OtherWorks(t, v)
  BY <1>1, <1>2, <1>3, HeldAreSessions, SoleOwner DEF OnSession
<1>5. /\ Session' = Session /\ Len(sessions') = Len(sessions)
      /\ \A s \in Session : /\ sessions'[s].universe = sessions[s].universe
                            /\ Listed(s)' <=> Listed(s)
                            /\ Cancelled(s)' <=> Cancelled(s)
  BY <1>3, RegistryStays
<1>6. Books'
  BY <1>1, <1>3, <1>4, <1>5, BooksStay DEF Books
<1>7. OneOwner' /\ FinishingHasEnded' /\ OnlyStartsCancel'
  <2>1. \A s \in Session : sessions'[s].universe = sessions[s].universe /\ ended'[s] >= ended[s]
    BY <1>1, <1>3, <1>5
  <2>2. ended' \in [Ids -> Nat]
    BY <1>1, <1>3 DEF Books
  <2>3. \A s \in Session : OtherWorks(t, s) => s \notin loading' \/ s \in loading
    BY <1>3, <1>4
  <2> QED
    BY <1>3, <2>1, <2>2, <2>3, NothingTaken
<1>8. ASSUME NEW s \in Session
      PROVE  Safe(s)'
  <2>1. ToNotify(s)' <=> ToNotify(s)
    BY <1>1, <1>3, SharesBefore, SharesAfter
  <2>2. Aborting(s)' <=> Aborting(s)
    BY <1>1, <1>3, SharesBefore, SharesAfter DEF Working
  <2>3. Preparing(s)' <=> Preparing(s)
    BY <1>1, <1>2, <1>3, SharesBefore, SharesAfter DEF Works
  <2>4. SameView(s)
    BY <1>3, <1>5, <2>1, <2>2, <2>3 DEF SameView
  <2> QED
    BY <1>1, <1>3, <2>4, ViewStays
<1> QED
  BY <1>5, <1>6, <1>7, <1>8 DEF OwnershipInv

-----------------------------------------------------------------------------
\* A loader takes a queued session up, or crosses a cancelled one.
LEMMA TakeUpEffect ==
  ASSUME Owned, NEW t \in Thread, NEW q \in ThreadRecord, Moves(t, q), TakesUp(t, q)
  PROVE  OwnershipInv'
<1>1. /\ Session \subseteq Ids /\ Books /\ OneOwner /\ FinishingHasEnded /\ OnlyStartsCancel
      /\ ThreadsTyped /\ \A s \in Session : Safe(s) /\ runners[s] \in Nat /\ ended[s] \in Nat
  BY Numbers
<1>2. PICK v \in loading :
        /\ loading' = loading \ {v}
        /\ thread[t].pc = "ready" /\ thread[t].victims = {} /\ q.victims = {}
        /\ \/ Cancelled(v) /\ q = thread[t]
           \/ q.pc = "load" /\ q.session = v /\ q.universe = sessions[v].universe
        /\ UNCHANGED <<sessions, active, runners, ended, finished>>
  BY DEF TakesUp
<1>3. UNCHANGED workload /\ v \in Session /\ ~OtherWorks(t, v)
  BY <1>1, <1>2, LoadingIsSole DEF Moves, Books
<1>4. /\ Session' = Session /\ Len(sessions') = Len(sessions)
      /\ \A s \in Session : /\ sessions'[s].universe = sessions[s].universe
                            /\ Listed(s)' <=> Listed(s)
                            /\ Cancelled(s)' <=> Cancelled(s)
  BY <1>2, RegistryStays
<1>5. Books'
  BY <1>1, <1>2, <1>4, BooksStay DEF Books
<1>6. OneOwner' /\ FinishingHasEnded' /\ OnlyStartsCancel'
  <2>1. q.pc \in Working => /\ q.session \notin loading' /\ ~OtherWorks(t, q.session)
                            /\ q.universe = sessions'[q.session].universe
    BY <1>2, <1>3, <1>4 DEF Working
  <2>2. q.pc \notin Finishing /\ q.pc # "cancel"
    BY <1>2 DEF Finishing
  <2>3. \A s \in Session : sessions'[s].universe = sessions[s].universe /\ ended'[s] >= ended[s]
    BY <1>1, <1>2, <1>4
  <2>4. ended \in [Ids -> Nat] /\ ended' \in [Ids -> Nat]
    BY <1>1, <1>2 DEF Books
  <2>5. \A s \in Session : OtherWorks(t, s) => s \notin loading' \/ s \in loading
    BY <1>2
  <2> QED
    BY <1>1, <2>1, <2>2, <2>3, <2>4, <2>5, ThreadsStayRight
<1>7. ASSUME NEW s \in Session
      PROVE  Safe(s)'
  <2>1. ToNotify(s)' <=> ToNotify(s)
    BY <1>1, <1>2, SharesBefore, SharesAfter
  <2>2. Aborting(s)' <=> Aborting(s)
    BY <1>1, <1>2, SharesBefore, SharesAfter
  <2>3. CASE s # v \/ (q.pc = "load" /\ q.session = v)
    <3>1. Preparing(s)' <=> Preparing(s)
      BY <1>1, <1>2, <2>3, SharesBefore, SharesAfter DEF Works, Working
    <3>2. SameView(s)
      BY <1>2, <1>4, <2>1, <2>2, <3>1 DEF SameView
    <3> QED
      BY <1>1, <1>3, <3>2, ViewStays
  <2>4. CASE s = v /\ Cancelled(v) /\ q = thread[t]
    <3>1. ~Preparing(v)' /\ ~Aborting(v)
      BY <1>1, <1>2, <1>3, <2>4, SharesBefore, SharesAfter DEF Working
    <3>2. Safe(v) /\ (Handed(v)' <=> Handed(v)) /\ (Started' <=> Started)
      BY <1>1, <1>2, <1>3, <2>1, <2>4 DEF Handed, Started
    <3>3. Started \/ Handed(v)
      BY <2>4, <3>1, <3>2 DEF Safe, Accounted
    <3>4. InOrder(v)'
      BY <1>3, <1>4, <2>1, <2>4, <3>1, <3>2 DEF InOrder, Safe
    <3>5. EndsAgree(v)'
      BY <1>2, <1>3, <1>4, <2>1, <2>4, <3>1, <3>2 DEF EndsAgree, Safe
    <3>6. Accounted(v)'
      BY <1>3, <1>4, <3>2, <3>3 DEF Accounted, Safe
    <3> QED
      BY <2>4, <3>4, <3>5, <3>6 DEF Safe
  <2> QED
    BY <1>2, <2>3, <2>4
<1> QED
  BY <1>4, <1>5, <1>6, <1>7 DEF OwnershipInv

\* A loader leaves a session its canceller or its replacement answers for.
LEMMA GiveUpEffect ==
  ASSUME Owned, NEW t \in Thread, NEW q \in ThreadRecord, Moves(t, q), GivesUp(t, q)
  PROVE  OwnershipInv'
<1>1. /\ Session \subseteq Ids /\ Books /\ OneOwner /\ FinishingHasEnded /\ OnlyStartsCancel
      /\ ThreadsTyped /\ \A s \in Session : Safe(s) /\ runners[s] \in Nat /\ ended[s] \in Nat
  BY Numbers
<1>2. PICK v : v = thread[t].session
  OBVIOUS
<1>3. /\ thread[t].pc \in Working /\ thread[t].victims = {}
      /\ q.pc \notin Working \cup Finishing \cup {"cancel"} /\ q.victims = {}
      /\ UNCHANGED owned /\ UNCHANGED workload
      /\ \/ Cancelled(v) /\ thread[t].pc # "abort"
         \/ thread[t].pc = "abort" /\ v \notin active[thread[t].universe]
  BY <1>2 DEF GivesUp, Leaves, Moves
<1>4. v \in Session /\ ~OtherWorks(t, v) /\ v \notin loading
  BY <1>1, <1>2, <1>3, HeldAreSessions, SoleOwner DEF OnSession
<1>5. /\ Session' = Session /\ Len(sessions') = Len(sessions)
      /\ \A s \in Session : /\ sessions'[s].universe = sessions[s].universe
                            /\ Listed(s)' <=> Listed(s)
                            /\ Cancelled(s)' <=> Cancelled(s)
  BY <1>3, RegistryStays DEF owned
<1>6. Books'
  BY <1>1, <1>3, <1>5, BooksStay DEF Books, owned
<1>7. OneOwner' /\ FinishingHasEnded' /\ OnlyStartsCancel'
  <2>1. \A s \in Session : sessions'[s].universe = sessions[s].universe /\ ended'[s] >= ended[s]
    BY <1>1, <1>3, <1>5 DEF owned
  <2>2. ended' \in [Ids -> Nat] /\ loading' = loading
    BY <1>1, <1>3 DEF Books, owned
  <2> QED
    BY <1>3, <2>1, <2>2, NothingTaken
<1>8. ASSUME NEW s \in Session
      PROVE  Safe(s)'
  <2>1. ToNotify(s)' <=> ToNotify(s)
    BY <1>1, <1>3, SharesBefore, SharesAfter
  <2>2. CASE s # v
    <3>1. Preparing(s)' <=> Preparing(s)
      BY <1>1, <1>2, <1>3, <2>2, SharesBefore, SharesAfter DEF Works, owned
    <3>2. Aborting(s)' <=> Aborting(s)
      BY <1>1, <1>2, <1>3, <2>2, SharesBefore, SharesAfter DEF Working
    <3>3. SameView(s)
      BY <1>3, <1>5, <2>1, <3>1, <3>2 DEF SameView, owned
    <3> QED
      BY <1>1, <1>3, <3>3, ViewStays
  <2>3. CASE s = v
    <3>1. ~Preparing(v)'
      BY <1>1, <1>3, <1>4, SharesAfter DEF owned
    <3>2. Safe(v) /\ (Handed(v)' <=> Handed(v)) /\ (Started' <=> Started)
      BY <1>1, <1>3, <1>4, <2>1, <2>3 DEF Handed, Started, owned
    <3>3. Started \/ Handed(v)
      <4>1. CASE Cancelled(v) /\ thread[t].pc # "abort"
        <5>1. ~Aborting(v)
          BY <1>4, <4>1, SharesBefore
        <5> QED
          BY <3>2, <4>1, <5>1 DEF Safe, Accounted
      <4>2. CASE thread[t].pc = "abort" /\ v \notin active[thread[t].universe]
        <5>1. thread[t].universe = sessions[v].universe
          BY <1>1, <1>2, <1>3 DEF OneOwner
        <5> QED
          BY <3>2, <4>2, <5>1 DEF Safe, Accounted, Listed
      <4> QED
        BY <1>3, <4>1, <4>2
    <3>4. InOrder(v)'
      BY <1>4, <1>5, <2>1, <2>3, <3>1, <3>2 DEF InOrder, Safe
    <3>5. EndsAgree(v)'
      BY <1>3, <1>4, <1>5, <2>1, <2>3, <3>1, <3>2 DEF EndsAgree, Safe, owned
    <3>6. Accounted(v)'
      BY <1>4, <1>5, <3>2, <3>3 DEF Accounted, Safe
    <3> QED
      BY <2>3, <3>4, <3>5, <3>6 DEF Safe
  <2> QED
    BY <2>2, <2>3
<1> QED
  BY <1>5, <1>6, <1>7, <1>8 DEF OwnershipInv

-----------------------------------------------------------------------------
\* Cancelling one session directly changes its flag and nothing else of the view.
LEMMA OneFlag ==
  ASSUME Owned, NEW v \in Session, CancelDirect(v) \/ CancelQuietly(v)
  PROVE  /\ Session' = Session /\ Len(sessions') = Len(sessions) /\ UNCHANGED active
         /\ Cancelled(v)'
         /\ \A s \in Session : /\ sessions'[s].universe = sessions[s].universe
                               /\ Listed(s)' <=> Listed(s)
                               /\ s # v => (Cancelled(s)' <=> Cancelled(s))
<1>1. TypeOK /\ sessions \in Seq(SessionRecord)
  BY Numbers DEF TypeOK
<1>2. Keeps /\ UNCHANGED active
  BY <1>1, SetFlags DEF CancelDirect, CancelQuietly
<1>3. sessions \in [Session -> SessionRecord]
  BY <1>1, LenProperties DEF Session
<1>4. \A s \in Session : s # v => sessions'[s] = sessions[s]
  BY <1>3 DEF CancelDirect, CancelQuietly
<1>5. Cancelled(v)'
  <2>1. sessions[v] \in SessionRecord /\ sessions[v] = [universe |-> sessions[v].universe,
          reason |-> sessions[v].reason, drives |-> sessions[v].drives,
          cancelled |-> sessions[v].cancelled, notified |-> sessions[v].notified]
    BY <1>3 DEF SessionRecord
  <2> QED
    BY <1>3, <2>1 DEF CancelDirect, CancelQuietly, Cancelled, SessionRecord
<1> QED
  BY <1>2, <1>4, <1>5 DEF Keeps, Session, Listed, Cancelled

\* A loader cancels its session without a word, and will tear it down.
LEMMA UnwindEffect ==
  ASSUME Owned, NEW t \in Thread, NEW q \in ThreadRecord, Moves(t, q), Unwinds(t, q)
  PROVE  OwnershipInv'
<1>1. /\ Session \subseteq Ids /\ Books /\ OneOwner /\ FinishingHasEnded /\ OnlyStartsCancel
      /\ ThreadsTyped /\ \A s \in Session : Safe(s) /\ runners[s] \in Nat /\ ended[s] \in Nat
  BY Numbers
<1>2. PICK v : v = thread[t].session
  OBVIOUS
<1>3. /\ thread[t].pc \in Working /\ thread[t].pc # "abort" /\ q.pc = "abort"
      /\ q.session = v /\ q.universe = thread[t].universe
      /\ thread[t].victims = {} /\ q.victims = {} /\ CancelQuietly(v)
      /\ UNCHANGED <<active, runners, ended, finished, loading>> /\ UNCHANGED workload
  BY <1>2 DEF Unwinds, SameWork, Moves
<1>4. v \in Session /\ ~OtherWorks(t, v) /\ v \notin loading
      /\ thread[t].universe = sessions[v].universe
  BY <1>1, <1>2, <1>3, HeldAreSessions, SoleOwner DEF OnSession, OneOwner
<1>5. /\ Session' = Session /\ Len(sessions') = Len(sessions)
      /\ Cancelled(v)'
      /\ \A s \in Session : /\ sessions'[s].universe = sessions[s].universe
                            /\ Listed(s)' <=> Listed(s)
                            /\ s # v => (Cancelled(s)' <=> Cancelled(s))
  BY <1>3, <1>4, OneFlag
<1>6. Books'
  BY <1>1, <1>3, <1>5, BooksStay DEF Books
<1>7. OneOwner' /\ FinishingHasEnded' /\ OnlyStartsCancel'
  <2>1. q.pc \in Working => /\ q.session \notin loading' /\ ~OtherWorks(t, q.session)
                            /\ q.universe = sessions'[q.session].universe
    BY <1>3, <1>4, <1>5
  <2>2. q.pc \notin Finishing /\ q.pc # "cancel"
    BY <1>3 DEF Finishing
  <2>3. \A s \in Session : sessions'[s].universe = sessions[s].universe /\ ended'[s] >= ended[s]
    BY <1>1, <1>3, <1>5
  <2>4. ended \in [Ids -> Nat] /\ ended' \in [Ids -> Nat] /\ loading' = loading
    BY <1>1, <1>3 DEF Books
  <2> QED
    BY <1>1, <2>1, <2>2, <2>3, <2>4, ThreadsStayRight
<1>8. ASSUME NEW s \in Session
      PROVE  Safe(s)'
  <2>1. ToNotify(s)' <=> ToNotify(s)
    BY <1>1, <1>3, SharesBefore, SharesAfter
  <2>2. Preparing(s)' <=> Preparing(s)
    BY <1>1, <1>2, <1>3, SharesBefore, SharesAfter DEF Works, Working
  <2>3. CASE s # v
    <3>1. Aborting(s)' <=> Aborting(s)
      BY <1>1, <1>2, <1>3, <2>3, SharesBefore, SharesAfter
    <3>2. SameView(s)
      BY <1>3, <1>5, <2>1, <2>2, <2>3, <3>1 DEF SameView
    <3> QED
      BY <1>1, <1>3, <3>2, ViewStays
  <2>4. CASE s = v
    <3>1. Aborting(v)'
      BY <1>1, <1>3, SharesAfter
    <3>2. Safe(v) /\ (Handed(v)' <=> Handed(v)) /\ (Started' <=> Started)
      BY <1>1, <1>3, <1>4, <2>1, <2>4 DEF Handed, Started
    <3>3. InOrder(v)'
      BY <1>3, <1>5, <2>1, <2>2, <2>4, <3>2 DEF InOrder, Safe
    <3>4. EndsAgree(v)'
      BY <1>3, <1>5, <2>1, <2>2, <2>4, <3>2 DEF EndsAgree, Safe
    <3>5. Accounted(v)'
      BY <1>5, <2>2, <2>4, <3>1, <3>2 DEF Accounted, Safe
    <3> QED
      BY <2>4, <3>3, <3>4, <3>5 DEF Safe
  <2> QED
    BY <2>3, <2>4
<1> QED
  BY <1>5, <1>6, <1>7, <1>8 DEF OwnershipInv

\* What the end of one session's listing changes of the lists.
LEMMA OneUnlisted ==
  ASSUME Owned, NEW v \in Session, NEW u, UNCHANGED sessions,
         u = sessions[v].universe,
         active' = [active EXCEPT ![u] = @ \ {v}]
  PROVE  /\ Session' = Session /\ Len(sessions') = Len(sessions)
         /\ ~Listed(v)'
         /\ \A s \in Session : /\ sessions'[s].universe = sessions[s].universe
                               /\ Cancelled(s)' <=> Cancelled(s)
                               /\ s # v => (Listed(s)' <=> Listed(s))
<1>1. TypeOK /\ sessions \in Seq(SessionRecord) /\ active \in [Universe -> SUBSET Session]
  BY Numbers DEF TypeOK
<1>2. \A s \in Session : sessions[s].universe \in Universe
  <2>1. sessions \in [Session -> SessionRecord]
    BY <1>1, LenProperties DEF Session
  <2> QED
    BY <2>1 DEF SessionRecord
<1> QED
  BY <1>1, <1>2 DEF Session, Listed, Cancelled

\* A failed load tears down the session its universe still lists.
LEMMA TearDownEffect ==
  ASSUME Owned, NEW t \in Thread, NEW q \in ThreadRecord, Moves(t, q), TearsDown(t, q)
  PROVE  OwnershipInv'
<1>1. /\ Session \subseteq Ids /\ Books /\ OneOwner /\ FinishingHasEnded /\ OnlyStartsCancel
      /\ ThreadsTyped /\ \A s \in Session : Safe(s) /\ runners[s] \in Nat /\ ended[s] \in Nat
  BY Numbers
<1>2. PICK v : v = thread[t].session
  OBVIOUS
<1>3. /\ thread[t].pc = "abort" /\ thread[t].victims = {}
      /\ q.pc \notin Working \cup Finishing \cup {"cancel"} /\ q.victims = {}
      /\ v \in active[thread[t].universe]
      /\ active' = [active EXCEPT ![thread[t].universe] = @ \ {v}]
      /\ ended' = [ended EXCEPT ![v] = @ + 1]
      /\ UNCHANGED <<sessions, runners, finished, loading>> /\ UNCHANGED workload
  BY <1>2 DEF TearsDown, Leaves, Moves
<1>4. thread[t].pc \in Working
  BY <1>3 DEF Working
<1>5. v \in Session /\ ~OtherWorks(t, v) /\ v \notin loading
      /\ thread[t].universe = sessions[v].universe
  BY <1>1, <1>2, <1>4, HeldAreSessions, SoleOwner DEF OnSession, OneOwner
<1>6. /\ Session' = Session /\ Len(sessions') = Len(sessions)
      /\ ~Listed(v)'
      /\ \A s \in Session : /\ sessions'[s].universe = sessions[s].universe
                            /\ Cancelled(s)' <=> Cancelled(s)
                            /\ s # v => (Listed(s)' <=> Listed(s))
  BY <1>3, <1>5, OneUnlisted
<1>7. Listed(v) /\ Preparing(v)
  BY <1>2, <1>3, <1>4, <1>5 DEF Listed, Preparing, Works
<1>8. runners[v] = 0 /\ ended[v] = 0 /\ ~ToNotify(v) /\ v \notin finished
  BY <1>1, <1>5, <1>7 DEF Safe, InOrder, EndsAgree
<1>9. /\ ended' \in [Ids -> Nat] /\ ended'[v] = 1
      /\ \A s \in Ids \ {v} : ended'[s] = ended[s]
  <2>1. ended \in [Ids -> Nat] /\ v \in Ids /\ ended[v] + 1 = 1
    BY <1>1, <1>5, <1>8 DEF Books
  <2> QED
    BY <1>3, <2>1
<1>10. Books'
  BY <1>1, <1>3, <1>5, <1>6, <1>9, BooksStay DEF Books
<1>11. OneOwner' /\ FinishingHasEnded' /\ OnlyStartsCancel'
  <2>1. ASSUME NEW s \in Session
        PROVE  sessions'[s].universe = sessions[s].universe /\ ended'[s] >= ended[s]
    BY <1>1, <1>6, <1>8, <1>9
  <2> QED
    BY <1>3, <1>9, <2>1, NothingTaken
<1>12. ASSUME NEW s \in Session
       PROVE  Safe(s)'
  <2>1. ToNotify(s)' <=> ToNotify(s)
    BY <1>1, <1>3, SharesBefore, SharesAfter
  <2>2. CASE s # v
    <3>1. Preparing(s)' <=> Preparing(s)
      BY <1>1, <1>2, <1>3, <2>2, SharesBefore, SharesAfter DEF Works
    <3>2. Aborting(s)' <=> Aborting(s)
      BY <1>1, <1>2, <1>3, <2>2, SharesBefore, SharesAfter DEF Working
    <3>3. SameView(s)
      BY <1>1, <1>3, <1>6, <1>9, <2>1, <2>2, <3>1, <3>2 DEF SameView
    <3> QED
      BY <1>1, <1>3, <3>3, ViewStays
  <2>3. CASE s = v
    <3>1. ~Preparing(v)' /\ ~ToNotify(v)'
      BY <1>1, <1>3, <1>5, <1>8, <2>1, <2>3, SharesAfter
    <3>2. InOrder(v)'
      BY <3>1 DEF InOrder
    <3>3. EndsAgree(v)'
      BY <1>3, <1>6, <1>8, <1>9, <3>1 DEF EndsAgree
    <3>4. Accounted(v)'
      BY <1>9 DEF Accounted, Handed
    <3> QED
      BY <2>3, <3>2, <3>3, <3>4 DEF Safe
  <2> QED
    BY <2>2, <2>3
<1> QED
  BY <1>6, <1>10, <1>11, <1>12 DEF OwnershipInv

-----------------------------------------------------------------------------
\* A runner event is taken.
LEMMA RunnerTaken ==
  ASSUME Owned, NEW v \in Session, TakeRunner(v)
  PROVE  /\ runners' \in [Ids -> Nat] /\ runners[v] > 0
         /\ \A s \in Ids \ {v} : runners'[s] = runners[s]
<1>1. runners \in [Ids -> Nat] /\ v \in Ids /\ runners[v] > 0
  BY Numbers DEF Books, TakeRunner
<1>2. runners[v] - 1 \in Nat
  BY <1>1
<1> QED
  BY <1>1, <1>2 DEF TakeRunner

\* A late runner of a finished session changes nothing.
LEMMA LateRunnerEffect ==
  ASSUME Owned, NEW t \in Thread, NEW q \in ThreadRecord, Moves(t, q), RunsLate(t, q)
  PROVE  OwnershipInv'
<1>1. /\ Session \subseteq Ids /\ Books /\ OneOwner /\ FinishingHasEnded /\ OnlyStartsCancel
      /\ ThreadsTyped /\ \A s \in Session : Safe(s) /\ runners[s] \in Nat /\ ended[s] \in Nat
  BY Numbers
<1>2. PICK v \in Session :
        /\ TakeRunner(v) /\ v \in finished /\ q = thread[t]
        /\ UNCHANGED <<sessions, active, ended, finished, loading>>
  BY DEF RunsLate
<1>3. UNCHANGED workload
  BY DEF Moves
<1>4. /\ Session' = Session /\ Len(sessions') = Len(sessions)
      /\ \A s \in Session : /\ sessions'[s].universe = sessions[s].universe
                            /\ Listed(s)' <=> Listed(s)
                            /\ Cancelled(s)' <=> Cancelled(s)
  BY <1>2, RegistryStays
<1>5. /\ runners' \in [Ids -> Nat] /\ runners[v] > 0
      /\ \A s \in Ids \ {v} : runners'[s] = runners[s]
  BY <1>2, RunnerTaken
<1>6. Books'
  BY <1>1, <1>2, <1>4, <1>5, BooksStay DEF Books
<1>7. OneOwner' /\ FinishingHasEnded' /\ OnlyStartsCancel'
  <2>1. thread' = thread
    BY <1>1, <1>2, MovedThread DEF Moves, ThreadsTyped
  <2>2. OneOwner'
    <3> SUFFICES ASSUME NEW o \in Thread, thread[o].pc \in Working
                 PROVE  /\ thread[o].session \notin loading
                        /\ \A p \in Thread : Works(p, thread[o].session) => p = o
                        /\ thread[o].universe = sessions[thread[o].session].universe
      BY <1>2, <2>1 DEF OneOwner, Works
    <3> QED
      BY <1>1 DEF OneOwner
  <2> QED
    BY <1>1, <1>2, <1>3, <2>1, <2>2 DEF FinishingHasEnded, OnlyStartsCancel, Started
<1>8. ASSUME NEW s \in Session
      PROVE  Safe(s)'
  <2>1. ToNotify(s)' <=> ToNotify(s)
    BY <1>1, <1>2, SharesBefore, SharesAfter
  <2>2. Preparing(s)' <=> Preparing(s)
    BY <1>1, <1>2, SharesBefore, SharesAfter DEF Works
  <2>3. Aborting(s)' <=> Aborting(s)
    BY <1>1, <1>2, SharesBefore, SharesAfter
  <2>4. CASE s # v
    <3>1. SameView(s)
      BY <1>1, <1>2, <1>4, <1>5, <2>1, <2>2, <2>3, <2>4 DEF SameView
    <3> QED
      BY <1>1, <1>3, <3>1, ViewStays
  <2>5. CASE s = v
    <3>1. Safe(v) /\ ended[v] = 1 /\ ended'[v] = 1 /\ v \in finished'
      BY <1>1, <1>2 DEF Safe, EndsAgree
    <3>2. InOrder(v)'
      BY <1>2, <1>4, <1>5, <2>1, <2>2, <2>5, <3>1 DEF InOrder, Safe
    <3>3. EndsAgree(v)' /\ Accounted(v)'
      BY <3>1 DEF EndsAgree, Accounted, Handed
    <3> QED
      BY <2>5, <3>2, <3>3 DEF Safe
  <2> QED
    BY <2>4, <2>5
<1> QED
  BY <1>4, <1>6, <1>7, <1>8 DEF OwnershipInv

\* The first runner to claim a session completes it.
LEMMA CompletionEffect ==
  ASSUME Owned, NEW t \in Thread, NEW q \in ThreadRecord, Moves(t, q), Completes(t, q)
  PROVE  OwnershipInv'
<1>1. /\ Session \subseteq Ids /\ Books /\ OneOwner /\ FinishingHasEnded /\ OnlyStartsCancel
      /\ ThreadsTyped /\ \A s \in Session : Safe(s) /\ runners[s] \in Nat /\ ended[s] \in Nat
  BY Numbers
<1>2. PICK v \in Session :
        /\ TakeRunner(v) /\ v \notin finished /\ Claim(v)
        /\ thread[t].pc = "ready" /\ thread[t].victims = {} /\ q.victims = {}
        /\ q.pc \in Finishing /\ q.session = v
        /\ UNCHANGED sessions \/ CancelDirect(v)
        /\ UNCHANGED <<active, loading>>
  BY DEF Completes
<1>3. UNCHANGED workload
  BY DEF Moves
<1>4. /\ Session' = Session /\ Len(sessions') = Len(sessions)
      /\ \A s \in Session : /\ sessions'[s].universe = sessions[s].universe
                            /\ Listed(s)' <=> Listed(s)
                            /\ s # v => (Cancelled(s)' <=> Cancelled(s))
  <2>1. CASE UNCHANGED sessions
    BY <1>2, <2>1, RegistryStays
  <2>2. CASE CancelDirect(v)
    BY <2>2, OneFlag
  <2> QED
    BY <1>2, <2>1, <2>2
<1>5. /\ runners' \in [Ids -> Nat] /\ runners[v] > 0
      /\ \A s \in Ids \ {v} : runners'[s] = runners[s]
  BY <1>2, RunnerTaken
<1>6. ended[v] = 0 /\ ~(Preparing(v) /\ Listed(v)) /\ (ToNotify(v) => ~Listed(v))
  <2>1. Safe(v) /\ ended[v] \in Nat /\ runners[v] # 0
    BY <1>1, <1>5
  <2> QED
    BY <1>2, <2>1 DEF Safe, InOrder, EndsAgree
<1>7. /\ ended' \in [Ids -> Nat] /\ ended'[v] = 1 /\ finished' = finished \cup {v}
      /\ \A s \in Ids \ {v} : ended'[s] = ended[s]
  <2>1. ended \in [Ids -> Nat] /\ v \in Ids /\ ended[v] + 1 = 1
    BY <1>1, <1>6 DEF Books
  <2> QED
    BY <1>2, <2>1 DEF Claim
<1>8. Books'
  BY <1>1, <1>2, <1>4, <1>5, <1>7, BooksStay DEF Books
<1>9. OneOwner' /\ FinishingHasEnded' /\ OnlyStartsCancel'
  <2>1. q.pc \notin Working /\ q.pc # "cancel"
    BY <1>2 DEF Working, Finishing
  <2>2. q.pc \in Finishing => ended'[q.session] > 0
    BY <1>2, <1>7
  <2>3. ASSUME NEW s \in Session
        PROVE  sessions'[s].universe = sessions[s].universe /\ ended'[s] >= ended[s]
    BY <1>1, <1>4, <1>6, <1>7
  <2>4. ended \in [Ids -> Nat] /\ ended' \in [Ids -> Nat] /\ loading' = loading
    BY <1>1, <1>2, <1>7 DEF Books
  <2> QED
    BY <1>1, <2>1, <2>2, <2>3, <2>4, ThreadsStayRight
<1>10. ASSUME NEW s \in Session
       PROVE  Safe(s)'
  <2>1. ToNotify(s)' <=> ToNotify(s)
    BY <1>1, <1>2, SharesBefore, SharesAfter
  <2>2. Preparing(s)' <=> Preparing(s)
    BY <1>1, <1>2, SharesBefore, SharesAfter DEF Works, Working, Finishing
  <2>3. Aborting(s)' <=> Aborting(s)
    BY <1>1, <1>2, SharesBefore, SharesAfter DEF Finishing
  <2>4. CASE s # v
    <3>1. s \in finished' <=> s \in finished
      BY <1>7, <2>4
    <3>2. SameView(s)
      BY <1>1, <1>4, <1>5, <1>7, <2>1, <2>2, <2>3, <2>4, <3>1 DEF SameView
    <3> QED
      BY <1>1, <1>3, <3>2, ViewStays
  <2>5. CASE s = v
    <3>1. InOrder(v)'
      BY <1>2, <1>4, <1>6, <2>1, <2>2, <2>5 DEF InOrder
    <3>2. EndsAgree(v)' /\ Accounted(v)'
      BY <1>7 DEF EndsAgree, Accounted, Handed
    <3> QED
      BY <2>5, <3>1, <3>2 DEF Safe
  <2> QED
    BY <2>4, <2>5
<1> QED
  BY <1>4, <1>8, <1>9, <1>10 DEF OwnershipInv

\* The loop drops a session it has completed from the list.
LEMMA ClearEffect ==
  ASSUME Owned, NEW t \in Thread, NEW q \in ThreadRecord, Moves(t, q), Clears(t, q)
  PROVE  OwnershipInv'
<1>1. /\ Session \subseteq Ids /\ Books /\ OneOwner /\ FinishingHasEnded /\ OnlyStartsCancel
      /\ ThreadsTyped /\ \A s \in Session : Safe(s) /\ runners[s] \in Nat /\ ended[s] \in Nat
  BY Numbers
<1>2. PICK v, u : v = thread[t].session /\ u = thread[t].universe
  OBVIOUS
<1>3. /\ thread[t].pc \in Finishing /\ thread[t].victims = {} /\ q.victims = {}
      /\ q.pc \notin Working \cup Finishing \cup {"cancel"}
      /\ active' = [active EXCEPT ![u] = @ \ {v}]
      /\ UNCHANGED <<sessions, runners, ended, finished, loading>> /\ UNCHANGED workload
  BY <1>2 DEF Clears, ClearSession, Moves
<1>4. v \in Session /\ ended[v] > 0 /\ thread[t].pc \notin Working
  BY <1>1, <1>2, <1>3, HeldAreSessions DEF OnSession, FinishingHasEnded, Working, Finishing
<1>5. /\ Session' = Session /\ Len(sessions') = Len(sessions)
      /\ \A s \in Session : /\ sessions'[s].universe = sessions[s].universe
                            /\ Cancelled(s)' <=> Cancelled(s)
  BY <1>3 DEF Session, Cancelled
<1>6. ASSUME NEW s \in Session
      PROVE  /\ Listed(s)' => Listed(s)
             /\ s # v => (Listed(s)' <=> Listed(s))
  <2>1. TypeOK /\ sessions \in [Session -> SessionRecord] /\ active \in [Universe -> SUBSET Session]
    BY Numbers, LenProperties DEF TypeOK, Session
  <2>2. sessions[s].universe \in Universe
    BY <2>1 DEF SessionRecord
  <2> QED
    BY <1>3, <2>1, <2>2 DEF Listed
<1>7. Books'
  BY <1>1, <1>3, <1>5, BooksStay DEF Books
<1>8. OneOwner' /\ FinishingHasEnded' /\ OnlyStartsCancel'
  <2>1. \A s \in Session : sessions'[s].universe = sessions[s].universe /\ ended'[s] >= ended[s]
    BY <1>1, <1>3, <1>5
  <2>2. ended' \in [Ids -> Nat] /\ loading' = loading
    BY <1>1, <1>3 DEF Books
  <2> QED
    BY <1>3, <2>1, <2>2, NothingTaken
<1>9. ASSUME NEW s \in Session
      PROVE  Safe(s)'
  <2>1. ToNotify(s)' <=> ToNotify(s)
    BY <1>1, <1>3, SharesBefore, SharesAfter
  <2>2. Preparing(s)' <=> Preparing(s)
    BY <1>1, <1>3, <1>4, SharesBefore, SharesAfter DEF Works
  <2>3. Aborting(s)' <=> Aborting(s)
    BY <1>1, <1>3, <1>4, SharesBefore, SharesAfter DEF Working
  <2>4. CASE s # v
    <3>1. SameView(s)
      BY <1>3, <1>5, <1>6, <2>1, <2>2, <2>3, <2>4 DEF SameView
    <3> QED
      BY <1>1, <1>3, <3>1, ViewStays
  <2>5. CASE s = v
    <3>1. Safe(v) /\ ended'[v] > 0
      BY <1>1, <1>3, <1>4
    <3>2. InOrder(v)'
      BY <1>3, <1>4, <1>6, <2>1, <2>2, <2>5, <3>1 DEF InOrder, Safe
    <3>3. EndsAgree(v)'
      BY <1>3, <1>4, <1>6, <2>1, <2>2, <2>5, <3>1 DEF EndsAgree, Safe
    <3>4. Accounted(v)'
      BY <3>1 DEF Accounted, Handed
    <3> QED
      BY <2>5, <3>2, <3>3, <3>4 DEF Safe
  <2> QED
    BY <2>4, <2>5
<1> QED
  BY <1>5, <1>7, <1>8, <1>9 DEF OwnershipInv

-----------------------------------------------------------------------------
\* A start of a playlist cancels a session and hands it to nobody.
LEMMA StartOverEffect ==
  ASSUME Owned, NEW t \in Thread, NEW q \in ThreadRecord, Moves(t, q), StartsOver(t, q)
  PROVE  OwnershipInv'
<1>1. /\ Session \subseteq Ids /\ Books /\ OneOwner /\ FinishingHasEnded /\ OnlyStartsCancel
      /\ ThreadsTyped /\ \A s \in Session : Safe(s) /\ runners[s] \in Nat /\ ended[s] \in Nat
  BY Numbers
<1>2. PICK v : v = thread[t].session
  OBVIOUS
<1>3. /\ thread[t].pc = "cancel" /\ thread[t].victims = {} /\ q.victims = {}
      /\ q.pc \notin Working \cup Finishing \cup {"cancel"}
      /\ CancelDirect(v) /\ UNCHANGED active
      /\ UNCHANGED <<runners, ended, finished, loading>> /\ UNCHANGED workload
  BY <1>2 DEF StartsOver, CancelDirect, Moves
<1>4. v \in Session /\ Started /\ thread[t].pc \notin Working
  BY <1>1, <1>2, <1>3, HeldAreSessions DEF OnSession, OnlyStartsCancel, Working
<1>5. /\ Session' = Session /\ Len(sessions') = Len(sessions)
      /\ \A s \in Session : /\ sessions'[s].universe = sessions[s].universe
                            /\ Listed(s)' <=> Listed(s)
                            /\ s # v => (Cancelled(s)' <=> Cancelled(s))
  BY <1>3, <1>4, OneFlag
<1>6. Books'
  BY <1>1, <1>3, <1>5, BooksStay DEF Books
<1>7. OneOwner' /\ FinishingHasEnded' /\ OnlyStartsCancel'
  <2>1. \A s \in Session : sessions'[s].universe = sessions[s].universe /\ ended'[s] >= ended[s]
    BY <1>1, <1>3, <1>5
  <2>2. ended' \in [Ids -> Nat] /\ loading' = loading
    BY <1>1, <1>3 DEF Books
  <2> QED
    BY <1>3, <2>1, <2>2, NothingTaken
<1>8. ASSUME NEW s \in Session
      PROVE  Safe(s)'
  <2>1. ToNotify(s)' <=> ToNotify(s)
    BY <1>1, <1>3, SharesBefore, SharesAfter
  <2>2. Preparing(s)' <=> Preparing(s)
    BY <1>1, <1>3, <1>4, SharesBefore, SharesAfter DEF Works
  <2>3. Started' /\ (Handed(s)' <=> Handed(s)) /\ Safe(s)
    BY <1>1, <1>3, <1>4, <2>1 DEF Started, Handed
  <2>4. InOrder(s)'
    BY <1>3, <1>5, <2>1, <2>2, <2>3 DEF InOrder, Safe
  <2>5. EndsAgree(s)'
    BY <1>3, <1>5, <2>1, <2>2, <2>3 DEF EndsAgree, Safe
  <2>6. Accounted(s)'
    BY <1>5, <2>3 DEF Accounted, Safe
  <2> QED
    BY <2>4, <2>5, <2>6 DEF Safe
<1> QED
  BY <1>5, <1>6, <1>7, <1>8 DEF OwnershipInv

\* A session that leaves the list to be notified is in its canceller's hands.
LEMMA DroppedIsSafe ==
  ASSUME NEW s \in Session, Safe(s), Listed(s), ~Listed(s)', ToNotify(s)',
         UNCHANGED <<runners, ended, finished>>
  PROVE  Safe(s)'
<1>1. InOrder(s)'
  BY DEF InOrder
<1>2. EndsAgree(s)'
  BY DEF EndsAgree, Safe
<1>3. Accounted(s)'
  BY DEF Accounted, Handed
<1> QED
  BY <1>1, <1>2, <1>3 DEF Safe

\* The registry cancels some live sessions and takes them off the list.
LEMMA DropEffect ==
  ASSUME Owned, NEW t \in Thread, NEW q \in ThreadRecord, Moves(t, q), Drops(t, q)
  PROVE  OwnershipInv'
<1>1. /\ Session \subseteq Ids /\ Books /\ OneOwner /\ FinishingHasEnded /\ OnlyStartsCancel
      /\ ThreadsTyped /\ \A s \in Session : Safe(s) /\ runners[s] \in Nat /\ ended[s] \in Nat
      /\ TypeOK
  BY Numbers
<1>2. PICK u \in Universe : CancelAndDrop(u, q.victims) /\ q.victims \subseteq Live(u)
  BY DEF Drops
<1>3. PICK dead : dead = q.victims
  OBVIOUS
<1>4. /\ thread[t].victims = {} /\ thread[t].pc \notin Working
      /\ q.pc \notin Working \cup Finishing \cup {"cancel"}
      /\ UNCHANGED <<runners, ended, finished, loading>> /\ UNCHANGED workload
  BY DEF Drops, Moves, Working, Finishing, Notifying
<1>5. /\ sessions' = CancelLocked(dead) /\ active' = [active EXCEPT ![u] = @ \ dead]
      /\ dead \subseteq active[u] /\ sessions \in Seq(SessionRecord)
      /\ active \in [Universe -> SUBSET Session]
  BY <1>1, <1>2, <1>3 DEF CancelAndDrop, Live, TypeOK
<1>6. /\ Session' = Session /\ Len(sessions') = Len(sessions)
      /\ \A s \in Session : /\ sessions'[s].universe = sessions[s].universe
                            /\ s \notin dead => (Cancelled(s)' <=> Cancelled(s))
  BY <1>5, CancelLockedProperties DEF Session, Cancelled
<1>7. ASSUME NEW s \in Session
      PROVE  /\ s \in dead => Listed(s) /\ ~Listed(s)'
             /\ s \notin dead => (Listed(s)' <=> Listed(s))
  <2>1. sessions[s].universe \in Universe
    <3>1. sessions \in [Session -> SessionRecord]
      BY <1>5, LenProperties DEF Session
    <3> QED
      BY <3>1 DEF SessionRecord
  <2>2. s \in dead => sessions[s].universe = u
    BY <1>1, <1>5 DEF TypeOK
  <2> QED
    BY <1>5, <1>6, <2>1, <2>2 DEF Listed
<1>8. Books'
  BY <1>1, <1>4, <1>6, BooksStay DEF Books
<1>9. OneOwner' /\ FinishingHasEnded' /\ OnlyStartsCancel'
  <2>1. \A s \in Session : sessions'[s].universe = sessions[s].universe /\ ended'[s] >= ended[s]
    BY <1>1, <1>4, <1>6
  <2>2. ended' \in [Ids -> Nat] /\ loading' = loading
    BY <1>1, <1>4 DEF Books
  <2> QED
    BY <1>4, <2>1, <2>2, NothingTaken
<1>10. ASSUME NEW s \in Session
       PROVE  Safe(s)'
  <2>1. CASE s \in dead
    <3>1. ToNotify(s)'
      BY <1>1, <1>3, <2>1, SharesAfter
    <3> QED
      BY <1>1, <1>4, <1>7, <2>1, <3>1, DroppedIsSafe
  <2>2. CASE s \notin dead
    <3>1. ToNotify(s)' <=> ToNotify(s)
      BY <1>1, <1>3, <1>4, <2>2, SharesBefore, SharesAfter
    <3>2. Preparing(s)' <=> Preparing(s)
      BY <1>1, <1>4, SharesBefore, SharesAfter DEF Works
    <3>3. Aborting(s)' <=> Aborting(s)
      BY <1>1, <1>4, SharesBefore, SharesAfter DEF Working
    <3>4. SameView(s)
      BY <1>4, <1>6, <1>7, <2>2, <3>1, <3>2, <3>3 DEF SameView
    <3> QED
      BY <1>1, <1>4, <3>4, ViewStays
  <2> QED
    BY <2>1, <2>2
<1> QED
  BY <1>6, <1>8, <1>9, <1>10 DEF OwnershipInv

\* A new session is its thread's own; the ones it replaces are to be notified.
LEMMA RegisterEffect ==
  ASSUME Owned, NEW t \in Thread, NEW q \in ThreadRecord, Moves(t, q), Registers(t, q)
  PROVE  OwnershipInv'
<1>1. /\ Session \subseteq Ids /\ Books /\ OneOwner /\ FinishingHasEnded /\ OnlyStartsCancel
      /\ ThreadsTyped /\ \A s \in Session : Safe(s) /\ runners[s] \in Nat /\ ended[s] \in Nat
      /\ TypeOK /\ Len(sessions) \in Nat /\ Session \subseteq Nat
  BY Numbers
<1>2. PICK n, u, a, dead : /\ n = Len(sessions) + 1 /\ u = thread[t].universe
                           /\ a = thread[t].animation /\ dead = Adopted(u, a, thread[t].entire)
  OBVIOUS
<1>3. /\ thread[t].pc = "register" /\ q.pc = "running" /\ thread[t].victims = {}
      /\ q.session = n /\ q.universe = u /\ q.victims = dead
      /\ Len(sessions) < MaxSessions
      /\ UNCHANGED <<runners, ended, finished, loading>> /\ UNCHANGED workload
  BY <1>2 DEF Registers, RegisterSession, Moves
<1>4. a \in Animation /\ u \in Universe /\ thread[t].reason \in Reason /\ thread[t].entire \in BOOLEAN
      /\ RegisterSession(u, a, thread[t].reason, thread[t].entire)
  BY <1>1, <1>2 DEF Registers, ThreadsTyped, ThreadRecord
<1>5. /\ Len(sessions') = n /\ n \notin Session /\ Session' = Session \cup {n}
      /\ sessions'[n].universe = u /\ ~Cancelled(n)'
      /\ active' = [active EXCEPT ![u] = (@ \ dead) \cup {n}]
      /\ \A s \in Session : /\ sessions'[s].universe = sessions[s].universe
                            /\ s \notin dead => (Cancelled(s)' <=> Cancelled(s))
  <2>1. /\ Len(sessions') = n /\ n \notin Session /\ Session' = Session \cup {n}
        /\ sessions'[n] = [universe |-> u, reason |-> thread[t].reason, drives |-> Drives[a],
                           cancelled |-> FALSE, notified |-> FALSE]
        /\ active' = [active EXCEPT ![u] = (@ \ dead) \cup {n}]
        /\ \A s \in Session : /\ sessions'[s].universe = sessions[s].universe
                              /\ sessions'[s].cancelled = (s \in dead \/ sessions[s].cancelled)
    BY <1>1, <1>2, <1>4, RegisterProperties
  <2>2. sessions'[n].universe = u /\ ~Cancelled(n)'
    BY <2>1 DEF Cancelled
  <2>3. ASSUME NEW s \in Session, s \notin dead
        PROVE  Cancelled(s)' <=> Cancelled(s)
    BY <2>1, <2>3 DEF Cancelled
  <2> QED
    BY <2>1, <2>2, <2>3
<1>6. n \in Ids /\ n \in Nat /\ n <= MaxSessions
  BY <1>1, <1>2, <1>3, SessionManagerAssumption DEF Ids
<1>7. dead \subseteq active[u] /\ active \in [Universe -> SUBSET Session]
      /\ \A s \in active[u] : sessions[s].universe = u
  BY <1>1, <1>2, <1>4 DEF Adopted, Live, TypeOK
<1>8. ~OtherWorks(t, n) /\ ~OtherNotifies(t, n) /\ n \notin loading /\ n \notin dead /\ n \notin finished
  <2>1. \A o \in Thread : /\ thread[o].pc \in Working => thread[o].session \in Session
                          /\ thread[o].victims \subseteq Session
    BY <1>1, HeldAreSessions DEF OnSession
  <2>2. loading \subseteq Session /\ finished \subseteq Session /\ dead \subseteq Session
    BY <1>1, <1>4, <1>7 DEF Books
  <2> QED
    BY <1>5, <2>1, <2>2 DEF OtherWorks, OtherNotifies, Works
<1>9. runners[n] = 0 /\ ended[n] = 0
  BY <1>1, <1>5, <1>6 DEF Books
<1>10. Books'
  <2>1. \A s \in Ids \ Session' : runners'[s] = 0 /\ ended'[s] = 0
    BY <1>1, <1>3, <1>5 DEF Books
  <2> QED
    BY <1>1, <1>3, <1>5, <1>6, <2>1 DEF Books
<1>11. OneOwner' /\ FinishingHasEnded' /\ OnlyStartsCancel'
  <2>1. q.pc \in Working => /\ q.session \notin loading' /\ ~OtherWorks(t, q.session)
                            /\ q.universe = sessions'[q.session].universe
    BY <1>3, <1>5, <1>8
  <2>2. q.pc \notin Finishing /\ q.pc # "cancel"
    BY <1>3 DEF Finishing
  <2>3. \A s \in Session : sessions'[s].universe = sessions[s].universe /\ ended'[s] >= ended[s]
    BY <1>1, <1>3, <1>5
  <2>4. ended \in [Ids -> Nat] /\ ended' \in [Ids -> Nat] /\ loading' = loading
    BY <1>1, <1>3 DEF Books
  <2> QED
    BY <1>1, <2>1, <2>2, <2>3, <2>4, ThreadsStayRight
<1>12. ASSUME NEW s \in Session
       PROVE  /\ s \in dead => Listed(s) /\ ~Listed(s)'
              /\ s \notin dead => (Listed(s)' <=> Listed(s))
  <2>1. sessions[s].universe \in Universe
    <3>1. sessions \in [Session -> SessionRecord]
      BY <1>1, LenProperties DEF Session, TypeOK
    <3> QED
      BY <3>1 DEF SessionRecord
  <2>2. s # n /\ (s \in dead => sessions[s].universe = u)
    BY <1>5, <1>7
  <2> QED
    BY <1>4, <1>5, <1>7, <2>1, <2>2 DEF Listed
<1>13. ASSUME NEW s \in Session
       PROVE  Safe(s)'
  <2>1. CASE s \in dead
    <3>1. ToNotify(s)'
      BY <1>1, <1>3, <2>1, SharesAfter
    <3> QED
      BY <1>1, <1>3, <1>12, <2>1, <3>1, DroppedIsSafe
  <2>2. CASE s \notin dead
    <3>1. ToNotify(s)' <=> ToNotify(s)
      BY <1>1, <1>3, <2>2, SharesBefore, SharesAfter
    <3>2. Preparing(s)' <=> Preparing(s)
      BY <1>1, <1>3, <1>5, SharesBefore, SharesAfter DEF Works, Working
    <3>3. Aborting(s)' <=> Aborting(s)
      BY <1>1, <1>3, SharesBefore, SharesAfter
    <3>4. SameView(s)
      BY <1>3, <1>5, <1>12, <2>2, <3>1, <3>2, <3>3 DEF SameView
    <3> QED
      BY <1>1, <1>3, <3>4, ViewStays
  <2> QED
    BY <2>1, <2>2
<1>14. Safe(n)'
  <2>1. Preparing(n)' /\ ~ToNotify(n)'
    BY <1>1, <1>3, <1>8, SharesAfter DEF Working
  <2>2. Listed(n)'
    BY <1>4, <1>5, <1>7 DEF Listed
  <2>3. InOrder(n)'
    BY <1>3, <1>9, <2>1 DEF InOrder
  <2>4. EndsAgree(n)'
    BY <1>3, <1>8, <1>9 DEF EndsAgree
  <2>5. Accounted(n)'
    BY <1>5, <2>1, <2>2 DEF Accounted
  <2> QED
    BY <2>3, <2>4, <2>5 DEF Safe
<1> QED
  BY <1>5, <1>10, <1>11, <1>13, <1>14 DEF OwnershipInv

-----------------------------------------------------------------------------
(* The inductive invariant of playback: who owns which session, with the   *)
(* types the argument needs.                                               *)
PlaybackInv == Owned /\ workload \in Workloads

\* Threads stay typed.
LEMMA ThreadsStayTyped ==
  ASSUME ThreadsTyped, NEW t \in Thread, NEW q \in ThreadRecord, Moves(t, q),
         Session \subseteq Session'
  PROVE  ThreadsTyped'
BY ThreadMoves DEF Moves

\* No effect forgets a session.
LEMMA SessionsOnlyGrow ==
  ASSUME Owned, [Next]_smVars
  PROVE  Session \subseteq Session'
<1>1. TypeOK
  BY Numbers
<1>2. ASSUME NEW u \in Universe, NEW a \in Animation, NEW reason \in Reason,
             NEW entire \in BOOLEAN, RegisterSession(u, a, reason, entire)
      PROVE  Session \subseteq Session'
  BY <1>1, <1>2, RegisterProperties
<1>3. ASSUME Keeps
      PROVE  Session \subseteq Session'
  BY <1>3 DEF Keeps, Session
<1> QED
  BY <1>1, <1>2, <1>3, OnlyRegisterAdds

\* Every effect keeps the invariant.
LEMMA OwnershipStep ==
  ASSUME Owned, NEW t \in Thread, NEW q \in ThreadRecord, Moves(t, q), Effect(t, q)
  PROVE  OwnershipInv'
BY QuietEffects, RegisterEffect, NotifyEffect, RunnerEffect, LoaderEffect, TakeUpEffect,
   GiveUpEffect, UnwindEffect, TearDownEffect, LateRunnerEffect, CompletionEffect,
   ClearEffect, DropEffect, StartOverEffect
   DEF Effect

\* The invariant is inductive, and a step of playback is one of the registry.
LEMMA PlaybackStep ==
  ASSUME PlaybackInv, [PlaybackNext]_playbackVars
  PROVE  PlaybackInv' /\ [Next]_smVars
<1>1. Owned /\ workload \in Workloads
  BY DEF PlaybackInv
<1>2. TypeOK /\ ThreadsTyped /\ loading \subseteq Session
  BY <1>1, Numbers DEF Books
<1>3. CASE PlaybackNext
  <2>1. Effective
    BY <1>1, <1>2, <1>3, EveryStepHasAnEffect
  <2>2. PICK t \in Thread, q \in ThreadRecord : Moves(t, q) /\ Effect(t, q)
    BY <2>1 DEF Effective
  <2>3. [Next]_smVars
    BY <2>1 DEF Effective
  <2>4. TypeOK' /\ OwnershipInv'
    BY <1>1, <1>2, <2>2, <2>3, TypeStep, OwnershipStep
  <2>5. ThreadsTyped'
    BY <1>1, <1>2, <2>2, <2>3, SessionsOnlyGrow, ThreadsStayTyped
  <2>6. workload' \in Workloads
    BY <1>1, <2>2 DEF Moves
  <2> QED
    BY <2>3, <2>4, <2>5, <2>6 DEF PlaybackInv, Owned
<1>4. CASE UNCHANGED playbackVars
  <2>1. UNCHANGED <<smVars, runners, loading, finished, ended, workload, thread>>
    BY <1>4 DEF playbackVars, smVars, eventVars, endVars, bound
  <2>2. [Next]_smVars
    BY <2>1
  <2>3. TypeOK'
    BY <1>2, <2>2, TypeStep
  <2>4. UNCHANGED <<sessions, active, runners, loading, finished, ended, workload, thread>>
    BY <2>1 DEF smVars
  <2>5. Session' = Session
    BY <2>4 DEF Session
  <2>6. ThreadsTyped'
    BY <1>2, <2>4, <2>5 DEF ThreadsTyped
  <2>7. Books' /\ FinishingHasEnded' /\ OnlyStartsCancel'
    BY <1>1, <2>4, <2>5, Numbers DEF Books, FinishingHasEnded, OnlyStartsCancel, Started
  <2>8. OneOwner'
    <3> SUFFICES ASSUME NEW o \in Thread, thread[o].pc \in Working
                 PROVE  /\ thread[o].session \notin loading
                        /\ \A p \in Thread : Works(p, thread[o].session) => p = o
                        /\ thread[o].universe = sessions[thread[o].session].universe
      BY <2>4 DEF OneOwner, Works
    <3> QED
      BY <1>1, Numbers DEF OneOwner
  <2>9. ASSUME NEW s \in Session
        PROVE  Safe(s)'
    <3>1. SameView(s)
      BY <2>4 DEF SameView, ToNotify, Preparing, Works, Aborting, Listed, Cancelled
    <3> QED
      BY <1>1, <2>4, <3>1, Numbers, ViewStays
  <2> QED
    BY <1>1, <2>2, <2>3, <2>4, <2>5, <2>6, <2>7, <2>8, <2>9 DEF PlaybackInv, Owned, OwnershipInv
<1> QED
  BY <1>3, <1>4

\* The invariant holds initially.
LEMMA PlaybackStarts ==
  ASSUME PlaybackInit
  PROVE  PlaybackInv
<1>1. Init /\ workload \in Workloads
  BY DEF PlaybackInit
<1>2. sessions = <<>> /\ Len(sessions) = 0 /\ Session = {} /\ 0 <= MaxSessions
  BY <1>1, SessionManagerAssumption DEF Init, Session
<1>3. TypeOK
  <2>1. sessions = <<>> /\ <<>> \in Seq(SessionRecord) /\ <<>> \in Seq(Animation)
    BY DEF PlaybackInit, Init
  <2> QED
    BY <1>1, <1>2, <2>1 DEF Init, TypeOK, PlaylistState
<1>4. Ready \in ThreadRecord /\ Ready.pc = "ready" /\ Ready.ret = "ready" /\ Ready.victims = {}
  BY ReadyTyped
<1>5. Knows(Ready, Session)
  BY <1>4 DEF Knows, OnSession, Working, Finishing
<1>6. \A t \in Thread : thread[t] = Ready
  BY DEF PlaybackInit
<1>7. ThreadsTyped
  <2>1. thread = [t \in Thread |-> Ready]
    BY DEF PlaybackInit
  <2> QED
    BY <1>4, <1>5, <2>1 DEF ThreadsTyped
<1>8. Books
  BY <1>2 DEF PlaybackInit, Books
<1>9. OneOwner /\ FinishingHasEnded /\ OnlyStartsCancel
  BY <1>4, <1>6 DEF OneOwner, FinishingHasEnded, OnlyStartsCancel, Working, Finishing
<1> QED
  BY <1>1, <1>2, <1>3, <1>7, <1>8, <1>9 DEF PlaybackInv, Owned, OwnershipInv

(* The threads of playback, whatever they are in the middle of, agree on   *)
(* who ends which session: the types of their records and the ownership    *)
(* invariant hold throughout.                                              *)
THEOREM OwnershipHolds == PlaybackSpec => []PlaybackInv
<1>1. PlaybackInit => PlaybackInv
  BY PlaybackStarts
<1>2. PlaybackInv /\ [PlaybackNext]_playbackVars => PlaybackInv'
  BY PlaybackStep
<1> QED
  BY <1>1, <1>2, PTL DEF PlaybackSpec

(* Playback implements the registry: every step of the scheduler, the      *)
(* loop, the loaders and the request handlers is one call of a             *)
(* SessionManager method, or leaves the registry alone.                    *)
THEOREM PlaybackUsesTheRegistry == PlaybackSpec => Spec
<1>1. PlaybackInit => Init
  BY DEF PlaybackInit
<1>2. PlaybackInv /\ [PlaybackNext]_playbackVars => [Next]_smVars
  BY PlaybackStep
<1> QED
  BY <1>1, <1>2, OwnershipHolds, PTL DEF PlaybackSpec, Spec

(* So the running system, and not only the registry by itself, never has   *)
(* two live sessions of a universe on one output (issues #62, #65).        *)
THEOREM PlaybackKeepsOutputsExclusive == PlaybackSpec => []OutputsExclusive
BY PlaybackUsesTheRegistry, ExclusiveOutputs, PTL

(* SessionsEndOnce: a session's completion runs at most once, whatever     *)
(* runners, cancellers and failed loads meet on it (issue #85), and one    *)
(* that has not ended is in somebody's hands (issue #79).                  *)
THEOREM EverySessionEndsOnce == PlaybackSpec => []SessionsEndOnce
<1>1. PlaybackInv => SessionsEndOnce
  <2> SUFFICES ASSUME PlaybackInv
               PROVE  SessionsEndOnce
    OBVIOUS
  <2>1. Owned
    BY DEF PlaybackInv
  <2>2. /\ Session \subseteq Ids /\ Books
        /\ \A s \in Session : Safe(s) /\ runners[s] \in Nat /\ ended[s] \in Nat
    BY <2>1, Numbers
  <2>3. TornDownOnce
    <3> SUFFICES ASSUME NEW s \in Ids
                 PROVE  ended[s] <= 1
      BY DEF TornDownOnce
    <3>1. CASE s \in Session
      BY <2>2, <3>1 DEF Safe, EndsAgree
    <3>2. CASE s \notin Session
      BY <2>2, <3>2 DEF Books
    <3> QED
      BY <3>1, <3>2
  <2>4. NoSessionForgotten
    <3> SUFFICES ASSUME NEW s \in Session, ~Started
                 PROVE  \/ ended[s] > 0
                        \/ runners[s] > 0
                        \/ s \in loading
                        \/ \E t \in Thread : \/ thread[t].session = s /\ thread[t].pc \in Working
                                             \/ s \in thread[t].victims
      BY DEF NoSessionForgotten, Started
    <3>1. Handed(s) \/ Preparing(s)
      BY <2>2 DEF Safe, Accounted
    <3> QED
      BY <3>1 DEF Handed, Preparing, ToNotify, Works
  <2> QED
    BY <2>3, <2>4 DEF SessionsEndOnce
<1> QED
  BY <1>1, OwnershipHolds, PTL

-----------------------------------------------------------------------------
(* The inductive invariant behind NoStrandedPlaylist.                      *)

\* Counters at which the loop is on behalf of a playlist.
Choosing == {"busy?", "choose", "backstop", "status", "resumed"}

\* Counters at which the loop ends a session that has played to its end.
Completing == {"onFinish", "clear", "queue", "interrupted?", "consume", "chain"}

\* Counters of scheduleAnimation.
Performing == {"schedule", "register", "running", "start", "submit", "unwind", "abort", "unwound"}

\* The sessions that the playlists of a universe have had, and the latest of them.
Played(u) == {s \in Session : sessions[s].universe = u /\ sessions[s].reason = "Playlist"}

Latest(s) == \A r \in Played(sessions[s].universe) : r <= s

\* Work that only the loop does.
LoopWork(r) == r.ret = "playlist" \/ r.pc \in Choosing \cup Completing \cup Finishing

\* About to choose, or to register, the next session of a playlist.
NextInHand(r) == r.pc = "choose" \/ (r.ret = "playlist" /\ r.pc \in {"schedule", "register"})

\* What a thread may rely on: the session it ends is finished, and cancelled if
\* that is why it ends; nothing of a playlist plays while its next animation is chosen;
\* a session that has ended is the playlist's latest; the next event is made before
\* the snapshot is written back.
Proper(t) ==
  LET r == thread[t]
  IN  /\ LoopWork(r) => t = Loop
      /\ r.pc \in {"schedule", "register"} => (r.reason = "Playlist" <=> r.ret = "playlist")
      /\ r.pc \in Completing \cup Finishing =>
           r.session \in finished /\ r.universe = sessions[r.session].universe
      /\ r.pc \in {"abort", "clearCancelled", "finishCancelled"} => Cancelled(r.session)
      /\ NextInHand(r) => PlaylistSessions(r.universe) = {}
      /\ r.pc = "onFinish" /\ sessions[r.session].reason = "Playlist" => Latest(r.session)
      /\ r.pc = "status" => playlistEvents[r.universe] > 0

\* A thread that is about to carry the playlist of universe u on, or to clear it.
Carrying(t, u) ==
  LET r == thread[t]
  IN  /\ r.universe = u
      /\ \/ r.pc \in {"busy?", "choose", "backstop", "resumed", "retry", "clearPlaylist", "start status"}
         \/ r.ret = "playlist" /\ r.pc \in Performing
         \/ r.pc \in Completing \ {"consume"} /\ sessions[r.session].reason = "Playlist"

\* Why a playlist will go on, or need not.
Justified(u) ==
  \/ playlistEvents[u] > 0
  \/ PlaylistSessions(u) # {}
  \/ u \in crossed
  \/ LastOfPlaylistCancelled(u)
  \/ \E t \in Thread : Carrying(t, u)

EventsTyped == playlistEvents \in [Universe -> Nat] /\ crossed \subseteq Universe

ListedUntilOver == \A s \in Session : Listed(s) \/ Cancelled(s) \/ s \in finished

LatestPlays == \A u \in Universe : \A s \in PlaylistSessions(u) : Latest(s)

GoOnInv ==
  /\ EventsTyped /\ ListedUntilOver /\ LatestPlays
  /\ \A t \in Thread : Proper(t)
  /\ \A u \in Universe : playlistState[u] = "Active" => Justified(u)

\* Everything but thread t is at its place, and no session is added.
Beside(t) == \A o \in Thread \ {t} : thread'[o] = thread[o]

\* A step that adds no session changes the old ones so: a flag may be set, and
\* none leaves its list but the cancelled and the finished.
Evolves ==
  /\ Keeps /\ \A v \in Universe : active'[v] \subseteq active[v]
  /\ finished \subseteq finished'
  /\ \A s \in Session : Listed(s) => Listed(s)' \/ Cancelled(s)' \/ s \in finished'

\* The reasons universe u had to go on are there after the step of t.
Kept(t, u) ==
  /\ playlistState[u] = "Active" /\ playlistEvents'[u] >= playlistEvents[u]
  /\ u \in crossed => u \in crossed'
  /\ Carrying(t, u) => Carrying(t, u)'
  /\ \A s \in PlaylistSessions(u) : Listed(s)' \/ Cancelled(s)'

\* The views of a session that a step leaves behind.
LEMMA EvolvedSessions ==
  ASSUME TypeOK, TypeOK', Evolves
  PROVE  /\ Session' = Session
         /\ \A s \in Session :
              /\ sessions'[s].universe = sessions[s].universe
              /\ sessions'[s].reason = sessions[s].reason
              /\ sessions[s].universe \in Universe
              /\ Cancelled(s) => Cancelled(s)'
              /\ Listed(s)' => Listed(s)
              /\ Latest(s) => Latest(s)'
         /\ \A u \in Universe :
              /\ Played(u)' = Played(u)
              /\ PlaylistSessions(u)' \subseteq PlaylistSessions(u)
              /\ LastOfPlaylistCancelled(u) => LastOfPlaylistCancelled(u)'
<1>1. Session' = Session
  BY DEF Evolves, Keeps, Session
<1>2. ASSUME NEW s \in Session
      PROVE  /\ sessions'[s].universe = sessions[s].universe
             /\ sessions'[s].reason = sessions[s].reason
             /\ Cancelled(s) => Cancelled(s)'
  BY <1>2 DEF Evolves, Keeps, Cancelled
<1>3. ASSUME NEW s \in Session
      PROVE  sessions[s].universe \in Universe
  <2>1. sessions[s] \in SessionRecord
    BY ElementOfSeq DEF TypeOK, Session
  <2> QED
    BY <2>1 DEF SessionRecord
<1>4. ASSUME NEW u \in Universe
      PROVE  Played(u)' = Played(u)
  BY <1>1, <1>2 DEF Played
<1>5. ASSUME NEW s \in Session
      PROVE  /\ Listed(s)' => Listed(s)
             /\ Latest(s) => Latest(s)'
  BY <1>2, <1>3, <1>4 DEF Evolves, Listed, Latest
<1>6. ASSUME NEW u \in Universe
      PROVE  PlaylistSessions(u)' \subseteq PlaylistSessions(u)
  <2>1. active'[u] \subseteq active[u] /\ active[u] \subseteq Session
    BY DEF Evolves, TypeOK
  <2> QED
    BY <1>2, <2>1 DEF PlaylistSessions, Live
<1>7. ASSUME NEW u \in Universe, LastOfPlaylistCancelled(u)
      PROVE  LastOfPlaylistCancelled(u)'
  <2>1. PICK s \in Played(u) : Cancelled(s) /\ \A r \in Played(u) : r <= s
    BY <1>7 DEF LastOfPlaylistCancelled, Played
  <2>2. s \in Played(u)' /\ Cancelled(s)' /\ \A r \in Played(u)' : r <= s
    BY <1>2, <1>4, <2>1 DEF Played
  <2> QED
    BY <2>2 DEF LastOfPlaylistCancelled, Played
<1> QED
  BY <1>1, <1>2, <1>3, <1>4, <1>5, <1>6, <1>7

\* What a thread that does not move relies on stays, if the loop is not robbed of
\* an event.
LEMMA OthersStayProper ==
  ASSUME TypeOK, TypeOK', ThreadsTyped, Books, Evolves, NEW o \in Thread, Proper(o), thread'[o] = thread[o],
         LoopWork(thread[o]) => \A u \in Universe : playlistEvents'[u] >= playlistEvents[u],
         EventsTyped, EventsTyped'
  PROVE  Proper(o)'
<1> DEFINE r == thread[o]
<1>1. /\ r.universe \in Universe
      /\ r.pc \in Completing \cup Finishing \cup {"abort"} => r.session \in Session
  BY DEF ThreadsTyped, ThreadRecord, Knows, OnSession, Working, Proper, Books
<1>2. /\ Session' = Session
      /\ \A s \in Session :
           /\ sessions'[s].universe = sessions[s].universe
           /\ sessions'[s].reason = sessions[s].reason
           /\ Cancelled(s) => Cancelled(s)'
           /\ Latest(s) => Latest(s)'
      /\ \A u \in Universe : PlaylistSessions(u)' \subseteq PlaylistSessions(u)
  BY EvolvedSessions
<1>3. /\ LoopWork(r) => o = Loop
      /\ r.pc \in {"schedule", "register"} => (r.reason = "Playlist" <=> r.ret = "playlist")
  BY DEF Proper
<1>4. r.pc \in Completing \cup Finishing =>
        r.session \in finished' /\ r.universe = sessions'[r.session].universe
  BY <1>1, <1>2 DEF Proper, Evolves
<1>5. r.pc \in {"abort", "clearCancelled", "finishCancelled"} => Cancelled(r.session)'
  BY <1>1, <1>2 DEF Proper, Finishing
<1>6. NextInHand(r) => PlaylistSessions(r.universe)' = {}
  BY <1>1, <1>2 DEF Proper
<1>7. r.pc = "onFinish" /\ sessions'[r.session].reason = "Playlist" => Latest(r.session)'
  BY <1>1, <1>2 DEF Proper, Completing
<1>8. r.pc = "status" => playlistEvents'[r.universe] > 0
  BY <1>1 DEF Proper, LoopWork, Choosing, EventsTyped
<1> QED
  BY <1>3, <1>4, <1>5, <1>6, <1>7, <1>8 DEF Proper, LoopWork, NextInHand

\* A thread that does not move carries on what it carried on.
LEMMA OthersCarryOn ==
  ASSUME TypeOK, TypeOK', Books, Evolves, NEW o \in Thread, Proper(o), thread'[o] = thread[o],
         NEW u \in Universe, Carrying(o, u)
  PROVE  Carrying(o, u)'
<1>1. thread[o].pc \in Completing => thread[o].session \in Session
  BY DEF Proper, Books
<1>2. \A s \in Session : sessions'[s].reason = sessions[s].reason
  BY EvolvedSessions
<1> QED
  BY <1>1, <1>2 DEF Carrying

\* The invariant survives a step that adds no session, if what its thread relies
\* on holds again and every playlist that is running keeps a reason to go on.
LEMMA GoOnStep ==
  ASSUME PlaybackInv, PlaybackInv', GoOnInv, NEW t \in Thread, Beside(t), Evolves, Proper(t)', EventsTyped',
         t = Loop \/ \A u \in Universe : playlistEvents'[u] >= playlistEvents[u],
         \A u \in Universe : playlistState'[u] = "Active" => Kept(t, u) \/ Justified(u)'
  PROVE  GoOnInv'
<1>1. TypeOK /\ TypeOK' /\ ThreadsTyped /\ Books
  BY DEF PlaybackInv, Owned, OwnershipInv
<1>2. /\ Session' = Session
      /\ \A s \in Session :
           /\ sessions'[s].universe = sessions[s].universe
           /\ sessions'[s].reason = sessions[s].reason
           /\ Cancelled(s) => Cancelled(s)'
           /\ Latest(s) => Latest(s)'
      /\ \A u \in Universe :
           /\ Played(u)' = Played(u)
           /\ PlaylistSessions(u)' \subseteq PlaylistSessions(u)
           /\ LastOfPlaylistCancelled(u) => LastOfPlaylistCancelled(u)'
  BY <1>1, EvolvedSessions
<1>3. ListedUntilOver'
  <2> SUFFICES ASSUME NEW s \in Session
               PROVE  Listed(s)' \/ Cancelled(s)' \/ s \in finished'
    BY <1>2 DEF ListedUntilOver
  <2> QED
    BY <1>2 DEF GoOnInv, ListedUntilOver, Evolves
<1>4. \A u \in Universe : PlaylistSessions(u) \subseteq Session
  BY <1>1 DEF PlaylistSessions, Live, TypeOK
<1>5. LatestPlays'
  <2> SUFFICES ASSUME NEW u \in Universe, NEW s \in PlaylistSessions(u)'
               PROVE  Latest(s)'
    BY DEF LatestPlays
  <2>1. s \in PlaylistSessions(u) /\ s \in Session
    BY <1>2, <1>4
  <2>2. Latest(s)
    BY <2>1 DEF GoOnInv, LatestPlays
  <2> QED
    BY <1>2, <2>1, <2>2
<1>6. ASSUME NEW o \in Thread
      PROVE  Proper(o)'
  <2>1. CASE o = t
    BY <2>1
  <2>2. CASE o # t
    <3>1. Proper(o) /\ thread'[o] = thread[o] /\ EventsTyped
      BY <2>2 DEF GoOnInv, Beside
    <3>2. LoopWork(thread[o]) => \A u \in Universe : playlistEvents'[u] >= playlistEvents[u]
      BY <2>2, <3>1 DEF Proper
    <3> QED
      BY <1>1, <3>1, <3>2, OthersStayProper
  <2> QED
    BY <2>1, <2>2
<1>7. ASSUME NEW u \in Universe, playlistState'[u] = "Active"
      PROVE  Justified(u)'
  <2>1. SUFFICES ASSUME Kept(t, u)
                 PROVE  Justified(u)'
    BY <1>7
  <2>2. Justified(u) /\ EventsTyped
    BY <2>1 DEF Kept, GoOnInv
  <2>3. CASE playlistEvents[u] > 0
    BY <2>1, <2>2, <2>3 DEF Kept, Justified, EventsTyped
  <2>4. CASE PlaylistSessions(u) # {}
    <3>1. PICK s \in PlaylistSessions(u) : TRUE
      BY <2>4
    <3>2. s \in Session /\ Latest(s) /\ sessions[s].universe = u /\ sessions[s].reason = "Playlist"
      BY <1>1, <1>4, <3>1 DEF GoOnInv, LatestPlays, PlaylistSessions, Live, TypeOK
    <3>3. CASE Cancelled(s)'
      <4>1. s \in Played(u)' /\ \A r \in Played(u)' : r <= s
        BY <1>2, <3>2 DEF Played, Latest
      <4> QED
        BY <3>3, <4>1 DEF Justified, LastOfPlaylistCancelled, Played
    <3>4. CASE Listed(s)' /\ ~Cancelled(s)'
      <4>1. s \in PlaylistSessions(u)'
        BY <1>2, <3>2, <3>4 DEF PlaylistSessions, Live, Listed
      <4> QED
        BY <4>1 DEF Justified
    <3> QED
      BY <2>1, <3>1, <3>3, <3>4 DEF Kept
  <2>5. CASE u \in crossed
    BY <2>1, <2>5 DEF Kept, Justified
  <2>6. CASE LastOfPlaylistCancelled(u)
    BY <1>2, <2>6 DEF Justified
  <2>7. CASE \E o \in Thread : Carrying(o, u)
    <3>1. PICK o \in Thread : Carrying(o, u)
      BY <2>7
    <3>2. Carrying(o, u)'
      <4>1. CASE o = t
        BY <2>1, <3>1, <4>1 DEF Kept
      <4>2. CASE o # t
        <5>1. Proper(o) /\ thread'[o] = thread[o]
          BY <4>2 DEF GoOnInv, Beside
        <5> QED
          BY <1>1, <3>1, <5>1, OthersCarryOn
      <4> QED
        BY <4>1, <4>2
    <3> QED
      BY <3>2 DEF Justified
  <2> QED
    BY <2>2, <2>3, <2>4, <2>5, <2>6, <2>7 DEF Justified
<1> QED
  BY <1>3, <1>5, <1>6, <1>7 DEF GoOnInv

\* A thread that has nothing to do with a playlist.
Detached(r) ==
  /\ r.ret # "playlist"
  /\ r.pc \notin Choosing \cup Completing \cup Finishing \cup
                 {"schedule", "register", "abort", "retry", "clearPlaylist", "start status"}

LEMMA DetachedIsProper ==
  ASSUME NEW t \in Thread, Detached(thread[t])
  PROVE  Proper(t) /\ \A u \in Universe : ~Carrying(t, u)
BY DEF Detached, Proper, LoopWork, NextInHand, Choosing, Completing, Finishing, Carrying

\* The registry and the events stay as they are.
Calm == UNCHANGED <<sessions, active, finished, playlistEvents, crossed>>

\* A record is given to one thread.
LEMMA OneThreadMoves ==
  ASSUME ThreadsTyped, NEW t \in Thread, NEW q, thread' = [thread EXCEPT ![t] = q]
  PROVE  thread'[t] = q /\ Beside(t)
BY DEF ThreadsTyped, Beside

\* A jump of one thread.
LEMMA OneThreadJumps ==
  ASSUME ThreadsTyped, NEW t \in Thread, NEW pc, Jump(t, pc)
  PROVE  /\ Beside(t) /\ thread'[t].pc = pc
         /\ thread'[t].session = thread[t].session /\ thread'[t].universe = thread[t].universe
         /\ thread'[t].ret = thread[t].ret /\ thread'[t].reason = thread[t].reason
         /\ thread'[t].status = thread[t].status /\ thread'[t].animation = thread[t].animation
<1>1. thread[t] \in ThreadRecord /\ thread' = [thread EXCEPT ![t] = [thread[t] EXCEPT !.pc = pc]]
  BY DEF ThreadsTyped, Jump
<1>2. PICK q : q = [thread[t] EXCEPT !.pc = pc]
  OBVIOUS
<1>3. thread'[t] = q /\ Beside(t)
  BY <1>1, <1>2, OneThreadMoves
<1> QED
  BY <1>1, <1>2, <1>3 DEF ThreadRecord

LEMMA CalmEvolves ==
  ASSUME TypeOK, Calm
  PROVE  Evolves /\ Session' = Session
BY DEF Calm, Evolves, Keeps, Session, Listed

\* A calm step in which no playlist starts to run, unless it is justified.
LEMMA CalmStep ==
  ASSUME PlaybackInv, PlaybackInv', GoOnInv, NEW t \in Thread, Beside(t), Calm, Proper(t)',
         \A u \in Universe :
           playlistState'[u] = "Active" =>
             \/ playlistState[u] = "Active" /\ (Carrying(t, u) => Carrying(t, u)')
             \/ Justified(u)'
  PROVE  GoOnInv'
<1>1. TypeOK
  BY DEF PlaybackInv, Owned
<1>2. Evolves /\ Session' = Session
  BY <1>1, CalmEvolves
<1>3. EventsTyped' /\ \A u \in Universe : playlistEvents'[u] >= playlistEvents[u]
  BY DEF Calm, GoOnInv, EventsTyped
<1>4. ASSUME NEW u \in Universe, playlistState[u] = "Active", Carrying(t, u) => Carrying(t, u)'
      PROVE  Kept(t, u)
  <2>1. \A s \in PlaylistSessions(u) : Listed(s)'
    BY <1>1, <1>2 DEF Calm, PlaylistSessions, Live, Listed, TypeOK
  <2> QED
    BY <1>3, <1>4, <2>1 DEF Kept, Calm
<1> QED
  BY <1>2, <1>3, <1>4, GoOnStep

\* The common case: a thread that has nothing to do with a playlist neither
\* before the step nor after it.
LEMMA DetachedStep ==
  ASSUME PlaybackInv, PlaybackInv', GoOnInv, NEW t \in Thread, Beside(t), Calm,
         Detached(thread'[t]),
         \A u \in Universe :
           playlistState'[u] = "Active" =>
             \/ playlistState[u] = "Active" /\ ~Carrying(t, u)
             \/ Justified(u)'
  PROVE  GoOnInv'
<1>1. Proper(t)'
  BY DEF Detached, Proper, LoopWork, NextInHand, Choosing, Completing, Finishing
<1> QED
  BY <1>1, CalmStep

\* The adoption of a new session: an old one that it replaces is cancelled, and a
\* new session of a playlist is the only one of it that plays.
LEMMA GoOnRegisters ==
  ASSUME PlaybackInv, PlaybackInv', GoOnInv, NEW t \in Thread, ScheduleRegister(t)
  PROVE  GoOnInv'
<1> DEFINE r  == thread[t]
           v0 == r.universe
           dead == Adopted(v0, r.animation, r.entire)
           q  == [r EXCEPT !.session = Len(sessions) + 1, !.pc = "running",
                           !.victims = Adopted(r.universe, r.animation, r.entire)]
<1>1. TypeOK /\ TypeOK' /\ ThreadsTyped /\ Books /\ thread' = [thread EXCEPT ![t] = q]
  BY DEF PlaybackInv, Owned, OwnershipInv, ScheduleRegister, Goto
<1>2. r \in ThreadRecord /\ r.pc = "register" /\ Knows(r, Session)
  BY <1>1 DEF ThreadsTyped, ScheduleRegister, At
<1>3. /\ r.universe \in Universe /\ r.animation \in Animation /\ r.reason \in Reason
      /\ r.entire \in BOOLEAN
  BY <1>2 DEF ThreadRecord, Knows
<1>4. RegisterSession(r.universe, r.animation, r.reason, r.entire)
  BY DEF ScheduleRegister
<1>n. PICK n \in Nat : n = Len(sessions) + 1
  BY <1>1, LenProperties DEF TypeOK
<1>5. /\ Session' = Session \cup {n}
      /\ n \notin Session /\ \A s \in Session : s <= n
      /\ sessions'[n] = [universe |-> v0, reason |-> r.reason, drives |-> Drives[r.animation],
                         cancelled |-> FALSE, notified |-> FALSE]
      /\ \A s \in Session :
           /\ sessions'[s].universe = sessions[s].universe
           /\ sessions'[s].reason = sessions[s].reason
           /\ Cancelled(s)' <=> (s \in dead \/ Cancelled(s))
      /\ active' = [active EXCEPT ![v0] = (@ \ dead) \cup {n}]
  <2>1. \A s \in Session : s <= n
    BY <1>1, <1>n, LenProperties DEF TypeOK, Session
  <2>2. /\ Session' = Session \cup {n}
        /\ n \notin Session
        /\ sessions'[n] = [universe |-> r.universe, reason |-> r.reason, drives |-> Drives[r.animation],
                           cancelled |-> FALSE, notified |-> FALSE]
        /\ \A s \in Session :
             /\ sessions'[s].universe = sessions[s].universe
             /\ sessions'[s].reason = sessions[s].reason
             /\ sessions'[s].cancelled =
                  (s \in Adopted(r.universe, r.animation, r.entire) \/ sessions[s].cancelled)
        /\ active' = [active EXCEPT ![r.universe] =
                        (@ \ Adopted(r.universe, r.animation, r.entire)) \cup {n}]
    BY <1>1, <1>3, <1>4, <1>n, RegisterProperties
  <2>3. \A s \in Session : Cancelled(s)' <=> s \in dead \/ Cancelled(s)
    BY <2>2 DEF Cancelled
  <2> QED
    BY <2>1, <2>2, <2>3
<1>6. /\ thread'[t] = q /\ Beside(t)
      /\ q.pc = "running" /\ q.universe = v0 /\ q.ret = r.ret
  <2>1. q.pc = "running" /\ q.universe = v0 /\ q.ret = r.ret
    BY <1>2 DEF ThreadRecord
  <2> QED
    BY <1>1, <2>1, OneThreadMoves
<1>7. UNCHANGED <<finished, playlistEvents, crossed, playlistState>>
  BY <1>4 DEF ScheduleRegister, RegisterSession, eventVars, chainVars, endVars
<1>8. /\ \A u \in Universe : active[u] \subseteq Session /\ \A s \in active[u] : sessions[s].universe = u
      /\ \A s \in Session : sessions[s].universe \in Universe
  <2>1. ASSUME NEW s \in Session
        PROVE  sessions[s].universe \in Universe
    <3>1. sessions[s] \in SessionRecord
      BY <1>1, ElementOfSeq DEF TypeOK, Session
    <3> QED
      BY <3>1 DEF SessionRecord
  <2> QED
    BY <1>1, <2>1 DEF TypeOK
<1> HIDE DEF r, v0, dead, q
<1>9. Proper(t) /\ EventsTyped /\ EventsTyped'
  BY <1>7 DEF GoOnInv, EventsTyped
<1>10. (r.reason = "Playlist" <=> r.ret = "playlist") /\ (r.ret = "playlist" => t = Loop)
  BY <1>2, <1>9 DEF Proper, LoopWork, r
<1>11. r.reason = "Playlist" => PlaylistSessions(v0) = {}
  BY <1>2, <1>9, <1>10 DEF Proper, NextInHand, r, v0
<1>12. /\ active'[v0] = (active[v0] \ dead) \cup {n}
       /\ \A u \in Universe \ {v0} : active'[u] = active[u]
  BY <1>1, <1>3, <1>5 DEF TypeOK, v0
<1>13. ASSUME NEW u \in Universe
       PROVE  /\ u = v0 /\ r.reason = "Playlist" =>
                   Played(u)' = Played(u) \cup {n} /\ PlaylistSessions(u)' = {n}
              /\ u # v0 \/ r.reason # "Playlist" =>
                   Played(u)' = Played(u) /\ PlaylistSessions(u)' \subseteq PlaylistSessions(u)
  <2>1. ASSUME u = v0, r.reason = "Playlist"
        PROVE  Played(u)' = Played(u) \cup {n}
    BY <1>5, <2>1 DEF Played
  <2>2. ASSUME u # v0 \/ r.reason # "Playlist"
        PROVE  Played(u)' = Played(u)
    BY <1>5, <2>2 DEF Played
  <2>3. ASSUME NEW s \in Session, s \in PlaylistSessions(u)'
        PROVE  s \in PlaylistSessions(u)
    BY <1>5, <1>12, <2>3 DEF PlaylistSessions, Live
  <2>4. PlaylistSessions(u)' \subseteq Session'
    BY <1>1 DEF PlaylistSessions, Live, TypeOK
  <2>5. n \in PlaylistSessions(u)' <=> u = v0 /\ r.reason = "Playlist"
    <3>1. ~Cancelled(n)' /\ sessions'[n].reason = r.reason
      BY <1>5 DEF Cancelled
    <3>2. n \in active'[u] <=> u = v0
      BY <1>5, <1>8, <1>12
    <3> QED
      BY <3>1, <3>2 DEF PlaylistSessions, Live
  <2> QED
    BY <1>5, <1>11, <2>1, <2>2, <2>3, <2>4, <2>5
<1>14. ASSUME NEW s \in Session, Latest(s),
              sessions[s].universe # v0 \/ r.reason # "Playlist"
       PROVE  Latest(s)'
  BY <1>5, <1>8, <1>13, <1>14 DEF Latest
<1>15. ListedUntilOver'
  <2>1. ASSUME NEW s \in Session
        PROVE  Listed(s)' \/ Cancelled(s)' \/ s \in finished'
    <3>1. Listed(s) \/ Cancelled(s) \/ s \in finished
      BY DEF GoOnInv, ListedUntilOver
    <3>2. Listed(s) => Listed(s)' \/ s \in dead
      BY <1>5, <1>8, <1>12 DEF Listed
    <3> QED
      BY <1>5, <1>7, <3>1, <3>2
  <2>2. Listed(n)'
    BY <1>3, <1>5, <1>12 DEF Listed, v0
  <2> QED
    BY <1>5, <2>1, <2>2 DEF ListedUntilOver
<1>16. LatestPlays'
  <2> SUFFICES ASSUME NEW u \in Universe, NEW s \in PlaylistSessions(u)'
               PROVE  Latest(s)'
    BY DEF LatestPlays
  <2>1. CASE u = v0 /\ r.reason = "Playlist"
    <3>1. s = n /\ sessions'[n].universe = u
      BY <1>5, <1>13, <2>1
    <3>2. Played(u)' \subseteq Session'
      BY DEF Played
    <3>3. \A p \in Session' : p <= n
      BY <1>5, <1>n
    <3> QED
      BY <3>1, <3>2, <3>3 DEF Latest
  <2>2. CASE u # v0 \/ r.reason # "Playlist"
    <3>1. s \in PlaylistSessions(u) /\ Latest(s)
      BY <1>13, <2>2 DEF GoOnInv, LatestPlays
    <3>2. s \in Session /\ sessions[s].universe = u
      BY <1>8, <3>1 DEF PlaylistSessions, Live
    <3> QED
      BY <1>14, <2>2, <3>1, <3>2
  <2> QED
    BY <2>1, <2>2
<1>17. ASSUME NEW o \in Thread
       PROVE  Proper(o)'
  <2>1. CASE o = t
    BY <1>6, <1>10, <2>1 DEF Proper, LoopWork, NextInHand, Choosing, Completing, Finishing
  <2>2. CASE o # t
    <3> DEFINE p == thread[o]
    <3>1. Proper(o) /\ thread'[o] = p
      BY <1>6, <2>2 DEF GoOnInv, Beside
    <3>2. /\ p.universe \in Universe
          /\ p.pc \in Completing \cup Finishing \cup {"abort"} => p.session \in Session
      BY <1>1, <3>1 DEF ThreadsTyped, ThreadRecord, Knows, OnSession, Working, Proper, Books
    <3>3. LoopWork(p) => r.reason # "Playlist" /\ o = Loop
      BY <1>10, <2>2, <3>1 DEF Proper
    <3>4. p.pc \in {"schedule", "register"} => (p.reason = "Playlist" <=> p.ret = "playlist")
      BY <3>1 DEF Proper
    <3>5. p.pc \in Completing \cup Finishing =>
            p.session \in finished' /\ p.universe = sessions'[p.session].universe
      BY <1>5, <1>7, <3>1, <3>2 DEF Proper
    <3>6. p.pc \in {"abort", "clearCancelled", "finishCancelled"} => Cancelled(p.session)'
      BY <1>5, <3>1, <3>2 DEF Proper, Finishing
    <3>7. NextInHand(p) => PlaylistSessions(p.universe)' = {}
      <4>1. NextInHand(p) => LoopWork(p)
        BY DEF NextInHand, LoopWork, Choosing
      <4> QED
        BY <1>13, <3>1, <3>2, <3>3, <4>1 DEF Proper
    <3>8. p.pc = "onFinish" /\ sessions'[p.session].reason = "Playlist" => Latest(p.session)'
      BY <1>5, <1>14, <3>1, <3>2, <3>3 DEF Proper, LoopWork, Completing
    <3>9. p.pc = "status" => playlistEvents'[p.universe] > 0
      BY <1>7, <3>1 DEF Proper
    <3> QED
      BY <3>1, <3>3, <3>4, <3>5, <3>6, <3>7, <3>8, <3>9 DEF Proper, LoopWork, NextInHand
  <2> QED
    BY <2>1, <2>2
<1>18. ASSUME NEW u \in Universe, playlistState'[u] = "Active"
       PROVE  Justified(u)'
  <2>1. Justified(u)
    BY <1>7, <1>18 DEF GoOnInv
  <2>2. CASE u = v0 /\ r.reason = "Playlist"
    <3>1. PlaylistSessions(u)' # {}
      BY <1>13, <2>2
    <3> QED
      BY <3>1 DEF Justified
  <2>3. CASE u # v0 \/ r.reason # "Playlist"
    <3>1. CASE playlistEvents[u] > 0 \/ u \in crossed
      BY <1>7, <3>1 DEF Justified
    <3>2. CASE PlaylistSessions(u) # {}
      <4>1. PICK s \in PlaylistSessions(u) : Latest(s)
        BY <3>2 DEF GoOnInv, LatestPlays
      <4>2. s \in Session /\ sessions[s].universe = u /\ s \in Played(u) /\ s \in active[u]
        BY <1>8, <4>1 DEF PlaylistSessions, Live, Played
      <4>3. CASE s \in dead
        <5>1. Cancelled(s)' /\ s \in Played(u)' /\ \A p \in Played(u)' : p <= s
          BY <1>5, <1>13, <2>3, <4>1, <4>2, <4>3 DEF Latest
        <5> QED
          BY <5>1 DEF Justified, LastOfPlaylistCancelled, Played
      <4>4. CASE s \notin dead
        <5>1. s \in PlaylistSessions(u)'
          <6>1. s \in active'[u]
            BY <1>12, <4>2, <4>4
          <6>2. sessions'[s].reason = "Playlist" /\ ~Cancelled(s)'
            BY <1>5, <4>1, <4>2, <4>4 DEF PlaylistSessions, Live
          <6> QED
            BY <6>1, <6>2 DEF PlaylistSessions, Live
        <5> QED
          BY <5>1 DEF Justified
      <4> QED
        BY <4>3, <4>4
    <3>3. CASE LastOfPlaylistCancelled(u)
      <4>1. PICK s \in Played(u) : Cancelled(s) /\ \A p \in Played(u) : p <= s
        BY <3>3 DEF LastOfPlaylistCancelled, Played
      <4>2. s \in Played(u)' /\ Cancelled(s)' /\ \A p \in Played(u)' : p <= s
        BY <1>5, <1>13, <2>3, <4>1 DEF Played
      <4> QED
        BY <4>2 DEF Justified, LastOfPlaylistCancelled, Played
    <3>4. CASE \E o \in Thread : Carrying(o, u)
      <4>1. PICK o \in Thread : Carrying(o, u)
        BY <3>4
      <4>2. Carrying(o, u)'
        <5>1. CASE o = t
          BY <1>2, <1>6, <4>1, <5>1 DEF Carrying, Performing, Completing, r, v0
        <5>2. CASE o # t
          <6>1. Proper(o) /\ thread'[o] = thread[o]
            BY <1>6, <5>2 DEF GoOnInv, Beside
          <6>2. thread[o].pc \in Completing => thread[o].session \in Session
            BY <1>1, <6>1 DEF Proper, Books
          <6> QED
            BY <1>5, <4>1, <6>1, <6>2 DEF Carrying
        <5> QED
          BY <5>1, <5>2
      <4> QED
        BY <4>2 DEF Justified
    <3> QED
      BY <2>1, <3>1, <3>2, <3>3, <3>4 DEF Justified
  <2> QED
    BY <2>2, <2>3
<1> QED
  BY <1>9, <1>15, <1>16, <1>17, <1>18 DEF GoOnInv

-----------------------------------------------------------------------------
(* scheduleAnimation keeps playlists going.                                *)

\* A caller of scheduleAnimation that it returns to.
LEMMA Returning ==
  ASSUME ThreadsTyped, NEW t \in Thread, Proper(t), thread[t].pc \in Performing, thread[t].victims = {},
         NEW outcome \in {"ok", "Conflict", "Error"},
         thread' = [thread EXCEPT ![t] = Returned(thread[t], outcome)]
  PROVE  /\ Proper(t)' /\ Beside(t)
         /\ \A u \in Universe : Carrying(t, u) => Carrying(t, u)'
<1> DEFINE r == thread[t]
           q == Returned(thread[t], outcome)
<1>1. thread'[t] = q /\ Beside(t)
  BY OneThreadMoves
<1>2. r \in ThreadRecord
  BY DEF ThreadsTyped
<1>3. CASE r.ret = "playlist"
  <2>1. PICK pc \in {"backstop", "retry", "clearPlaylist"} : q = [r EXCEPT !.pc = pc, !.session = 0]
    BY <1>3 DEF Returned
  <2>2. q.pc = pc /\ q.ret = "playlist" /\ q.universe = r.universe
    BY <1>2, <1>3, <2>1 DEF ThreadRecord
  <2>3. t = Loop
    BY <1>3 DEF Proper, LoopWork
  <2> HIDE DEF q
  <2>4. Proper(t)'
    BY <1>1, <2>2, <2>3 DEF Proper, NextInHand, Completing, Finishing
  <2>5. ASSUME NEW u \in Universe, Carrying(t, u)
        PROVE  Carrying(t, u)'
    <3>1. r.universe = u
      BY <2>5 DEF Carrying
    <3> QED
      BY <1>1, <2>2, <3>1 DEF Carrying
  <2> QED
    BY <1>1, <2>4, <2>5
<1>4. CASE r.ret # "playlist"
  <2>1. Ready \in ThreadRecord /\ Ready.ret = "ready" /\ Ready.pc = "ready"
    BY ReadyTyped
  <2>2. r.ret \in Return /\ r.universe \in Universe /\ r.before \in Nat /\ r.idles \in SUBSET Creature
    BY <1>2 DEF ThreadRecord
  <2>3. q.pc \in {"ready", "idle", "after", "undo"} /\ q.ret = "ready"
    <3>1. CASE r.ret \in {"ready", "interrupt"}
      BY <2>1, <3>1 DEF Returned, ThreadRecord
    <3>2. CASE r.ret = "idle"
      BY <2>1, <3>2 DEF Returned, ThreadRecord
    <3>3. CASE r.ret = "onFinish"
      BY <2>1, <3>3 DEF Returned, ThreadRecord
    <3>4. CASE r.ret = "load"
      BY <2>1, <3>4 DEF Returned, ThreadRecord
    <3> QED
      BY <1>4, <2>2, <3>1, <3>2, <3>3, <3>4 DEF Return
  <2> HIDE DEF q
  <2>4. Proper(t)'
    BY <1>1, <2>3 DEF Proper, LoopWork, NextInHand, Choosing, Completing, Finishing
  <2>5. \A u \in Universe : ~Carrying(t, u)
    BY <1>4 DEF Carrying, Performing, Completing
  <2> QED
    BY <1>1, <2>4, <2>5
<1> QED
  BY <1>3, <1>4

\* A return in which the registry and the events stay as they are.
LEMMA ReturnStep ==
  ASSUME PlaybackInv, PlaybackInv', GoOnInv, NEW t \in Thread, thread[t].pc \in Performing,
         thread[t].victims = {}, NEW outcome \in {"ok", "Conflict", "Error"},
         thread' = [thread EXCEPT ![t] = Returned(thread[t], outcome)],
         Calm, UNCHANGED playlistState
  PROVE  GoOnInv'
<1>1. ThreadsTyped /\ Proper(t)
  BY DEF PlaybackInv, Owned, GoOnInv
<1>2. /\ Proper(t)' /\ Beside(t)
      /\ \A u \in Universe : Carrying(t, u) => Carrying(t, u)'
  BY <1>1, Returning
<1> QED
  BY <1>2, CalmStep

\* A jump within scheduleAnimation, or out of its loops.
LEMMA PerformingJump ==
  ASSUME PlaybackInv, PlaybackInv', GoOnInv, NEW t \in Thread, thread[t].pc \in Performing,
         NEW pc \in Performing \ {"schedule", "register", "abort"}, Jump(t, pc),
         Calm, UNCHANGED playlistState
  PROVE  GoOnInv'
<1>1. ThreadsTyped /\ Proper(t)
  BY DEF PlaybackInv, Owned, GoOnInv
<1>2. /\ Beside(t) /\ thread'[t].pc = pc
      /\ thread'[t].ret = thread[t].ret /\ thread'[t].universe = thread[t].universe
  BY <1>1, OneThreadJumps
<1>3. Proper(t)'
  BY <1>1, <1>2 DEF Proper, LoopWork, NextInHand, Performing, Choosing, Completing, Finishing
<1>4. \A u \in Universe : Carrying(t, u) => Carrying(t, u)'
  BY <1>2 DEF Carrying, Performing, Completing
<1> QED
  BY <1>2, <1>3, <1>4, CalmStep

\* A step of scheduleAnimation that leaves the registry as it is.
LEMMA SchedulingGoesOn ==
  ASSUME PlaybackInv, PlaybackInv', GoOnInv, NEW t \in Thread,
         \/ ScheduleConflict(t) \/ ScheduleNoSlot(t) \/ ScheduleBroken(t) \/ ScheduleAdmitted(t)
         \/ NotifyVictim(t) \/ ScheduleRunning(t)
         \/ ScheduleStart(t) \/ ScheduleSubmit(t) \/ ScheduleSubmitRejected(t)
         \/ UnwindReplaced(t) \/ Unwound(t) \/ StartIdle(t) \/ IdleDone(t)
  PROVE  GoOnInv'
<1> DEFINE r == thread[t]
<1>1. TypeOK /\ ThreadsTyped /\ Proper(t) /\ r \in ThreadRecord
  BY DEF PlaybackInv, Owned, GoOnInv, ThreadsTyped
<1>2. Calm /\ UNCHANGED playlistState
  BY DEF ScheduleConflict, ScheduleNoSlot, ScheduleBroken, ScheduleAdmitted, NotifyVictim, ScheduleRunning,
         ScheduleStart, ScheduleSubmit, ScheduleSubmitRejected, UnwindReplaced, Unwound, StartIdle, IdleDone,
         smVars, eventVars, chainVars, endVars, Calm
<1>3. r.pc \notin Notifying => r.victims = {}
  BY <1>1, NothingToNotify
<1>4. CASE ScheduleConflict(t) \/ ScheduleNoSlot(t) \/ ScheduleBroken(t)
  <2>1. r.pc = "schedule" /\ r.victims = {} /\ r.pc \in Performing
    BY <1>3, <1>4 DEF ScheduleConflict, ScheduleNoSlot, ScheduleBroken, At, Notifying, Performing
  <2>2. PICK outcome \in {"Conflict", "Error"} : thread' = [thread EXCEPT ![t] = Returned(r, outcome)]
    BY <1>4 DEF ScheduleConflict, ScheduleNoSlot, ScheduleBroken, Goto
  <2> QED
    BY <1>2, <2>1, <2>2, ReturnStep
<1>5. CASE ScheduleAdmitted(t)
  <2>1. At(t, "schedule") /\ Jump(t, "register")
    BY <1>5 DEF ScheduleAdmitted
  <2>2. /\ Beside(t) /\ thread'[t].pc = "register" /\ thread[t].pc = "schedule"
        /\ thread'[t].ret = thread[t].ret /\ thread'[t].universe = thread[t].universe
        /\ thread'[t].reason = thread[t].reason
    BY <1>1, <2>1, OneThreadJumps DEF At
  <2>3. \A u : PlaylistSessions(u)' = PlaylistSessions(u)
    BY <1>2 DEF Calm, PlaylistSessions, Live, Cancelled
  <2>4. Proper(t)'
    BY <1>1, <2>2, <2>3 DEF Proper, LoopWork, NextInHand, Choosing, Completing, Finishing
  <2>5. \A u \in Universe : Carrying(t, u) => Carrying(t, u)'
    BY <2>2 DEF Carrying, Performing, Completing
  <2> QED
    BY <1>2, <2>2, <2>4, <2>5, CalmStep
<1>6. CASE NotifyVictim(t)
  <2> DEFINE s == Smallest(r.victims)
             q == [r EXCEPT !.victims = @ \ {s}]
  <2>1. r.pc \in Notifying
    BY <1>3, <1>6 DEF NotifyVictim
  <2>2. thread' = [thread EXCEPT ![t] = q]
    BY <1>6 DEF NotifyVictim
  <2>3. q.pc = r.pc /\ q.ret = r.ret /\ q.universe = r.universe /\ q.session = r.session
    BY <1>1 DEF ThreadRecord
  <2>4. thread'[t] = q /\ Beside(t)
    BY <1>1, <2>2, OneThreadMoves
  <2> HIDE DEF q, s
  <2>5. Proper(t)'
    BY <1>1, <2>1, <2>3, <2>4 DEF Proper, LoopWork, NextInHand, Notifying, Choosing, Completing, Finishing
  <2>6. \A u \in Universe : Carrying(t, u) => Carrying(t, u)'
    BY <2>1, <2>3, <2>4 DEF Carrying, Notifying, Completing
  <2> QED
    BY <1>2, <2>4, <2>5, <2>6, CalmStep
<1>7. CASE ScheduleRunning(t)
  <2>1. PICK pc \in {"submit", "start"} : Jump(t, pc)
    BY <1>7 DEF ScheduleRunning
  <2>2. r.pc \in Performing /\ pc \in Performing \ {"schedule", "register", "abort"}
    BY <1>7 DEF ScheduleRunning, Notified, At, Performing
  <2> QED
    BY <1>2, <2>1, <2>2, PerformingJump
<1>8. CASE ScheduleStart(t) \/ ScheduleSubmit(t)
  <2>1. r.pc \in {"start", "submit"} /\ r.victims = {} /\ r.pc \in Performing
    BY <1>3, <1>8 DEF ScheduleStart, ScheduleSubmit, At, Notifying, Performing
  <2>2. thread' = [thread EXCEPT ![t] = Returned(r, "ok")]
    BY <1>8 DEF ScheduleStart, ScheduleSubmit, Goto
  <2> QED
    BY <1>2, <2>1, <2>2, ReturnStep
<1>9. CASE ScheduleSubmitRejected(t)
  <2>1. r.pc \in Performing /\ "unwind" \in Performing \ {"schedule", "register", "abort"} /\ Jump(t, "unwind")
    BY <1>9 DEF ScheduleSubmitRejected, At, Performing
  <2> QED
    BY <1>2, <2>1, PerformingJump
<1>10. CASE UnwindReplaced(t) \/ Unwound(t)
  <2>1. r.pc \in {"abort", "unwound"} /\ r.victims = {} /\ r.pc \in Performing
    BY <1>3, <1>10 DEF UnwindReplaced, Unwound, At, Notifying, Performing
  <2>2. \/ thread' = [thread EXCEPT ![t] = Returned(r, "Error")]
        \/ r.ret = "load" /\ thread' = [thread EXCEPT ![t] = Ready]
    BY <1>10 DEF UnwindReplaced, Unwound, Goto
  <2>3. CASE r.ret = "load" /\ thread' = [thread EXCEPT ![t] = Ready]
    <3>1. thread'[t] = Ready /\ Beside(t)
      BY <1>1, <2>3, OneThreadMoves
    <3>2. Detached(thread'[t])
      BY <3>1, ReadyTyped DEF Detached, Choosing, Completing, Finishing
    <3>3. \A u \in Universe : ~Carrying(t, u)
      BY <2>1, <2>3 DEF Carrying, Completing
    <3> QED
      BY <1>2, <3>1, <3>2, <3>3, DetachedStep
  <2> QED
    BY <1>2, <2>1, <2>2, <2>3, ReturnStep
<1>11. CASE StartIdle(t)
  <2>1. PICK c \in r.idles :
          \/ thread' = [thread EXCEPT ![t] = [r EXCEPT !.idles = @ \ {c}]]
          \/ thread' = [thread EXCEPT ![t] =
                          [[r EXCEPT !.idles = @ \ {c}] EXCEPT
                             !.pc = "schedule", !.universe = Home[c], !.ret = "idle",
                             !.animation = IdleAnimation[c], !.reason = "Idle"]]
    BY <1>11 DEF StartIdle, Goto
  <2>2. r.pc = "idle"
    BY <1>11 DEF StartIdle, At
  <2>3. \A u \in Universe : ~Carrying(t, u)
    BY <2>2 DEF Carrying, Performing, Completing
  <2>4. PICK q : /\ thread' = [thread EXCEPT ![t] = q]
                 /\ \/ q.pc = "idle" /\ q.ret = r.ret
                    \/ q.pc = "schedule" /\ q.ret = "idle" /\ q.reason = "Idle"
    <3>1. CASE thread' = [thread EXCEPT ![t] = [r EXCEPT !.idles = @ \ {c}]]
      <4>1. PICK q : q = [r EXCEPT !.idles = @ \ {c}]
        OBVIOUS
      <4>2. q.pc = "idle" /\ q.ret = r.ret
        BY <1>1, <2>2, <4>1 DEF ThreadRecord
      <4> QED
        BY <3>1, <4>1, <4>2
    <3>2. ASSUME NEW b, b = [r EXCEPT !.idles = @ \ {c}],
                 thread' = [thread EXCEPT ![t] = [b EXCEPT !.pc = "schedule", !.universe = Home[c], !.ret = "idle",
                                                           !.animation = IdleAnimation[c], !.reason = "Idle"]]
          PROVE  \E q : /\ thread' = [thread EXCEPT ![t] = q]
                        /\ q.pc = "schedule" /\ q.ret = "idle" /\ q.reason = "Idle"
      <4>1. PICK q : q = [b EXCEPT !.pc = "schedule", !.universe = Home[c], !.ret = "idle",
                                   !.animation = IdleAnimation[c], !.reason = "Idle"]
        OBVIOUS
      <4>2. q.pc = "schedule" /\ q.ret = "idle" /\ q.reason = "Idle"
        BY <1>1, <3>2, <4>1 DEF ThreadRecord
      <4> QED
        BY <3>2, <4>1, <4>2
    <3> QED
      BY <2>1, <3>1, <3>2
  <2>5. thread'[t] = q /\ Beside(t)
    BY <1>1, <2>4, OneThreadMoves
  <2>6. Proper(t)'
    BY <1>1, <2>4, <2>5 DEF Proper, LoopWork, NextInHand, Choosing, Completing, Finishing
  <2> QED
    BY <1>2, <2>3, <2>5, <2>6, CalmStep
<1>12. CASE IdleDone(t)
  <2>1. thread' = [thread EXCEPT ![t] = Ready] /\ r.pc = "idle"
    BY <1>12 DEF IdleDone, At, Goto
  <2>2. thread'[t] = Ready /\ Beside(t)
    BY <1>1, <2>1, OneThreadMoves
  <2>3. Detached(thread'[t])
    BY <2>2, ReadyTyped DEF Detached, Choosing, Completing, Finishing
  <2>4. \A u \in Universe : ~Carrying(t, u)
    BY <2>1 DEF Carrying, Performing, Completing
  <2> QED
    BY <1>2, <2>2, <2>3, <2>4, DetachedStep
<1> QED
  BY <1>4, <1>5, <1>6, <1>7, <1>8, <1>9, <1>10, <1>11, <1>12

-----------------------------------------------------------------------------
(* Steps that change the flag of a session, or its place in the list.      *)

LEMMA PlayingIsListed ==
  ASSUME TypeOK, NEW u \in Universe, NEW s \in PlaylistSessions(u)
  PROVE  /\ s \in Session /\ Listed(s) /\ ~Cancelled(s)
         /\ sessions[s].universe = u /\ sessions[s].reason = "Playlist"
BY DEF TypeOK, PlaylistSessions, Live, Listed

LEMMA FlagSetEvolves ==
  ASSUME Owned, NEW v \in Session, CancelDirect(v) \/ CancelQuietly(v), finished \subseteq finished'
  PROVE  /\ Evolves /\ Session' = Session /\ Cancelled(v)' /\ UNCHANGED playlistState
         /\ \A u \in Universe : \A s \in PlaylistSessions(u) : Listed(s)'
<1>1. TypeOK
  BY DEF Owned
<1>2. Keeps /\ UNCHANGED <<active, playlistState>>
  BY <1>1, SetFlags DEF CancelDirect, CancelQuietly
<1>3. Cancelled(v)' /\ Session' = Session /\ \A s \in Session : Listed(s)' <=> Listed(s)
  BY OneFlag
<1> QED
  BY <1>1, <1>2, <1>3, PlayingIsListed DEF Evolves

LEMMA UnlistedEvolves ==
  ASSUME Owned, NEW v \in Session, Cancelled(v) \/ v \in finished, UNCHANGED <<sessions, finished>>,
         NEW u, u = sessions[v].universe, active' = [active EXCEPT ![u] = @ \ {v}]
  PROVE  /\ Evolves /\ Session' = Session
         /\ \A w \in Universe : \A s \in PlaylistSessions(w) : s = v \/ Listed(s)'
<1>1. TypeOK
  BY DEF Owned
<1>2. Session' = Session /\ \A s \in Session : s # v => (Listed(s)' <=> Listed(s))
  BY OneUnlisted
<1>3. Keeps /\ \A w \in Universe : active'[w] \subseteq active[w]
  BY <1>1 DEF Keeps, TypeOK
<1>4. Cancelled(v)' <=> Cancelled(v)
  BY DEF Cancelled
<1> QED
  BY <1>1, <1>2, <1>3, <1>4, PlayingIsListed DEF Evolves

LEMMA DroppedEvolve ==
  ASSUME Owned, NEW u \in Universe, NEW dead, CancelAndDrop(u, dead), UNCHANGED finished
  PROVE  /\ Evolves /\ Session' = Session
         /\ \A w \in Universe : \A s \in PlaylistSessions(w) : Listed(s)' \/ Cancelled(s)'
<1>1. TypeOK
  BY DEF Owned
<1>2. Keeps /\ \A w \in Universe : active'[w] \subseteq active[w]
  BY <1>1, CancelAndDropType
<1>3. \A s \in Session : s \in dead => Cancelled(s)'
  <2>1. sessions \in Seq(SessionRecord) /\ sessions' = CancelLocked(dead)
    BY <1>1 DEF TypeOK, CancelAndDrop
  <2>2. \A s \in Session : CancelLocked(dead)[s].cancelled = (s \in dead \/ sessions[s].cancelled)
    BY <2>1, CancelLockedProperties
  <2> QED
    BY <2>1, <2>2 DEF Cancelled
<1>4. \A s \in Session : Listed(s) => Listed(s)' \/ s \in dead
  BY <1>1, <1>2 DEF Listed, CancelAndDrop, Keeps, TypeOK
<1>5. Session' = Session
  BY <1>2 DEF Keeps, Session
<1> QED
  BY <1>1, <1>2, <1>3, <1>4, <1>5, PlayingIsListed DEF Evolves

\* A step that changes sessions or the list, but neither events nor crossings.
LEMMA EventlessStep ==
  ASSUME PlaybackInv, PlaybackInv', GoOnInv, NEW t \in Thread, Beside(t), Evolves, Proper(t)',
         UNCHANGED <<playlistEvents, crossed>>,
         \A u \in Universe :
           playlistState'[u] = "Active" =>
             \/ /\ playlistState[u] = "Active" /\ (Carrying(t, u) => Carrying(t, u)')
                /\ \A s \in PlaylistSessions(u) : Listed(s)' \/ Cancelled(s)'
             \/ Justified(u)'
  PROVE  GoOnInv'
<1>1. EventsTyped' /\ \A u \in Universe : playlistEvents'[u] >= playlistEvents[u]
  BY DEF GoOnInv, EventsTyped
<1>2. ASSUME NEW u \in Universe, playlistState'[u] = "Active"
      PROVE  Kept(t, u) \/ Justified(u)'
  BY <1>1, <1>2 DEF Kept
<1> QED
  BY <1>1, <1>2, GoOnStep

\* A step that makes the next event of the playlist of universe u.
LEMMA PushStep ==
  ASSUME PlaybackInv, PlaybackInv', GoOnInv, NEW t \in Thread, Beside(t), Proper(t)',
         NEW u \in Universe, PushPlaylistEvent(u),
         UNCHANGED <<sessions, active, finished, playlistState>>,
         \A w \in Universe \ {u} : Carrying(t, w) => Carrying(t, w)'
  PROVE  GoOnInv'
<1>1. TypeOK /\ EventsTyped
  BY DEF PlaybackInv, Owned, GoOnInv
<1>2. /\ playlistEvents' \in [Universe -> Nat] /\ crossed' \subseteq Universe
      /\ playlistEvents'[u] > 0 /\ \A w \in Universe : playlistEvents'[w] >= playlistEvents[w]
      /\ \A w \in Universe \ {u} : w \in crossed => w \in crossed'
  BY <1>1 DEF EventsTyped, PushPlaylistEvent
<1>3. EventsTyped'
  BY <1>2 DEF EventsTyped
<1>4. Evolves
  BY <1>1 DEF Evolves, Keeps, Listed
<1>5. ASSUME NEW w \in Universe, playlistState'[w] = "Active"
      PROVE  Kept(t, w) \/ Justified(w)'
  <2>1. CASE w = u
    BY <1>2, <2>1 DEF Justified
  <2>2. CASE w # u
    <3>1. \A s \in PlaylistSessions(w) : Listed(s)'
      BY <1>1, PlayingIsListed DEF Listed
    <3> QED
      BY <1>2, <1>5, <2>2, <3>1 DEF Kept
  <2> QED
    BY <2>1, <2>2
<1> QED
  BY <1>2, <1>3, <1>4, <1>5, GoOnStep

\* The unwinding of a session whose load failed, the end of a playlist, and an
\* event that is put off.
LEMMA UnwindingGoesOn ==
  ASSUME PlaybackInv, PlaybackInv', GoOnInv, NEW t \in Thread,
         Unwind(t) \/ UnwindAbort(t) \/ PlaylistClear(t) \/ PlaylistRetry(t)
  PROVE  GoOnInv'
<1> DEFINE r == thread[t]
           v == thread[t].session
<1>1. Owned /\ TypeOK /\ ThreadsTyped /\ Proper(t) /\ r \in ThreadRecord /\ OneOwner
  BY DEF PlaybackInv, Owned, OwnershipInv, GoOnInv, ThreadsTyped
<1>2. r.pc \in OnSession => v \in Session
  BY <1>1, HeldAreSessions
<1>3. r.universe \in Universe
  BY <1>1 DEF ThreadRecord
<1>4. CASE Unwind(t)
  <2>1. r.pc = "unwind" /\ CancelQuietly(v) /\ Jump(t, "abort")
        /\ UNCHANGED <<playlistEvents, crossed, finished>>
    BY <1>4 DEF Unwind, At, eventVars, chainVars, endVars
  <2>2. v \in Session
    BY <1>2, <2>1 DEF OnSession, Working
  <2>3. PICK w \in Session : w = v
    BY <2>2
  <2>4. CancelQuietly(w) /\ finished \subseteq finished'
    BY <2>1, <2>3
  <2>5. /\ Evolves /\ Session' = Session /\ Cancelled(w)' /\ UNCHANGED playlistState
        /\ \A u \in Universe : \A s \in PlaylistSessions(u) : Listed(s)'
    BY <1>1, <2>4, FlagSetEvolves
  <2>6. /\ Beside(t) /\ thread'[t].pc = "abort" /\ thread'[t].session = w
        /\ thread'[t].ret = r.ret /\ thread'[t].universe = r.universe
    BY <1>1, <2>1, <2>3, OneThreadJumps
  <2>7. Cancelled(thread[t].session)'
    BY <2>5, <2>6 DEF Cancelled
  <2>8. Proper(t)'
    BY <1>1, <2>6, <2>7 DEF Proper, LoopWork, NextInHand, Choosing, Completing, Finishing
  <2>9. \A u \in Universe : Carrying(t, u) => Carrying(t, u)'
    BY <2>1, <2>6 DEF Carrying, Performing, Completing
  <2> QED
    BY <2>1, <2>5, <2>6, <2>8, <2>9, EventlessStep
<1>5. CASE UnwindAbort(t)
  <2>1. /\ r.pc = "abort" /\ AbortLoadingSession(r.universe, v) /\ Jump(t, "unwound")
        /\ UNCHANGED <<playlistEvents, crossed, finished>>
    BY <1>5 DEF UnwindAbort, At, eventVars, chainVars
  <2>2. v \in Session /\ Cancelled(v) /\ r.universe = sessions[v].universe
    BY <1>1, <1>2, <2>1 DEF OnSession, Working, Proper, OneOwner
  <2>3. PICK w \in Session : w = v
    BY <2>2
  <2>4. PICK x \in Universe : x = r.universe
    BY <1>3
  <2>5. /\ UNCHANGED sessions /\ active' = [active EXCEPT ![x] = @ \ {w}]
        /\ x = sessions[w].universe /\ Cancelled(w)
    BY <2>1, <2>2, <2>3, <2>4 DEF AbortLoadingSession
  <2>6. /\ Evolves /\ Session' = Session
        /\ \A u \in Universe : \A s \in PlaylistSessions(u) : s = w \/ Listed(s)'
    BY <1>1, <2>1, <2>5, UnlistedEvolves
  <2>7. \A u \in Universe : \A s \in PlaylistSessions(u) : Listed(s)'
    BY <1>1, <2>5, <2>6, PlayingIsListed
  <2>8. \A u \in Universe : playlistState'[u] = "Active" => playlistState[u] = "Active"
    BY <1>1, <1>3, <2>1 DEF AbortLoadingSession, AbortForgets, ForgetPlaylist, TypeOK
  <2>9. /\ Beside(t) /\ thread'[t].pc = "unwound"
        /\ thread'[t].ret = r.ret /\ thread'[t].universe = r.universe
    BY <1>1, <2>1, OneThreadJumps
  <2>10. Proper(t)'
    BY <1>1, <2>9 DEF Proper, LoopWork, NextInHand, Choosing, Completing, Finishing
  <2>11. \A u \in Universe : Carrying(t, u) => Carrying(t, u)'
    BY <2>1, <2>9 DEF Carrying, Performing, Completing
  <2> QED
    BY <2>1, <2>6, <2>7, <2>8, <2>9, <2>10, <2>11, EventlessStep
<1>6. CASE PlaylistClear(t)
  <2>1. /\ r.pc = "clearPlaylist" /\ ClearPlaylist(r.universe) /\ thread' = [thread EXCEPT ![t] = Ready]
        /\ Calm
    BY <1>6 DEF PlaylistClear, ClearPlaylist, Notified, At, Goto, eventVars, chainVars, endVars, Calm
  <2>2. thread'[t] = Ready /\ Beside(t)
    BY <1>1, <2>1, OneThreadMoves
  <2>3. Detached(thread'[t])
    BY <2>2, ReadyTyped DEF Detached, Choosing, Completing, Finishing
  <2>4. \A u \in Universe : playlistState'[u] = "Active" => playlistState[u] = "Active" /\ u # r.universe
    BY <1>1, <1>3, <2>1 DEF ClearPlaylist, ForgetPlaylist, TypeOK
  <2>5. \A u \in Universe : u # r.universe => ~Carrying(t, u)
    BY DEF Carrying
  <2> QED
    BY <2>1, <2>2, <2>3, <2>4, <2>5, DetachedStep
<1>7. CASE PlaylistRetry(t)
  <2>1. PICK u \in Universe : u = r.universe
    BY <1>3
  <2>2. /\ PushPlaylistEvent(u) /\ thread' = [thread EXCEPT ![t] = Ready]
        /\ UNCHANGED <<sessions, active, finished, playlistState>>
    BY <1>7, <2>1 DEF PlaylistRetry, Goto, smVars, endVars
  <2>3. thread'[t] = Ready /\ Beside(t)
    BY <1>1, <2>2, OneThreadMoves
  <2>4. Detached(thread'[t])
    BY <2>3, ReadyTyped DEF Detached, Choosing, Completing, Finishing
  <2>5. Proper(t)'
    BY <2>4 DEF Detached, Proper, LoopWork, NextInHand, Choosing, Completing, Finishing
  <2>6. \A w \in Universe \ {u} : ~Carrying(t, w)
    BY <2>1 DEF Carrying
  <2> QED
    BY <2>2, <2>3, <2>5, <2>6, PushStep
<1> QED
  BY <1>4, <1>5, <1>6, <1>7

-----------------------------------------------------------------------------
(* Loaders, and requests.                                                  *)

\* A counter at which no playlist is carried on.
Aside(pc) ==
  pc \notin Performing \cup Choosing \cup Completing \cup {"retry", "clearPlaylist", "start status"}

LEMMA AsideCarriesNothing ==
  ASSUME NEW t \in Thread, Aside(thread[t].pc)
  PROVE  \A u \in Universe : ~Carrying(t, u)
BY DEF Aside, Carrying, Choosing

\* A counter that asks nothing of a thread.
Undemanding(pc) ==
  pc \notin Choosing \cup Completing \cup Finishing \cup {"schedule", "register", "abort"}

LEMMA UndemandingIsProper ==
  ASSUME NEW t \in Thread, Proper(t), Undemanding(thread'[t].pc), thread'[t].ret = thread[t].ret
  PROVE  Proper(t)'
BY DEF Undemanding, Proper, LoopWork, NextInHand, Choosing, Completing, Finishing

LEMMA AsideJump ==
  ASSUME PlaybackInv, PlaybackInv', GoOnInv, NEW t \in Thread, Aside(thread[t].pc),
         NEW pc, Undemanding(pc), Jump(t, pc), Calm,
         \A u \in Universe : playlistState'[u] = "Active" => playlistState[u] = "Active"
  PROVE  GoOnInv'
<1>1. ThreadsTyped /\ Proper(t)
  BY DEF PlaybackInv, Owned, GoOnInv
<1>2. Beside(t) /\ thread'[t].pc = pc /\ thread'[t].ret = thread[t].ret
  BY <1>1, OneThreadJumps
<1>3. Proper(t)'
  BY <1>1, <1>2, UndemandingIsProper
<1> QED
  BY <1>2, <1>3, AsideCarriesNothing, CalmStep

LEMMA AsideGo ==
  ASSUME PlaybackInv, PlaybackInv', GoOnInv, NEW t \in Thread, Aside(thread[t].pc),
         NEW q, Detached(q), thread' = [thread EXCEPT ![t] = q], Calm,
         \A u \in Universe : playlistState'[u] = "Active" => playlistState[u] = "Active"
  PROVE  GoOnInv'
<1>1. ThreadsTyped
  BY DEF PlaybackInv, Owned
<1>2. Beside(t) /\ thread'[t] = q
  BY <1>1, OneThreadMoves
<1> QED
  BY <1>2, AsideCarriesNothing, DetachedStep

\* The record of a thread that is called to schedule something other than a playlist.
LEMMA ScheduleRecords ==
  ASSUME NEW u \in Universe, NEW a, NEW reason \in {"Play", "AdHoc"}, NEW entire,
         NEW ret \in {"ready", "interrupt"}, NEW q, q = ToSchedule(u, a, reason, entire, ret)
  PROVE  q.pc = "schedule" /\ q.reason = reason /\ q.ret = ret /\ q.universe = u
<1>1. Ready \in ThreadRecord
  BY ReadyTyped
<1> QED
  BY <1>1 DEF ToSchedule, ThreadRecord

LEMMA ScheduleGo ==
  ASSUME PlaybackInv, PlaybackInv', GoOnInv, NEW t \in Thread, Aside(thread[t].pc),
         NEW u \in Universe, NEW a, NEW reason \in {"Play", "AdHoc"}, NEW entire,
         NEW ret \in {"ready", "interrupt"}, Goto(t, ToSchedule(u, a, reason, entire, ret)), Calm,
         \A w \in Universe : playlistState'[w] = "Active" => playlistState[w] = "Active"
  PROVE  GoOnInv'
<1>1. ThreadsTyped
  BY DEF PlaybackInv, Owned
<1>2. PICK q : q = ToSchedule(u, a, reason, entire, ret)
  OBVIOUS
<1>3. Beside(t) /\ thread'[t] = q
  BY <1>1, <1>2, OneThreadMoves DEF Goto
<1>4. q.pc = "schedule" /\ q.reason = reason /\ q.ret = ret
  BY <1>2, ScheduleRecords
<1>5. Proper(t)'
  BY <1>3, <1>4 DEF Proper, LoopWork, NextInHand, Choosing, Completing, Finishing
<1> QED
  BY <1>3, <1>5, AsideCarriesNothing, CalmStep

LEMMA LoadingGoesOn ==
  ASSUME PlaybackInv, PlaybackInv', GoOnInv, NEW t \in Thread, LoaderStep(t)
  PROVE  GoOnInv'
<1> DEFINE r == thread[t]
<1>1. TypeOK /\ ThreadsTyped /\ Proper(t) /\ Books
  BY DEF PlaybackInv, Owned, OwnershipInv, GoOnInv
<1>2. /\ Calm /\ \A u \in Universe : playlistState'[u] = "Active" => playlistState[u] = "Active"
      /\ r.pc \in {"ready", "load", "publish"} /\ Aside(r.pc)
  BY DEF LoaderStep, LoaderTake, LoaderLoaded, LoaderPublish, LoaderFail, At,
         smVars, eventVars, chainVars, endVars, Calm, Aside, Performing, Choosing, Completing
<1>3. Detached(Ready)
  BY ReadyTyped DEF Detached, Choosing, Completing, Finishing
<1>4. CASE LoaderTake(t)
  <2>1. PICK s \in loading :
          \/ UNCHANGED thread
          \/ thread' = [thread EXCEPT ![t] =
               [Ready EXCEPT !.pc = "load", !.session = s, !.ret = "load",
                             !.universe = sessions[s].universe]]
    BY <1>4 DEF LoaderTake, Goto
  <2>2. CASE UNCHANGED thread
    <3>1. Proper(t)' /\ Beside(t)
      BY <1>1, <1>4, <2>2 DEF LoaderTake, At, Beside, Proper, LoopWork, NextInHand, Choosing, Completing, Finishing
    <3> QED
      BY <1>2, <3>1, AsideCarriesNothing, CalmStep
  <2>3. ASSUME NEW q, q = [Ready EXCEPT !.pc = "load", !.session = s, !.ret = "load",
                                        !.universe = sessions[s].universe]
        PROVE  Detached(q)
    <3>1. q.pc = "load" /\ q.ret = "load"
      BY <2>3, ReadyTyped DEF ThreadRecord
    <3> QED
      BY <3>1 DEF Detached, Choosing, Completing, Finishing
  <2> QED
    BY <1>2, <2>1, <2>2, <2>3, AsideGo
<1>5. CASE LoaderLoaded(t) \/ LoaderPublish(t) \/ LoaderFail(t)
  <2>1. \/ thread' = [thread EXCEPT ![t] = Ready]
        \/ \E pc \in {"publish", "unwind"} : Jump(t, pc)
    BY <1>5 DEF LoaderLoaded, LoaderPublish, LoaderFail, Goto
  <2>2. \A pc \in {"publish", "unwind"} : Undemanding(pc)
    BY DEF Undemanding, Choosing, Completing, Finishing
  <2> QED
    BY <1>2, <1>3, <2>1, <2>2, AsideGo, AsideJump
<1> QED
  BY <1>4, <1>5 DEF LoaderStep

\* Requests that play, interrupt or queue.
LEMMA PlayRequestsGoOn ==
  ASSUME PlaybackInv, PlaybackInv', GoOnInv, NEW t \in Thread, NEW u \in Universe, NEW a,
         \/ RequestPlay(t, u, a)
         \/ \E resume \in BOOLEAN : RequestInterrupt(t, u, a, resume)
         \/ RequestInterruptIdle(t, u, a)
         \/ RequestQueue(t, u, a)
  PROVE  GoOnInv'
<1>1. TypeOK /\ ThreadsTyped /\ Proper(t)
  BY DEF PlaybackInv, Owned, GoOnInv
<1>2. At(t, "ready") /\ Aside(thread[t].pc)
  BY DEF RequestPlay, RequestInterrupt, RequestInterruptIdle, RequestQueue, Arrives, At,
         Aside, Performing, Choosing, Completing
<1>3. Calm
  BY DEF RequestPlay, RequestInterrupt, RequestInterruptIdle, RequestQueue, QueueAnimation, InterruptMark,
         smVars, eventVars, chainVars, endVars, Calm
<1>4. \A w \in Universe : playlistState'[w] = "Active" => playlistState[w] = "Active"
  BY <1>1 DEF RequestPlay, RequestInterrupt, RequestInterruptIdle, RequestQueue, QueueAnimation, InterruptMark,
              smVars, TypeOK
<1>5. CASE RequestPlay(t, u, a) \/ RequestInterruptIdle(t, u, a)
  <2>1. PICK reason \in {"Play", "AdHoc"} : Goto(t, ToSchedule(u, a, reason, FALSE, "ready"))
    BY <1>5 DEF RequestPlay, RequestInterruptIdle
  <2> QED
    BY <1>2, <1>3, <1>4, <2>1, ScheduleGo
<1>6. CASE \E resume \in BOOLEAN : RequestInterrupt(t, u, a, resume)
  <2>1. PICK ret \in {"ready", "interrupt"} : Goto(t, ToSchedule(u, a, "AdHoc", TRUE, ret))
    BY <1>6 DEF RequestInterrupt
  <2> QED
    BY <1>2, <1>3, <1>4, <2>1, ScheduleGo
<1>7. CASE RequestQueue(t, u, a)
  <2>1. UNCHANGED thread
    BY <1>7 DEF RequestQueue
  <2>2. Beside(t) /\ Undemanding(thread'[t].pc) /\ thread'[t].ret = thread[t].ret
    BY <1>2, <2>1 DEF Beside, At, Undemanding, Choosing, Completing, Finishing
  <2>3. Proper(t)'
    BY <1>1, <2>2, UndemandingIsProper
  <2> QED
    BY <1>2, <1>3, <1>4, <2>2, <2>3, AsideCarriesNothing, CalmStep
<1> QED
  BY <1>5, <1>6, <1>7

\* The start of a playlist: its thread will make the first event.
LEMMA StartRequestsGoOn ==
  ASSUME PlaybackInv, PlaybackInv', GoOnInv, NEW t \in Thread,
         \/ \E u \in Universe, p \in Playlist : RequestStart(t, u, p)
         \/ StartCancels(t) \/ StartStarts(t) \/ StartStatus(t)
  PROVE  GoOnInv'
<1> DEFINE r == thread[t]
<1>1. /\ Owned /\ TypeOK /\ ThreadsTyped /\ Proper(t)
      /\ r \in ThreadRecord /\ r.universe \in Universe
  BY DEF PlaybackInv, Owned, GoOnInv, ThreadsTyped, ThreadRecord
<1>2. CASE \E u \in Universe, p \in Playlist : RequestStart(t, u, p)
  <2>1. PICK u \in Universe, p \in Playlist : RequestStart(t, u, p)
    BY <1>2
  <2>2. Aside(r.pc) /\ Calm /\ UNCHANGED playlistState
    BY <2>1 DEF RequestStart, Arrives, At, Aside, Performing, Choosing, Completing,
                smVars, eventVars, chainVars, endVars, Calm
  <2>3. PICK b : b = [Ready EXCEPT !.pc = "start playlist", !.universe = u,
                                   !.status = [playlist |-> p, playing |-> TRUE]]
    OBVIOUS
  <2>4. b \in ThreadRecord /\ b.pc = "start playlist" /\ b.ret = "ready"
    <3>1. Ready \in ThreadRecord /\ Ready.ret = "ready" /\ "start playlist" \in Counter
      BY ReadyTyped DEF Counter
    <3>2. [playlist |-> p, playing |-> TRUE] \in Status
      BY DEF Status
    <3>3. b \in ThreadRecord
      BY <2>3, <3>1, <3>2 DEF ThreadRecord
    <3> QED
      BY <2>3, <3>1, <3>3 DEF ThreadRecord
  <2>5. \/ thread' = [thread EXCEPT ![t] = b]
        \/ \E s \in Live(u) : thread' = [thread EXCEPT ![t] = [b EXCEPT !.pc = "cancel", !.session = s]]
    BY <2>1, <2>3 DEF RequestStart, Goto
  <2>6. PICK q : thread' = [thread EXCEPT ![t] = q] /\ q.pc \in {"start playlist", "cancel"} /\ q.ret = "ready"
    <3>1. ASSUME NEW s, NEW q, q = [b EXCEPT !.pc = "cancel", !.session = s]
          PROVE  q.pc = "cancel" /\ q.ret = "ready"
      BY <2>4, <3>1 DEF ThreadRecord
    <3>2. CASE \E s \in Live(u) : thread' = [thread EXCEPT ![t] = [b EXCEPT !.pc = "cancel", !.session = s]]
      <4>1. PICK s \in Live(u) : thread' = [thread EXCEPT ![t] = [b EXCEPT !.pc = "cancel", !.session = s]]
        BY <3>2
      <4>2. PICK q : q = [b EXCEPT !.pc = "cancel", !.session = s]
        OBVIOUS
      <4>3. q.pc = "cancel" /\ q.ret = "ready"
        BY <3>1, <4>2
      <4> QED
        BY <4>1, <4>2, <4>3
    <3> QED
      BY <2>4, <2>5, <3>2
  <2>7. Detached(q)
    BY <2>6 DEF Detached, Choosing, Completing, Finishing
  <2> QED
    BY <2>2, <2>6, <2>7, AsideGo
<1>3. CASE StartCancels(t)
  <2>1. /\ r.pc = "cancel" /\ CancelDirect(r.session)
        /\ thread' = [thread EXCEPT ![t].pc = "start playlist", ![t].session = 0]
        /\ UNCHANGED <<playlistEvents, crossed, finished>>
    BY <1>3 DEF StartCancels, At, eventVars, chainVars, endVars
  <2>2. PICK v \in Session : v = r.session
    BY <1>1, <2>1, HeldAreSessions DEF OnSession
  <2>3. CancelDirect(v) /\ finished \subseteq finished'
    BY <2>1, <2>2
  <2>4. /\ Evolves /\ UNCHANGED playlistState
        /\ \A u \in Universe : \A s \in PlaylistSessions(u) : Listed(s)'
    BY <1>1, <2>3, FlagSetEvolves
  <2>5. Beside(t) /\ thread'[t].pc = "start playlist" /\ thread'[t].ret = r.ret
    BY <1>1, <2>1 DEF ThreadsTyped, ThreadRecord, Beside
  <2>6. Undemanding("start playlist") /\ Aside(r.pc)
    BY <2>1 DEF Undemanding, Aside, Performing, Choosing, Completing, Finishing
  <2>7. Proper(t)'
    BY <1>1, <2>5, <2>6, UndemandingIsProper
  <2> QED
    BY <2>1, <2>4, <2>5, <2>6, <2>7, AsideCarriesNothing, EventlessStep
<1>4. CASE StartStarts(t) \/ StartStatus(t)
  <2>1. PICK pc \in {"start status", "retry"} : Jump(t, pc)
    BY <1>4 DEF StartStarts, StartStatus
  <2>2. r.pc \in {"start playlist", "start status"} /\ Calm
    BY <1>4 DEF StartStarts, StartStatus, At, StartPlaylist, SetPlaylistStatus,
                eventVars, chainVars, endVars, Calm
  <2>3. \A w \in Universe \ {r.universe} : playlistState'[w] = playlistState[w]
    BY <1>1, <1>4 DEF StartStarts, StartStatus, StartPlaylist, SetPlaylistStatus, TypeOK
  <2>4. /\ Beside(t) /\ thread'[t].pc = pc /\ thread'[t].universe = r.universe
        /\ thread'[t].ret = r.ret
    BY <1>1, <2>1, OneThreadJumps
  <2>5. Undemanding(pc)
    BY DEF Undemanding, Choosing, Completing, Finishing
  <2>6. Proper(t)'
    BY <1>1, <2>4, <2>5, UndemandingIsProper
  <2>7. ASSUME NEW w \in Universe, w = r.universe
        PROVE  Justified(w)'
    <3>1. Carrying(t, w)'
      BY <2>4, <2>7 DEF Carrying
    <3> QED
      BY <3>1 DEF Justified
  <2>8. ASSUME NEW w \in Universe, w # r.universe
        PROVE  ~Carrying(t, w)
    BY <2>8 DEF Carrying
  <2> QED
    BY <2>2, <2>3, <2>4, <2>6, <2>7, <2>8, CalmStep
<1> QED
  BY <1>2, <1>3, <1>4

\* A step that cancels and drops sessions, and goes on elsewhere.
LEMMA DroppingGoesOn ==
  ASSUME PlaybackInv, PlaybackInv', GoOnInv, NEW t \in Thread, Aside(thread[t].pc),
         NEW q, thread' = [thread EXCEPT ![t] = q], Undemanding(q.pc),
         q.ret = thread[t].ret \/ q.ret = "ready",
         NEW u \in Universe, NEW dead, CancelAndDrop(u, dead),
         UNCHANGED <<playlistEvents, crossed, finished>>,
         \A w \in Universe : playlistState'[w] = "Active" => playlistState[w] = "Active"
  PROVE  GoOnInv'
<1>1. Owned /\ ThreadsTyped /\ Proper(t)
  BY DEF PlaybackInv, Owned, GoOnInv
<1>2. /\ Evolves
      /\ \A w \in Universe : \A s \in PlaylistSessions(w) : Listed(s)' \/ Cancelled(s)'
  BY <1>1, DroppedEvolve
<1>3. thread'[t] = q /\ Beside(t)
  BY <1>1, OneThreadMoves
<1>4. Proper(t)'
  <2>1. CASE q.ret = thread[t].ret
    BY <1>1, <1>3, <2>1, UndemandingIsProper
  <2>2. CASE q.ret = "ready"
    BY <1>3, <2>2 DEF Undemanding, Proper, LoopWork, NextInHand, Choosing, Completing, Finishing
  <2> QED
    BY <2>1, <2>2
<1> QED
  BY <1>2, <1>3, <1>4, AsideCarriesNothing, EventlessStep

\* stopPlaylist, from either of its callers.
LEMMA StopGoesOn ==
  ASSUME PlaybackInv, PlaybackInv', GoOnInv, NEW t \in Thread, NEW u \in Universe,
         NEW next \in {"clearPlaylist", "mark"}, Stop(t, u, next), thread[t].pc \in {"ready", "stream"}
  PROVE  GoOnInv'
<1>1. TypeOK /\ thread[t] \in ThreadRecord /\ Proper(t) /\ ThreadsTyped
  BY DEF PlaybackInv, Owned, GoOnInv, ThreadsTyped
<1>2. UNCHANGED <<playlistEvents, crossed, finished>>
  BY DEF Stop, eventVars, chainVars, endVars
<1>3. Aside(thread[t].pc) /\ Undemanding(next)
  BY DEF Aside, Undemanding, Performing, Choosing, Completing, Finishing
<1>4. CASE /\ StopPlaylist(u)
           /\ Goto(t, [thread[t] EXCEPT !.pc = next, !.universe = u, !.victims = PlaylistSessions(u)])
  <2>1. PICK q : q = [thread[t] EXCEPT !.pc = next, !.universe = u, !.victims = PlaylistSessions(u)]
    OBVIOUS
  <2>2. q.pc = next /\ q.ret = thread[t].ret /\ thread' = [thread EXCEPT ![t] = q]
    BY <1>1, <1>4, <2>1 DEF ThreadRecord, Goto
  <2>3. CancelAndDrop(u, PlaylistSessions(u))
    BY <1>4 DEF StopPlaylist
  <2>4. \A w \in Universe : playlistState'[w] = "Active" => playlistState[w] = "Active"
    BY <1>1, <1>4 DEF StopPlaylist, TypeOK
  <2> QED
    BY <1>2, <1>3, <2>2, <2>3, <2>4, DroppingGoesOn
<1>5. CASE Goto(t, [thread[t] EXCEPT !.pc = next, !.universe = u]) /\ UNCHANGED smVars
  <2>1. PICK q : q = [thread[t] EXCEPT !.pc = next, !.universe = u]
    OBVIOUS
  <2>2. q.pc = next /\ q.ret = thread[t].ret /\ thread' = [thread EXCEPT ![t] = q]
    BY <1>1, <1>5, <2>1 DEF ThreadRecord, Goto
  <2>3. thread'[t] = q /\ Beside(t)
    BY <1>1, <2>2, OneThreadMoves
  <2>4. Proper(t)'
    BY <1>1, <1>3, <2>2, <2>3, UndemandingIsProper
  <2>5. Calm /\ UNCHANGED playlistState
    BY <1>2, <1>5 DEF Calm, smVars
  <2> QED
    BY <1>3, <2>3, <2>4, <2>5, AsideCarriesNothing, CalmStep
<1> QED
  BY <1>4, <1>5 DEF Stop

\* A stop, a stream, and idle playback switched on or off.
LEMMA StreamRequestsGoOn ==
  ASSUME PlaybackInv, PlaybackInv', GoOnInv, NEW t \in Thread,
         \/ \E u \in Universe : RequestStop(t, u)
         \/ \E c \in Creature : RequestStream(t, c)
         \/ \E c \in Creature, enabled \in BOOLEAN : RequestSetIdle(t, c, enabled)
         \/ StreamStopsPlaylist(t) \/ StreamMarks(t) \/ StreamAnnounces(t)
         \/ SetIdleCancels(t) \/ SetIdleState(t)
  PROVE  GoOnInv'
<1> DEFINE r == thread[t]
<1>1. /\ TypeOK /\ ThreadsTyped /\ Proper(t) /\ r \in ThreadRecord
      /\ r.universe \in Universe /\ r.idles \subseteq Creature
  BY DEF PlaybackInv, Owned, GoOnInv, ThreadsTyped, ThreadRecord
<1>2. \A c \in Creature : Home[c] \in Universe
  BY PlaybackAssumption
<1>3. Detached(Ready)
  BY ReadyTyped DEF Detached, Choosing, Completing, Finishing
<1>4. CASE \E u \in Universe : RequestStop(t, u)
  <2>1. PICK u \in Universe : RequestStop(t, u)
    BY <1>4
  <2>2. Stop(t, u, "clearPlaylist") /\ r.pc \in {"ready", "stream"}
    BY <2>1 DEF RequestStop, Arrives, At
  <2> QED
    BY <2>2, StopGoesOn
<1>5. CASE StreamStopsPlaylist(t)
  <2>1. PICK u \in Universe : u = r.universe
    BY <1>1
  <2>2. Stop(t, u, "mark") /\ r.pc \in {"ready", "stream"}
    BY <1>5, <2>1 DEF StreamStopsPlaylist, Notified, At
  <2> QED
    BY <2>2, StopGoesOn
<1>6. CASE \E c \in Creature : RequestStream(t, c)
  <2>1. PICK c \in Creature : RequestStream(t, c)
    BY <1>6
  <2>2. PICK u \in Universe : u = Home[c]
    BY <1>2
  <2>3. PICK q : q = [Ready EXCEPT !.pc = "stream", !.universe = u, !.idles = {c},
                                   !.victims = SessionsForCreature(u, c)]
    OBVIOUS
  <2>4. q.pc = "stream" /\ q.ret = "ready"
    BY <2>3, ReadyTyped DEF ThreadRecord
  <2>5. /\ thread' = [thread EXCEPT ![t] = q] /\ CancelAndDrop(u, SessionsForCreature(u, c))
        /\ UNCHANGED <<playlistEvents, crossed, finished, playlistState>> /\ r.pc = "ready"
    BY <2>1, <2>2, <2>3 DEF RequestStream, CancelSessionsForCreature, Arrives, At, Goto,
                            eventVars, chainVars, endVars
  <2>6. Aside(r.pc) /\ Undemanding(q.pc)
    BY <2>4, <2>5 DEF Aside, Undemanding, Performing, Choosing, Completing, Finishing
  <2> QED
    BY <2>4, <2>5, <2>6, DroppingGoesOn
<1>7. CASE SetIdleCancels(t)
  <2>1. PICK c \in r.idles :
          /\ CancelIdleSessionForCreature(r.universe, c)
          /\ Goto(t, [r EXCEPT !.pc = "idle off", !.victims = IdleSessionsForCreature(r.universe, c)])
    BY <1>7 DEF SetIdleCancels
  <2>2. PICK u \in Universe : u = r.universe
    BY <1>1
  <2>3. PICK q : q = [r EXCEPT !.pc = "idle off", !.victims = IdleSessionsForCreature(u, c)]
    OBVIOUS
  <2>4. q.pc = "idle off" /\ q.ret = r.ret
    BY <1>1, <2>3 DEF ThreadRecord
  <2>5. /\ thread' = [thread EXCEPT ![t] = q] /\ CancelAndDrop(u, IdleSessionsForCreature(u, c))
        /\ UNCHANGED <<playlistEvents, crossed, finished, playlistState>> /\ r.pc = "cancel idle"
    BY <1>7, <2>1, <2>2, <2>3 DEF SetIdleCancels, CancelIdleSessionForCreature, At, Goto,
                                  eventVars, chainVars, endVars
  <2>6. Aside(r.pc) /\ Undemanding(q.pc)
    BY <2>4, <2>5 DEF Aside, Undemanding, Performing, Choosing, Completing, Finishing
  <2> QED
    BY <2>4, <2>5, <2>6, DroppingGoesOn
<1>8. CASE StreamMarks(t) \/ StreamAnnounces(t)
  <2>1. /\ r.pc \in {"mark", "announce"} /\ Calm /\ UNCHANGED playlistState
        /\ thread' = [thread EXCEPT ![t] = Ready] \/ Jump(t, "announce")
    BY <1>8 DEF StreamMarks, StreamAnnounces, Notified, At, Goto, smVars, eventVars, chainVars, endVars, Calm
  <2>2. Aside(r.pc) /\ Undemanding("announce")
    BY <2>1 DEF Aside, Undemanding, Performing, Choosing, Completing, Finishing
  <2> QED
    BY <1>3, <2>1, <2>2, AsideGo, AsideJump
<1>9. CASE \E c \in Creature, enabled \in BOOLEAN : RequestSetIdle(t, c, enabled)
  <2>1. PICK c \in Creature, enabled \in BOOLEAN : RequestSetIdle(t, c, enabled)
    BY <1>9
  <2>2. PICK pc \in {"idle on", "cancel idle"} :
          thread' = [thread EXCEPT ![t] = [Ready EXCEPT !.pc = pc, !.universe = Home[c], !.idles = {c}]]
    BY <2>1 DEF RequestSetIdle, Goto
  <2>3. PICK q : q = [Ready EXCEPT !.pc = pc, !.universe = Home[c], !.idles = {c}]
    OBVIOUS
  <2>4. q.pc = pc /\ q.ret = "ready"
    BY <2>3, ReadyTyped DEF ThreadRecord
  <2>5. Detached(q)
    BY <2>4 DEF Detached, Choosing, Completing, Finishing
  <2>6. r.pc = "ready" /\ Calm /\ UNCHANGED playlistState
    BY <2>1 DEF RequestSetIdle, Arrives, At, smVars, eventVars, chainVars, endVars, Calm
  <2>7. Aside(r.pc)
    BY <2>6 DEF Aside, Performing, Choosing, Completing
  <2> QED
    BY <2>2, <2>3, <2>5, <2>6, <2>7, AsideGo
<1>10. CASE SetIdleState(t)
  <2>1. /\ r.pc \in {"idle on", "idle off"} /\ Calm /\ UNCHANGED playlistState
        /\ \/ thread' = [thread EXCEPT ![t] = Ready]
           \/ thread' = [thread EXCEPT ![t] = [Ready EXCEPT !.pc = "idle", !.idles = r.idles]]
    BY <1>10 DEF SetIdleState, Notified, At, Goto, smVars, eventVars, chainVars, endVars, Calm
  <2>2. PICK q : q = [Ready EXCEPT !.pc = "idle", !.idles = r.idles]
    OBVIOUS
  <2>3. q.pc = "idle" /\ q.ret = "ready"
    BY <2>2, ReadyTyped DEF ThreadRecord
  <2>4. Detached(q)
    BY <2>3 DEF Detached, Choosing, Completing, Finishing
  <2>5. Aside(r.pc)
    BY <2>1 DEF Aside, Performing, Choosing, Completing
  <2> QED
    BY <1>3, <2>1, <2>2, <2>4, <2>5, AsideGo
<1> QED
  BY <1>4, <1>5, <1>6, <1>7, <1>8, <1>9, <1>10

\* A step in which playlists may be crossed.
LEMMA CrossStep ==
  ASSUME PlaybackInv, PlaybackInv', GoOnInv, NEW t \in Thread, Beside(t), Proper(t)',
         UNCHANGED <<sessions, active, finished, playlistEvents>>,
         crossed \subseteq crossed', crossed' \subseteq Universe,
         \A w \in Universe :
           playlistState'[w] = "Active" =>
             \/ playlistState[w] = "Active" /\ (Carrying(t, w) => Carrying(t, w)')
             \/ Justified(w)'
  PROVE  GoOnInv'
<1>1. TypeOK /\ EventsTyped
  BY DEF PlaybackInv, Owned, GoOnInv
<1>2. EventsTyped' /\ \A w \in Universe : playlistEvents'[w] >= playlistEvents[w]
  BY <1>1 DEF EventsTyped
<1>3. Evolves
  BY <1>1 DEF Evolves, Keeps, Listed
<1>4. ASSUME NEW w \in Universe, playlistState'[w] = "Active"
      PROVE  Kept(t, w) \/ Justified(w)'
  <2>1. \A s \in PlaylistSessions(w) : Listed(s)'
    BY <1>1, PlayingIsListed DEF Listed
  <2> QED
    BY <1>2, <1>4, <2>1 DEF Kept
<1> QED
  BY <1>2, <1>3, <1>4, GoOnStep

\* The rollback of an interruption that failed.
LEMMA RollbackGoesOn ==
  ASSUME PlaybackInv, PlaybackInv', GoOnInv, NEW t \in Thread, InterruptFailed(t)
  PROVE  GoOnInv'
<1> DEFINE u == thread[t].universe
<1>1. TypeOK /\ ThreadsTyped /\ EventsTyped /\ u \in Universe
  BY DEF PlaybackInv, Owned, GoOnInv, ThreadsTyped, ThreadRecord
<1>2. /\ thread[t].pc = "undo" /\ thread' = [thread EXCEPT ![t] = Ready]
      /\ UNCHANGED <<sessions, active, finished, playlistEvents>>
      /\ \/ crossed' = crossed \cup {u} /\ playlistState' = [playlistState EXCEPT ![u] = "Active"]
         \/ UNCHANGED <<crossed, playlistState>>
  BY DEF InterruptFailed, InterruptUndo, At, Goto, smVars, endVars
<1>3. thread'[t] = Ready /\ Beside(t)
  BY <1>1, <1>2, OneThreadMoves
<1>4. Proper(t)'
  BY <1>3, ReadyTyped DEF Proper, LoopWork, NextInHand, Choosing, Completing, Finishing
<1>5. Aside(thread[t].pc)
  BY <1>2 DEF Aside, Performing, Choosing, Completing
<1>6. ASSUME NEW w \in Universe, playlistState'[w] = "Active"
      PROVE  playlistState[w] = "Active" \/ Justified(w)'
  BY <1>1, <1>2, <1>6 DEF Justified, TypeOK
<1>7. crossed \subseteq crossed' /\ crossed' \subseteq Universe
  BY <1>1, <1>2 DEF EventsTyped
<1> QED
  BY <1>2, <1>3, <1>4, <1>5, <1>6, <1>7, AsideCarriesNothing, CrossStep

-----------------------------------------------------------------------------
(* The event loop.                                                         *)

\* A runner event claims the end of its session.
LEMMA ClaimGoesOn ==
  ASSUME PlaybackInv, PlaybackInv', GoOnInv, NEW s \in Session, NEW pc \in {"clearCancelled", "onFinish"},
         At(Loop, "ready"), Goto(Loop, InRunner(s, pc)), Evolves, UNCHANGED <<active, playlistState>>,
         finished' = finished \cup {s}, UNCHANGED <<playlistEvents, crossed>>,
         pc = "clearCancelled" => Cancelled(s)',
         pc = "onFinish" /\ sessions[s].reason = "Playlist" => Latest(s)
  PROVE  GoOnInv'
<1>1. /\ TypeOK /\ TypeOK' /\ ThreadsTyped /\ Loop \in Thread
  BY DEF PlaybackInv, Owned, Thread
<1>2. /\ sessions'[s].universe = sessions[s].universe /\ sessions'[s].reason = sessions[s].reason
      /\ Latest(s) => Latest(s)'
      /\ sessions[s].universe \in Universe
  BY <1>1, EvolvedSessions
<1>3. PICK q : q = InRunner(s, pc)
  OBVIOUS
<1>4. q.pc = pc /\ q.ret = "ready" /\ q.session = s /\ q.universe = sessions[s].universe
  BY <1>3, ReadyTyped DEF InRunner, ThreadRecord
<1>5. thread'[Loop] = q /\ Beside(Loop)
  BY <1>1, <1>3, OneThreadMoves DEF Goto
<1>6. pc = "onFinish" /\ sessions'[s].reason = "Playlist" => Latest(s)'
  BY <1>2
<1>7. Proper(Loop)'
  <2>1. thread'[Loop].pc = "onFinish" /\ sessions'[thread'[Loop].session].reason = "Playlist" => Latest(thread[Loop].session)'
    BY <1>4, <1>5, <1>6 DEF Latest
  <2>2. thread'[Loop].pc \in {"clearCancelled", "finishCancelled", "abort"} => Cancelled(thread[Loop].session)'
    BY <1>4, <1>5 DEF Cancelled
  <2> QED
    BY <1>2, <1>4, <1>5, <2>1, <2>2 DEF Proper, LoopWork, NextInHand, Choosing, Completing, Finishing
<1>8. Aside(thread[Loop].pc)
  BY DEF At, Aside, Performing, Choosing, Completing
<1>9. \A u \in Universe : \A p \in PlaylistSessions(u) : Listed(p)'
  BY <1>1, EvolvedSessions, PlayingIsListed DEF Listed
<1> QED
  BY <1>1, <1>5, <1>7, <1>8, <1>9, AsideCarriesNothing, EventlessStep

LEMMA RunnersGoOn ==
  ASSUME PlaybackInv, PlaybackInv', GoOnInv, NEW s \in Session, RunnerStep(s)
  PROVE  GoOnInv'
<1>1. Owned /\ TypeOK /\ ThreadsTyped /\ Loop \in Thread /\ Proper(Loop) /\ ListedUntilOver /\ LatestPlays
  BY DEF PlaybackInv, Owned, GoOnInv, Thread
<1>2. At(Loop, "ready")
  BY DEF RunnerStep, RunnerLate, RunnerCancelled, RunnerFinished, RunnerFailed, TakeRunner
<1>3. CASE RunnerLate(s)
  <2>1. Calm /\ UNCHANGED <<playlistState, thread>>
    BY <1>3 DEF RunnerLate, smVars, chainVars, endVars, Calm
  <2>2. /\ Beside(Loop) /\ Undemanding(thread'[Loop].pc) /\ Aside(thread[Loop].pc)
        /\ thread'[Loop].ret = thread[Loop].ret
    BY <1>2, <2>1 DEF At, Beside, Undemanding, Aside, Performing, Choosing, Completing, Finishing
  <2>3. Proper(Loop)'
    BY <1>1, <2>2, UndemandingIsProper
  <2> QED
    BY <1>1, <2>1, <2>2, <2>3, AsideCarriesNothing, CalmStep
<1>4. CASE RunnerCancelled(s) \/ RunnerFinished(s)
  <2>1. PICK pc \in {"clearCancelled", "onFinish"} :
          /\ Goto(Loop, InRunner(s, pc))
          /\ pc = "clearCancelled" => Cancelled(s)
          /\ pc = "onFinish" => ~Cancelled(s)
    BY <1>4 DEF RunnerCancelled, RunnerFinished
  <2>2. /\ UNCHANGED <<sessions, active, playlistState, playlistEvents, crossed>>
        /\ finished' = finished \cup {s} /\ s \notin finished
    BY <1>4 DEF RunnerCancelled, RunnerFinished, Claim, smVars, chainVars
  <2>3. Evolves /\ (Cancelled(s)' <=> Cancelled(s))
    BY <1>1, <2>2 DEF Evolves, Keeps, Listed, Cancelled
  <2>4. pc = "onFinish" /\ sessions[s].reason = "Playlist" => Latest(s)
    <3> SUFFICES ASSUME pc = "onFinish", sessions[s].reason = "Playlist"
                 PROVE  Latest(s)
      OBVIOUS
    <3>1. Listed(s) /\ ~Cancelled(s)
      BY <1>1, <2>1, <2>2 DEF ListedUntilOver
    <3>2. sessions[s] \in SessionRecord
      BY <1>1, ElementOfSeq DEF TypeOK, Session
    <3>3. sessions[s].universe \in Universe
      BY <3>2 DEF SessionRecord
    <3>4. s \in PlaylistSessions(sessions[s].universe)
      BY <3>1 DEF PlaylistSessions, Live, Listed
    <3> QED
      BY <1>1, <3>3, <3>4 DEF LatestPlays
  <2> QED
    BY <1>2, <2>1, <2>2, <2>3, <2>4, ClaimGoesOn
<1>5. CASE RunnerFailed(s)
  <2>1. /\ CancelDirect(s) /\ Goto(Loop, InRunner(s, "clearCancelled"))
        /\ UNCHANGED <<playlistEvents, crossed>> /\ finished' = finished \cup {s}
    BY <1>5 DEF RunnerFailed, Claim, chainVars
  <2>2. Evolves /\ Cancelled(s)' /\ UNCHANGED <<active, playlistState>>
    BY <1>1, <2>1, FlagSetEvolves DEF CancelDirect
  <2> QED
    BY <1>2, <2>1, <2>2, ClaimGoesOn
<1> QED
  BY <1>3, <1>4, <1>5 DEF RunnerStep

\* The end of a listing by the loop: of a cancelled session, or of one that has
\* played to its end and whose playlist the loop carries on.
LEMMA ClearingGoesOn ==
  ASSUME PlaybackInv, PlaybackInv', GoOnInv, ClearCancelled \/ FinishCancelled \/ FinishClear
  PROVE  GoOnInv'
<1> DEFINE r == thread[Loop]
<1>1. /\ Owned /\ TypeOK /\ ThreadsTyped /\ Loop \in Thread /\ Proper(Loop) /\ Books
      /\ r \in ThreadRecord /\ r.universe \in Universe
  BY DEF PlaybackInv, Owned, OwnershipInv, GoOnInv, Thread, ThreadsTyped, ThreadRecord
<1>2. PICK pc \in {"cancelledDone", "after", "queue"} :
        /\ Jump(Loop, pc)
        /\ \/ r.pc = "clear" /\ pc = "queue"
           \/ r.pc \in {"clearCancelled", "finishCancelled"} /\ pc # "queue"
  BY DEF ClearCancelled, FinishCancelled, FinishClear, At
<1>3. /\ ClearSession(r.universe, r.session) /\ UNCHANGED <<playlistEvents, crossed, finished>>
  BY DEF ClearCancelled, FinishCancelled, FinishClear, eventVars, chainVars, endVars
<1>4. /\ r.session \in finished /\ r.universe = sessions[r.session].universe
      /\ pc # "queue" => Cancelled(r.session)
  BY <1>1, <1>2 DEF Proper, Completing, Finishing
<1>5. PICK v \in Session : v = r.session
  BY <1>1, <1>4 DEF Books
<1>6. PICK u \in Universe : u = r.universe
  BY <1>1
<1>7. /\ v \in finished /\ u = sessions[v].universe
      /\ UNCHANGED <<sessions, finished, playlistState>> /\ active' = [active EXCEPT ![u] = @ \ {v}]
      /\ pc # "queue" => Cancelled(v)
  BY <1>3, <1>4, <1>5, <1>6 DEF ClearSession
<1>8. /\ Evolves
      /\ \A w \in Universe : \A s \in PlaylistSessions(w) : s = v \/ Listed(s)'
  BY <1>1, <1>7, UnlistedEvolves
<1>9. /\ Beside(Loop) /\ thread'[Loop].pc = pc /\ thread'[Loop].universe = u
      /\ thread'[Loop].session = v /\ thread'[Loop].ret = r.ret
  BY <1>1, <1>2, <1>5, <1>6, OneThreadJumps
<1>10. Proper(Loop)'
  BY <1>1, <1>2, <1>7, <1>9 DEF Proper, LoopWork, NextInHand, Choosing, Completing, Finishing
<1>11. ASSUME NEW w \in Universe, playlistState[w] = "Active"
       PROVE  \/ /\ Carrying(Loop, w) => Carrying(Loop, w)'
                 /\ \A s \in PlaylistSessions(w) : Listed(s)' \/ Cancelled(s)'
              \/ Justified(w)'
  <2>1. CASE pc = "queue"
    <3>1. CASE w = u /\ sessions[v].reason = "Playlist"
      <4>1. Carrying(Loop, w)'
        BY <1>7, <1>9, <2>1, <3>1 DEF Carrying, Completing
      <4> QED
        BY <1>1, <4>1 DEF Justified
    <3>2. CASE ~(w = u /\ sessions[v].reason = "Playlist")
      <4>1. \A s \in PlaylistSessions(w) : s # v
        BY <1>1, <1>7, <3>2, PlayingIsListed
      <4>2. ~Carrying(Loop, w)
        BY <1>2, <1>5, <1>6, <2>1, <3>2 DEF Carrying, Performing
      <4> QED
        BY <1>8, <4>1, <4>2
    <3> QED
      BY <3>1, <3>2
  <2>2. CASE pc # "queue"
    <3>1. \A s \in PlaylistSessions(w) : s # v
      BY <1>1, <1>7, <2>2, PlayingIsListed
    <3>2. ~Carrying(Loop, w)
      BY <1>2, <2>2 DEF Carrying, Performing, Completing
    <3> QED
      BY <1>8, <3>1, <3>2
  <2> QED
    BY <2>1, <2>2
<1> QED
  BY <1>1, <1>3, <1>7, <1>8, <1>9, <1>10, <1>11, EventlessStep

\* A calm jump of the loop while it ends a session or serves a playlist.
LEMMA LoopJumpGoesOn ==
  ASSUME PlaybackInv, PlaybackInv', GoOnInv, NEW pc,
         pc \notin {"schedule", "register", "abort", "status", "choose", "onFinish",
                    "clearCancelled", "finishCancelled"},
         Jump(Loop, pc), Calm,
         pc \in Completing \cup Finishing => thread[Loop].pc \in Completing \cup Finishing,
         \A w \in Universe :
           playlistState'[w] = "Active" =>
             \/ /\ playlistState[w] = "Active"
                /\ Carrying(Loop, w) => (Carrying(Loop, w)' \/ Justified(w)')
             \/ Justified(w)'
  PROVE  GoOnInv'
<1>1. ThreadsTyped /\ Loop \in Thread /\ Proper(Loop)
  BY DEF PlaybackInv, Owned, GoOnInv, Thread
<1>2. /\ Beside(Loop) /\ thread'[Loop].pc = pc /\ thread'[Loop].session = thread[Loop].session
      /\ thread'[Loop].universe = thread[Loop].universe
  BY <1>1, OneThreadJumps
<1>3. Proper(Loop)'
  BY <1>1, <1>2 DEF Calm, Proper, NextInHand
<1> QED
  BY <1>1, <1>2, <1>3, CalmStep

\* The loop ends a session that has played to its end.
LEMMA FinishingGoesOn ==
  ASSUME PlaybackInv, PlaybackInv', GoOnInv, RunningHasSnapshot,
         \/ OnFinish \/ FinishQueued \/ FinishNothingQueued \/ FinishInterrupted \/ FinishConsume
         \/ FinishResumed \/ FinishChain
  PROVE  GoOnInv'
<1> DEFINE r == thread[Loop]
<1>1. /\ Owned /\ TypeOK /\ ThreadsTyped /\ Loop \in Thread /\ Proper(Loop) /\ Books /\ EventsTyped
      /\ r \in ThreadRecord
  BY DEF PlaybackInv, Owned, OwnershipInv, GoOnInv, Thread, ThreadsTyped
<1>2. PICK u \in Universe : u = r.universe
  BY <1>1 DEF ThreadRecord
<1>3. r.pc \in Completing =>
        r.session \in finished /\ r.session \in Session /\ u = sessions[r.session].universe
  BY <1>1, <1>2 DEF Proper, Books
<1>4. \A w \in Universe : w # u => ~Carrying(Loop, w)
  BY <1>2 DEF Carrying
<1>5. CASE OnFinish
  <2>1. /\ r.pc = "onFinish" /\ Calm /\ UNCHANGED playlistState
        /\ \/ Jump(Loop, "finishCancelled") /\ Cancelled(r.session)
           \/ Jump(Loop, "clear")
    BY <1>5 DEF OnFinish, At, smVars, eventVars, chainVars, endVars, Calm
  <2>2. PICK v \in Session : v = r.session
    BY <1>3, <2>1 DEF Completing
  <2>3. v \in finished /\ u = sessions[v].universe /\ (sessions[v].reason = "Playlist" => Latest(v))
    BY <1>1, <1>3, <2>1, <2>2 DEF Completing, Proper
  <2>4. CASE Jump(Loop, "finishCancelled") /\ Cancelled(r.session)
    <3>1. /\ Beside(Loop) /\ thread'[Loop].pc = "finishCancelled" /\ thread'[Loop].session = v
          /\ thread'[Loop].universe = u
      BY <1>1, <1>2, <2>2, <2>4, OneThreadJumps
    <3>2. Cancelled(v) /\ Cancelled(v)'
      BY <2>1, <2>2, <2>4 DEF Calm, Cancelled
    <3>3. Proper(Loop)'
      <4>1. Cancelled(thread[Loop].session)'
        BY <3>1, <3>2 DEF Cancelled
      <4> QED
        BY <2>1, <2>3, <3>1, <4>1 DEF Calm, Proper, NextInHand
    <3>4. ASSUME sessions[v].reason = "Playlist"
          PROVE  Justified(u)'
      <4>1. v \in Played(u) /\ \A p \in Played(u) : p <= v
        BY <2>3, <3>4 DEF Latest, Played
      <4>2. Played(u)' = Played(u)
        BY <2>1 DEF Calm, Played, Session
      <4>3. v \in Played(u)' /\ Cancelled(v)' /\ \A p \in Played(u)' : p <= v
        BY <3>2, <4>1, <4>2
      <4>4. LastOfPlaylistCancelled(u)'
        BY <4>3 DEF LastOfPlaylistCancelled, Played
      <4> QED
        BY <4>4 DEF Justified
    <3>5. Carrying(Loop, u) => sessions[v].reason = "Playlist"
      BY <2>1, <2>2 DEF Carrying, Performing
    <3> QED
      BY <1>1, <1>4, <2>1, <3>1, <3>3, <3>4, <3>5, CalmStep
  <2>5. CASE Jump(Loop, "clear")
    <3>1. thread'[Loop].pc = "clear" /\ thread'[Loop].session = v /\ thread'[Loop].universe = u
      BY <1>1, <1>2, <2>2, <2>5, OneThreadJumps
    <3>2. Carrying(Loop, u) => Carrying(Loop, u)'
      BY <2>1, <2>2, <3>1 DEF Calm, Carrying, Performing, Completing
    <3> QED
      BY <1>4, <2>1, <2>5, <3>2, LoopJumpGoesOn DEF Completing
  <2> QED
    BY <2>1, <2>4, <2>5
<1>6. CASE FinishQueued
  <2>1. /\ r.pc = "queue" /\ UNCHANGED <<sessions, active, finished, playlistEvents, playlistState>>
        /\ thread' = [thread EXCEPT ![Loop] =
             [r EXCEPT !.pc = "schedule", !.animation = Head(queue[r.universe]),
                       !.reason = "AdHoc", !.before = r.session, !.session = 0, !.ret = "onFinish"]]
        /\ crossed' = IF sessions[r.session].reason = "Playlist" THEN crossed \cup {u} ELSE crossed
    BY <1>2, <1>6 DEF FinishQueued, PopQueuedAnimation, At, Goto, endVars
  <2>2. PICK q : q = [r EXCEPT !.pc = "schedule", !.animation = Head(queue[r.universe]),
                               !.reason = "AdHoc", !.before = r.session, !.session = 0, !.ret = "onFinish"]
    OBVIOUS
  <2>3. q.pc = "schedule" /\ q.reason = "AdHoc" /\ q.ret = "onFinish"
    BY <1>1, <2>2 DEF ThreadRecord
  <2>4. thread'[Loop] = q /\ Beside(Loop)
    BY <1>1, <2>1, <2>2, OneThreadMoves
  <2>5. Proper(Loop)'
    BY <2>3, <2>4 DEF Proper, NextInHand, Completing, Finishing
  <2>6. crossed \subseteq crossed' /\ crossed' \subseteq Universe
    BY <1>1, <2>1 DEF EventsTyped
  <2>7. Carrying(Loop, u) => Justified(u)'
    <3>1. Carrying(Loop, u) => u \in crossed'
      BY <2>1 DEF Carrying, Performing
    <3> QED
      BY <3>1 DEF Justified
  <2> QED
    BY <1>1, <1>4, <2>1, <2>4, <2>5, <2>6, <2>7, CrossStep
<1>7. CASE FinishNothingQueued \/ FinishInterrupted
  <2>1. PICK pc \in {"interrupted?", "consume", "chain"} :
          /\ Jump(Loop, pc) /\ r.pc \in {"queue", "interrupted?"}
          /\ pc = "consume" => playlistState[u] = "Interrupted"
    BY <1>2, <1>7 DEF FinishNothingQueued, FinishInterrupted, At
  <2>2. Calm /\ UNCHANGED playlistState
    BY <1>7 DEF FinishNothingQueued, FinishInterrupted, smVars, eventVars, chainVars, endVars, Calm
  <2>3. thread'[Loop].pc = pc /\ thread'[Loop].session = r.session /\ thread'[Loop].universe = u
    BY <1>1, <1>2, <2>1, OneThreadJumps
  <2>4. pc # "consume" /\ Carrying(Loop, u) => Carrying(Loop, u)'
    BY <2>1, <2>2, <2>3 DEF Calm, Carrying, Performing, Completing
  <2> QED
    BY <1>4, <2>1, <2>2, <2>4, LoopJumpGoesOn DEF Completing
<1>8. CASE FinishConsume
  <2>1. PICK pc \in {"resumed", "after"} :
          /\ Jump(Loop, pc) /\ r.pc = "consume" /\ Calm
          /\ \/ pc = "resumed" /\ \A w \in Universe : w # u => playlistState'[w] = playlistState[w]
             \/ \A w \in Universe : playlistState'[w] = "Active" => playlistState[w] = "Active"
    <3>1. r.pc = "consume" /\ Calm
      BY <1>8 DEF FinishConsume, ConsumeResume, ResumePlaylist, ConsumeDecline, At,
                  smVars, eventVars, chainVars, endVars, Calm
    <3>2. CASE ConsumeResume(u) /\ Jump(Loop, "resumed")
      BY <1>1, <3>1, <3>2 DEF ConsumeResume, ResumePlaylist, TypeOK
    <3>3. CASE ConsumeDecline(u) /\ Jump(Loop, "after")
      BY <1>1, <3>1, <3>3 DEF ConsumeDecline, TypeOK
    <3>4. CASE Jump(Loop, "after") /\ UNCHANGED smVars
      BY <3>1, <3>4 DEF smVars
    <3> QED
      BY <1>2, <1>8, <3>2, <3>3, <3>4 DEF FinishConsume
  <2>2. thread'[Loop].pc = pc /\ thread'[Loop].universe = u
    BY <1>1, <1>2, <2>1, OneThreadJumps
  <2>3. pc = "resumed" => Justified(u)'
    <3>1. pc = "resumed" => Carrying(Loop, u)'
      BY <2>2 DEF Carrying
    <3> QED
      BY <1>1, <3>1 DEF Justified
  <2>4. ~Carrying(Loop, u)
    BY <2>1 DEF Carrying, Performing
  <2> QED
    BY <1>4, <2>1, <2>3, <2>4, LoopJumpGoesOn DEF Completing, Finishing
<1>9. CASE FinishResumed \/ FinishChain
  <2>1. /\ r.pc \in {"resumed", "chain"} /\ Jump(Loop, "after")
        /\ UNCHANGED <<sessions, active, finished, playlistState>>
        /\ \/ PushPlaylistEvent(u)
           \/ /\ UNCHANGED <<playlistEvents, crossed>>
              /\ \/ r.pc = "resumed" /\ playlistStatus[u] = NoStatus
                 \/ r.pc = "chain" /\ ~(sessions[r.session].reason = "Playlist" /\ playlistState[u] = "Active")
    BY <1>2, <1>9 DEF FinishResumed, FinishChain, At, smVars, endVars, chainVars
  <2>2. Beside(Loop) /\ thread'[Loop].pc = "after" /\ thread'[Loop].ret = r.ret
    BY <1>1, <2>1, OneThreadJumps
  <2>3. Proper(Loop)'
    BY <2>2 DEF Proper, NextInHand, Completing, Finishing
  <2>4. CASE PushPlaylistEvent(u)
    BY <1>1, <1>4, <2>1, <2>2, <2>3, <2>4, PushStep
  <2>5. CASE UNCHANGED <<playlistEvents, crossed>>
    <3>1. Calm
      BY <2>1, <2>5 DEF Calm
    <3>2. playlistState[u] = "Active" => \/ ~Carrying(Loop, u)
                                        \/ PushPlaylistEvent(u)
      BY <2>1 DEF Carrying, Performing, RunningHasSnapshot
    <3>3. CASE PushPlaylistEvent(u)
      BY <2>4, <3>3
    <3>4. CASE ~PushPlaylistEvent(u)
      BY <1>1, <1>4, <2>1, <2>2, <2>3, <3>1, <3>2, <3>4, CalmStep
    <3> QED
      BY <3>3, <3>4
  <2> QED
    BY <2>1, <2>4, <2>5
<1> QED
  BY <1>5, <1>6, <1>7, <1>8, <1>9

\* The loop ends a session that was cancelled, or returns to the runner, or sees
\* that a stream has stopped.
LEMMA RestOfLoopGoesOn ==
  ASSUME PlaybackInv, PlaybackInv', GoOnInv,
         \/ CancelledDone \/ RunnerAfter \/ RunnerToIdle
         \/ \E c \in Creature : StreamExpires(c)
         \/ StreamStopped
  PROVE  GoOnInv'
<1> DEFINE r == thread[Loop]
<1>1. Loop \in Thread /\ Calm /\ UNCHANGED playlistState
      /\ r.pc \in {"cancelledDone", "after", "toIdle", "ready", "expired"}
  BY DEF CancelledDone, RunnerAfter, RunnerToIdle, StreamExpires, StreamStopped, At, Thread,
         smVars, eventVars, chainVars, endVars, Calm
<1>2. Aside(r.pc)
  BY <1>1 DEF Aside, Performing, Choosing, Completing
<1>3. Detached(Ready)
  BY ReadyTyped DEF Detached, Choosing, Completing, Finishing
<1>4. ASSUME NEW pc \in {"idle", "expired"}, NEW cs, NEW n, NEW q,
             \/ q = [Ready EXCEPT !.pc = pc, !.idles = cs]
             \/ q = [Ready EXCEPT !.pc = pc, !.before = n, !.idles = cs]
      PROVE  Detached(q)
  <2>1. q.pc = pc /\ q.ret = "ready"
    BY <1>4, ReadyTyped DEF ThreadRecord
  <2> QED
    BY <2>1 DEF Detached, Choosing, Completing, Finishing
<1>5. \/ \E pc \in {"toIdle", "idle"} : Jump(Loop, pc)
      \/ thread' = [thread EXCEPT ![Loop] = Ready]
      \/ \E pc \in {"idle", "expired"} : \E cs : thread' = [thread EXCEPT ![Loop] = [Ready EXCEPT !.pc = pc, !.idles = cs]]
      \/ \E n, cs : thread' = [thread EXCEPT ![Loop] = [Ready EXCEPT !.pc = "idle", !.before = n, !.idles = cs]]
  BY DEF CancelledDone, RunnerAfter, RunnerToIdle, StreamExpires, StreamStopped, Goto
<1>6. CASE \E pc \in {"toIdle", "idle"} : Jump(Loop, pc)
  <2>1. \A pc \in {"toIdle", "idle"} : Undemanding(pc)
    BY DEF Undemanding, Choosing, Completing, Finishing
  <2> QED
    BY <1>1, <1>2, <1>6, <2>1, AsideJump
<1>7. CASE \E pc \in {"idle", "expired"} : \E cs : thread' = [thread EXCEPT ![Loop] = [Ready EXCEPT !.pc = pc, !.idles = cs]]
  <2>1. PICK pc \in {"idle", "expired"} : \E cs : thread' = [thread EXCEPT ![Loop] = [Ready EXCEPT !.pc = pc, !.idles = cs]]
    BY <1>7
  <2>2. PICK cs : thread' = [thread EXCEPT ![Loop] = [Ready EXCEPT !.pc = pc, !.idles = cs]]
    BY <2>1
  <2>3. PICK q : q = [Ready EXCEPT !.pc = pc, !.idles = cs]
    OBVIOUS
  <2>4. Detached(q) /\ thread' = [thread EXCEPT ![Loop] = q]
    BY <1>4, <2>2, <2>3
  <2> QED
    BY <1>1, <1>2, <2>4, AsideGo
<1>8. CASE \E n, cs : thread' = [thread EXCEPT ![Loop] = [Ready EXCEPT !.pc = "idle", !.before = n, !.idles = cs]]
  <2>1. PICK n, cs : thread' = [thread EXCEPT ![Loop] = [Ready EXCEPT !.pc = "idle", !.before = n, !.idles = cs]]
    BY <1>8
  <2>2. PICK q : q = [Ready EXCEPT !.pc = "idle", !.before = n, !.idles = cs]
    OBVIOUS
  <2>3. Detached(q) /\ thread' = [thread EXCEPT ![Loop] = q]
    BY <1>4, <2>1, <2>2
  <2> QED
    BY <1>1, <1>2, <2>3, AsideGo
<1> QED
  BY <1>1, <1>2, <1>3, <1>5, <1>6, <1>7, <1>8, AsideGo

\* A playlist event, from its arrival to the snapshot it writes back.
LEMMA EventsGoOn ==
  ASSUME PlaybackInv, PlaybackInv', GoOnInv,
         \/ \E u \in Universe : TakePlaylistEvent(u)
         \/ PlaylistBusy \/ PlaylistChoose \/ PlaylistUnreadable
         \/ PlaylistBackstop \/ PlaylistUpdateStatus
  PROVE  GoOnInv'
<1> DEFINE r == thread[Loop]
<1>1. /\ TypeOK /\ ThreadsTyped /\ Loop \in Thread /\ Proper(Loop) /\ EventsTyped
      /\ r \in ThreadRecord
  BY DEF PlaybackInv, Owned, GoOnInv, Thread, ThreadsTyped
<1>2. PICK v \in Universe : v = r.universe
  BY <1>1 DEF ThreadRecord
<1>3. \A w \in Universe : w # v => ~Carrying(Loop, w)
  BY <1>2 DEF Carrying
<1>4. CASE \E u \in Universe : TakePlaylistEvent(u)
  <2>1. PICK u \in Universe : TakePlaylistEvent(u)
    BY <1>4
  <2>2. /\ r.pc = "ready" /\ playlistEvents[u] > 0
        /\ playlistEvents' = [playlistEvents EXCEPT ![u] = @ - 1]
        /\ UNCHANGED <<sessions, active, finished, crossed, playlistState>>
    BY <2>1 DEF TakePlaylistEvent, At, smVars, endVars
  <2>3. EventsTyped' /\ \A w \in Universe : w # u => playlistEvents'[w] >= playlistEvents[w]
    BY <1>1, <2>2 DEF EventsTyped
  <2>4. Evolves
    BY <1>1, <2>2 DEF Evolves, Keeps, Listed
  <2>5. PICK q : /\ thread' = [thread EXCEPT ![Loop] = q]
                 /\ q.pc \in {"ready", "clearPlaylist", "busy?"}
                 /\ playlistState[u] = "Active" => q.pc = "busy?" /\ q.universe = u
    <3>1. playlistState[u] \in PlaylistState
      BY <1>1 DEF TypeOK
    <3>2. CASE playlistState[u] \in {"None", "Stopped"}
      <4>1. PICK q : q = [Ready EXCEPT !.pc = "clearPlaylist", !.universe = u]
        OBVIOUS
      <4>2. q.pc = "clearPlaylist"
        BY <4>1, ReadyTyped DEF ThreadRecord
      <4> QED
        BY <2>1, <3>2, <4>1, <4>2 DEF TakePlaylistEvent, Goto
    <3>3. CASE playlistState[u] = "Interrupted"
      BY <2>1, <3>3, ReadyTyped DEF TakePlaylistEvent, Goto
    <3>4. CASE playlistState[u] = "Active"
      <4>1. PICK q : q = [Ready EXCEPT !.pc = "busy?", !.universe = u]
        OBVIOUS
      <4>2. q.pc = "busy?" /\ q.universe = u
        BY <4>1, ReadyTyped DEF ThreadRecord
      <4> QED
        BY <2>1, <3>4, <4>1, <4>2 DEF TakePlaylistEvent, Goto
    <3> QED
      BY <3>1, <3>2, <3>3, <3>4 DEF PlaylistState
  <2>6. thread'[Loop] = q /\ Beside(Loop)
    BY <1>1, <2>5, OneThreadMoves
  <2>7. Proper(Loop)'
    BY <2>5, <2>6 DEF Proper, NextInHand, Completing, Finishing
  <2>8. Aside(r.pc)
    BY <2>2 DEF Aside, Performing, Choosing, Completing
  <2>9. ASSUME NEW w \in Universe, playlistState'[w] = "Active"
        PROVE  Kept(Loop, w) \/ Justified(w)'
    <3>1. CASE w = u
      <4>1. Carrying(Loop, w)'
        BY <2>2, <2>5, <2>6, <2>9, <3>1 DEF Carrying
      <4> QED
        BY <1>1, <4>1 DEF Justified
    <3>2. CASE w # u
      <4>1. \A s \in PlaylistSessions(w) : Listed(s)'
        BY <1>1, <2>2, PlayingIsListed DEF Listed
      <4> QED
        BY <1>1, <2>2, <2>3, <2>8, <2>9, <3>2, <4>1, AsideCarriesNothing DEF Kept
    <3> QED
      BY <3>1, <3>2
  <2> QED
    BY <1>1, <2>3, <2>4, <2>6, <2>7, <2>9, GoOnStep
<1>5. CASE PlaylistBusy
  <2>1. /\ r.pc = "busy?"
        /\ thread' = [thread EXCEPT ![Loop] = IF HasActiveNonIdleSession(v) THEN Ready
                                              ELSE [r EXCEPT !.pc = "choose"]]
        /\ crossed' = IF \E s \in Live(v) : sessions[s].reason \notin {"Playlist", "Idle"}
                      THEN crossed \cup {v} ELSE crossed
        /\ UNCHANGED <<sessions, active, finished, playlistEvents, playlistState>>
    BY <1>2, <1>5 DEF PlaylistBusy, At, Goto, smVars, endVars
  <2>2. crossed \subseteq crossed' /\ crossed' \subseteq Universe
    BY <1>1, <2>1 DEF EventsTyped
  <2>3. PlaylistSessions(v)' = PlaylistSessions(v)
    BY <2>1 DEF PlaylistSessions, Live, Cancelled
  <2>4. CASE HasActiveNonIdleSession(v)
    <3>1. thread'[Loop] = Ready /\ Beside(Loop)
      BY <1>1, <2>1, <2>4, OneThreadMoves
    <3>2. Proper(Loop)'
      BY <3>1, ReadyTyped DEF Proper, NextInHand, Completing, Finishing
    <3>3. Justified(v)'
      <4>1. PlaylistSessions(v) # {} \/ v \in crossed'
        BY <2>1, <2>4 DEF HasActiveNonIdleSession, PlaylistSessions
      <4> QED
        BY <2>3, <4>1 DEF Justified
    <3> QED
      BY <1>1, <1>3, <2>1, <2>2, <3>1, <3>2, <3>3, CrossStep
  <2>5. CASE ~HasActiveNonIdleSession(v)
    <3>1. PICK q : q = [r EXCEPT !.pc = "choose"]
      OBVIOUS
    <3>2. q.pc = "choose" /\ q.universe = v
      BY <1>1, <1>2, <3>1 DEF ThreadRecord
    <3>3. thread'[Loop] = q /\ Beside(Loop)
      BY <1>1, <2>1, <2>5, <3>1, OneThreadMoves
    <3>4. PlaylistSessions(v)' = {}
      BY <2>3, <2>5 DEF HasActiveNonIdleSession, PlaylistSessions
    <3>5. Proper(Loop)'
      <4>1. PlaylistSessions(thread[Loop].universe)' = {}
        BY <3>2, <3>3, <3>4 DEF PlaylistSessions, Live
      <4> QED
        BY <3>2, <3>3, <4>1 DEF Proper, NextInHand, Completing, Finishing
    <3>6. Carrying(Loop, v)'
      BY <3>2, <3>3 DEF Carrying
    <3> QED
      BY <1>1, <1>3, <2>1, <2>2, <3>3, <3>5, <3>6, CrossStep
  <2> QED
    BY <2>4, <2>5
<1>6. CASE PlaylistChoose
  <2>1. /\ r.pc = "choose" /\ Calm /\ UNCHANGED playlistState
        /\ \E a : thread' = [thread EXCEPT ![Loop] =
                    [r EXCEPT !.pc = "schedule", !.animation = a, !.reason = "Playlist",
                              !.ret = "playlist", !.status = playlistStatus[r.universe]]]
    BY <1>6 DEF PlaylistChoose, At, Goto, smVars, eventVars, chainVars, endVars, Calm
  <2>2. PICK a : thread' = [thread EXCEPT ![Loop] =
                   [r EXCEPT !.pc = "schedule", !.animation = a, !.reason = "Playlist",
                             !.ret = "playlist", !.status = playlistStatus[r.universe]]]
    BY <2>1
  <2>3. PICK q : q = [r EXCEPT !.pc = "schedule", !.animation = a, !.reason = "Playlist",
                               !.ret = "playlist", !.status = playlistStatus[r.universe]]
    OBVIOUS
  <2>4. q.pc = "schedule" /\ q.reason = "Playlist" /\ q.ret = "playlist" /\ q.universe = v
    BY <1>1, <1>2, <2>3 DEF ThreadRecord
  <2>5. thread'[Loop] = q /\ Beside(Loop)
    BY <1>1, <2>2, <2>3, OneThreadMoves
  <2>6. PlaylistSessions(v)' = {}
    <3>1. PlaylistSessions(v) = {}
      BY <1>1, <1>2, <2>1 DEF Proper, NextInHand
    <3> QED
      BY <2>1, <3>1 DEF Calm, PlaylistSessions, Live, Cancelled
  <2>7. Proper(Loop)'
    <3>1. PlaylistSessions(thread[Loop].universe)' = {}
      BY <2>4, <2>5, <2>6 DEF PlaylistSessions, Live
    <3> QED
      BY <2>4, <2>5, <3>1 DEF Proper, Completing, Finishing
  <2>8. Carrying(Loop, v)'
    BY <2>4, <2>5 DEF Carrying, Performing
  <2> QED
    BY <1>1, <1>3, <2>1, <2>5, <2>7, <2>8, CalmStep
<1>7. CASE PlaylistUnreadable
  <2>1. r.pc = "choose" /\ Calm /\ UNCHANGED playlistState /\ Jump(Loop, "clearPlaylist")
    BY <1>7 DEF PlaylistUnreadable, At, smVars, eventVars, chainVars, endVars, Calm
  <2>2. thread'[Loop].pc = "clearPlaylist" /\ thread'[Loop].universe = v
    BY <1>1, <1>2, <2>1, OneThreadJumps
  <2>3. Carrying(Loop, v)'
    BY <2>2 DEF Carrying
  <2> QED
    BY <1>3, <2>1, <2>3, LoopJumpGoesOn DEF Completing, Finishing
<1>8. CASE PlaylistBackstop
  <2>1. /\ PushPlaylistEvent(v) /\ Jump(Loop, "status")
        /\ UNCHANGED <<sessions, active, finished, playlistState>>
    BY <1>2, <1>8 DEF PlaylistBackstop, smVars, endVars
  <2>2. Beside(Loop) /\ thread'[Loop].pc = "status" /\ thread'[Loop].universe = v
    BY <1>1, <1>2, <2>1, OneThreadJumps
  <2>3. playlistEvents'[v] > 0
    BY <1>1, <2>1 DEF PushPlaylistEvent, EventsTyped
  <2>4. Proper(Loop)'
    BY <2>2, <2>3 DEF Proper, NextInHand, Completing, Finishing
  <2> QED
    BY <1>1, <1>3, <2>1, <2>2, <2>4, PushStep
<1>9. CASE PlaylistUpdateStatus
  <2>1. /\ r.pc = "status" /\ Calm /\ \A w \in Universe : w # v => playlistState'[w] = playlistState[w]
    BY <1>1, <1>2, <1>9 DEF PlaylistUpdateStatus, SetPlaylistStatus, At, eventVars, chainVars, endVars, Calm, TypeOK
  <2>2. PICK cs : thread' = [thread EXCEPT ![Loop] =
                    [Ready EXCEPT !.pc = "idle", !.universe = r.universe, !.idles = cs]]
    BY <1>9 DEF PlaylistUpdateStatus, Goto
  <2>3. PICK q : q = [Ready EXCEPT !.pc = "idle", !.universe = r.universe, !.idles = cs]
    OBVIOUS
  <2>4. q.pc = "idle" /\ q.ret = "ready"
    BY <2>3, ReadyTyped DEF ThreadRecord
  <2>5. thread'[Loop] = q /\ Beside(Loop)
    BY <1>1, <2>2, <2>3, OneThreadMoves
  <2>6. Detached(thread'[Loop])
    BY <2>4, <2>5 DEF Detached, Choosing, Completing, Finishing
  <2>7. Justified(v)'
    <3>1. playlistEvents[v] > 0
      BY <1>1, <1>2, <2>1 DEF Proper
    <3> QED
      BY <2>1, <3>1 DEF Calm, Justified
  <2> QED
    BY <1>1, <1>3, <2>1, <2>5, <2>6, <2>7, DetachedStep
<1> QED
  BY <1>4, <1>5, <1>6, <1>7, <1>8, <1>9

\* The invariant is inductive, given who owns which session and that a running
\* playlist has a snapshot.
LEMMA GoOnInvStep ==
  ASSUME PlaybackInv, PlaybackInv', PlaylistInv, GoOnInv, [PlaybackNext]_playbackVars
  PROVE  GoOnInv'
<1>1. RunningHasSnapshot /\ Loop \in Thread /\ Loader \subseteq Thread /\ Rest \subseteq Thread
  BY DEF PlaylistInv, Thread
<1>2. CASE \E t \in Thread : ScheduleStep(t)
  BY <1>2, SchedulingGoesOn, UnwindingGoesOn, GoOnRegisters DEF ScheduleStep
<1>3. CASE \E t \in Loader : LoaderStep(t)
  BY <1>1, <1>3, LoadingGoesOn
<1>4. CASE \E t \in Rest : RequestStep(t)
  BY <1>1, <1>4, PlayRequestsGoOn, StartRequestsGoOn, StreamRequestsGoOn, RollbackGoesOn DEF RequestStep
<1>5. CASE LoopStep
  BY <1>1, <1>5, RunnersGoOn, ClearingGoesOn, FinishingGoesOn, RestOfLoopGoesOn, EventsGoOn DEF LoopStep
<1>6. CASE UNCHANGED playbackVars
  <2>1. Calm /\ UNCHANGED <<playlistState, thread>>
    BY <1>6 DEF playbackVars, smVars, eventVars, chainVars, endVars, Calm
  <2>2. Session' = Session
    BY <2>1 DEF Calm, Session
  <2>3. EventsTyped' /\ ListedUntilOver' /\ LatestPlays'
    BY <2>1, <2>2 DEF Calm, GoOnInv, EventsTyped, ListedUntilOver, LatestPlays, Listed, Cancelled,
                      PlaylistSessions, Live, Latest, Played
  <2>4. \A t \in Thread : Proper(t)'
    BY <2>1, <2>2 DEF Calm, GoOnInv, Proper, Cancelled, PlaylistSessions, Live, Latest, Played
  <2>5. \A u \in Universe : playlistState'[u] = "Active" => Justified(u)'
    <3>1. \A u : PlaylistSessions(u)' = PlaylistSessions(u)
      BY <2>1 DEF Calm, PlaylistSessions, Live, Cancelled
    <3>2. \A u : LastOfPlaylistCancelled(u) => LastOfPlaylistCancelled(u)'
      BY <2>1, <2>2 DEF Calm, LastOfPlaylistCancelled, Cancelled
    <3>3. \A t \in Thread, u \in Universe : Carrying(t, u) => Carrying(t, u)'
      BY <2>1 DEF Calm, Carrying
    <3> QED
      BY <2>1, <3>1, <3>2, <3>3 DEF Calm, GoOnInv, Justified
  <2> QED
    BY <2>3, <2>4, <2>5 DEF GoOnInv
<1> QED
  BY <1>2, <1>3, <1>4, <1>5, <1>6 DEF PlaybackNext

\* The invariant holds initially.
LEMMA GoOnStarts ==
  ASSUME PlaybackInit
  PROVE  GoOnInv
<1>1. /\ sessions = <<>> /\ Session = {}
      /\ \A u \in Universe : playlistState[u] = "None" /\ active[u] = {}
      /\ EventsTyped
      /\ \A t \in Thread : thread[t] = Ready
  BY DEF PlaybackInit, Init, Session, EventsTyped
<1>2. ListedUntilOver /\ LatestPlays
  BY <1>1 DEF ListedUntilOver, LatestPlays, PlaylistSessions, Live
<1>3. \A t \in Thread : Proper(t)
  BY <1>1, ReadyTyped DEF Proper, LoopWork, NextInHand, Choosing, Completing, Finishing
<1> QED
  BY <1>1, <1>2, <1>3 DEF GoOnInv

(* NoStrandedPlaylist: once everything under way has been dealt with, a    *)
(* playlist that is Active has an event or a session, or was crossed:      *)
(* whatever the threads do between their critical sections, no playlist    *)
(* stalls by itself.                                                       *)
THEOREM NoPlaylistIsStranded == PlaybackSpec => []NoStrandedPlaylist
<1>1. PlaybackInit => GoOnInv
  BY GoOnStarts
<1>2. PlaybackInv /\ PlaybackInv' /\ PlaylistInv /\ GoOnInv /\ [PlaybackNext]_playbackVars => GoOnInv'
  BY GoOnInvStep
<1>3. GoOnInv => NoStrandedPlaylist
  <2> SUFFICES ASSUME GoOnInv, Settled, NEW u \in Universe, playlistState[u] = "Active"
               PROVE  \/ playlistEvents[u] > 0
                      \/ PlaylistSessions(u) # {}
                      \/ u \in crossed
                      \/ LastOfPlaylistCancelled(u)
    BY DEF NoStrandedPlaylist
  <2>1. \A t \in Thread : ~Carrying(t, u)
    BY DEF Settled, At, Carrying, Performing, Completing
  <2> QED
    BY <2>1 DEF GoOnInv, Justified
<1>4. PlaybackSpec => []PlaylistInv
  BY PlaybackUsesTheRegistry, PlaylistInvHolds, PTL
<1> QED
  BY <1>1, <1>2, <1>3, <1>4, OwnershipHolds, PTL DEF PlaybackSpec

=============================================================================
