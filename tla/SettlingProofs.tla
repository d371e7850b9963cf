--------------------------- MODULE SettlingProofs ---------------------------
(***************************************************************************)
(* Proof that cooperative playback settles right, for any universes,       *)
(* animations, threads, playlists and workloads: the activity said of a    *)
(* creature is that of the session that drives it, and an interrupted      *)
(* playlist waits for a session whose end decides on it.                   *)
(***************************************************************************)
EXTENDS PlaybackProofs

-----------------------------------------------------------------------------
(* Who has been told: a session is marked as notified only when it is      *)
(* cancelled, and one under preparation is listed until it is.             *)

NotifyInv ==
  \A s \in Session :
    /\ sessions[s].notified => Cancelled(s)
    /\ Preparing(s) => Listed(s) \/ sessions[s].notified

\* No flag of a session is reset, and cancelling sets the second one with the first.
FlagsGrow ==
  \A s \in Session :
    /\ sessions[s].notified => sessions'[s].notified
    /\ sessions'[s].notified => sessions[s].notified \/ Cancelled(s)'
    /\ Cancelled(s) => Cancelled(s)'

\* What becomes of the flags when some sessions are cancelled and dropped.
LEMMA LockedFlags ==
  ASSUME TypeOK, NEW dead, NEW s \in Session
  PROVE  /\ CancelLocked(dead)[s].notified = (s \in dead \/ sessions[s].notified)
         /\ CancelLocked(dead)[s].cancelled = (s \in dead \/ sessions[s].cancelled)
<1>1. sessions[s] \in SessionRecord
  BY ElementOfSeq DEF TypeOK, Session
<1>2. PICK r \in SessionRecord : r = sessions[s]
  BY <1>1
<1>3. CancelLocked(dead)[s] = IF s \in dead THEN [r EXCEPT !.cancelled = TRUE, !.notified = TRUE] ELSE r
  BY <1>2 DEF CancelLocked
<1>4. CASE s \in dead
  <2>1. PICK d : d = [r EXCEPT !.cancelled = TRUE, !.notified = TRUE]
    OBVIOUS
  <2>2. d.cancelled = TRUE /\ d.notified = TRUE
    BY <2>1 DEF SessionRecord
  <2> QED
    BY <1>3, <1>4, <2>1, <2>2
<1>5. CASE s \notin dead
  <2>1. r.cancelled \in BOOLEAN /\ r.notified \in BOOLEAN
    BY DEF SessionRecord
  <2> QED
    BY <1>2, <1>3, <1>5, <2>1
<1> QED
  BY <1>4, <1>5

\* What becomes of them when one session is cancelled directly.
LEMMA DirectFlags ==
  ASSUME TypeOK, NEW v \in Session, CancelDirect(v) \/ CancelQuietly(v)
  PROVE  /\ FlagsGrow /\ Session' = Session /\ Cancelled(v)'
         /\ \A s \in Session : s # v => sessions'[s] = sessions[s]
         /\ CancelDirect(v) => sessions'[v].notified = sessions[v].notified
         /\ CancelQuietly(v) => sessions'[v].notified
<1>1. sessions \in [Session -> SessionRecord] /\ v \in DOMAIN sessions
  BY LenProperties DEF TypeOK, Session
<1>2. PICK r \in SessionRecord : r = sessions[v]
  BY <1>1
<1>3. PICK d : d = [r EXCEPT !.cancelled = TRUE]
  OBVIOUS
<1>4. PICK e : e = [r EXCEPT !.cancelled = TRUE, !.notified = TRUE]
  OBVIOUS
<1>5. /\ d.cancelled = TRUE /\ d.notified = r.notified
      /\ e.cancelled = TRUE /\ e.notified = TRUE /\ r.notified \in BOOLEAN
  BY <1>3, <1>4 DEF SessionRecord
<1>6. \/ CancelDirect(v) /\ sessions' = [sessions EXCEPT ![v] = d]
      \/ CancelQuietly(v) /\ sessions' = [sessions EXCEPT ![v] = e]
  <2>1. CASE CancelDirect(v)
    <3>1. sessions' = [sessions EXCEPT ![v] = [sessions[v] EXCEPT !.cancelled = TRUE]]
      BY <2>1 DEF CancelDirect
    <3> QED
      BY <1>2, <1>3, <2>1, <3>1
  <2>2. CASE CancelQuietly(v)
    <3>1. sessions' = [sessions EXCEPT ![v] = [sessions[v] EXCEPT !.cancelled = TRUE, !.notified = TRUE]]
      BY <1>1, <2>2 DEF CancelQuietly
    <3> QED
      BY <1>2, <1>4, <2>2, <3>1
  <2> QED
    BY <2>1, <2>2
<1>7. Session' = Session
  BY SetFlags DEF CancelDirect, CancelQuietly, Keeps, Session
<1>8. \A s \in Session : s # v => sessions'[s] = sessions[s]
  BY <1>1, <1>6
<1>9. sessions'[v] = d \/ sessions'[v] = e
  BY <1>1, <1>6
<1>10. Cancelled(v)'
  BY <1>5, <1>9 DEF Cancelled
<1>11. CancelDirect(v) => sessions'[v].notified = sessions[v].notified
  <2>1. SUFFICES ASSUME CancelDirect(v)
                 PROVE  sessions'[v] = d
    BY <1>2, <1>5
  <2>2. sessions' = [sessions EXCEPT ![v] = [sessions[v] EXCEPT !.cancelled = TRUE]]
    BY <2>1 DEF CancelDirect
  <2> QED
    BY <1>1, <1>2, <1>3, <2>2
<1>12. CancelQuietly(v) => sessions'[v].notified
  <2>1. SUFFICES ASSUME CancelQuietly(v)
                 PROVE  sessions'[v] = e
    BY <1>5
  <2>2. sessions' = [sessions EXCEPT ![v] = [sessions[v] EXCEPT !.cancelled = TRUE, !.notified = TRUE]]
    BY <1>1, <2>1 DEF CancelQuietly
  <2> QED
    BY <1>1, <1>2, <1>4, <2>2
<1>13. FlagsGrow
  <2> SUFFICES ASSUME NEW s \in Session
               PROVE  /\ sessions[s].notified => sessions'[s].notified
                      /\ sessions'[s].notified => sessions[s].notified \/ Cancelled(s)'
                      /\ Cancelled(s) => Cancelled(s)'
    BY DEF FlagsGrow
  <2>1. CASE s = v
    BY <1>2, <1>5, <1>9, <1>10, <2>1
  <2>2. CASE s # v
    BY <1>8, <2>2 DEF Cancelled
  <2> QED
    BY <2>1, <2>2
<1> QED
  BY <1>7, <1>8, <1>10, <1>11, <1>12, <1>13

\* And when a set of sessions is cancelled and dropped from a list.
LEMMA DroppedFlags ==
  ASSUME TypeOK, NEW u \in Universe, NEW dead, CancelAndDrop(u, dead)
  PROVE  /\ FlagsGrow /\ Session' = Session
         /\ \A s \in Session :
              /\ s \in dead => Cancelled(s)' /\ sessions'[s].notified
              /\ s \notin dead => /\ Cancelled(s)' <=> Cancelled(s)
                                  /\ sessions'[s].notified <=> sessions[s].notified
                                  /\ Listed(s)' <=> Listed(s)
<1>1. sessions' = CancelLocked(dead) /\ active' = [active EXCEPT ![u] = @ \ dead]
  BY DEF CancelAndDrop
<1>2. Session' = Session /\ Keeps
  BY CancelAndDropType DEF Keeps, Session
<1>3. ASSUME NEW s \in Session
      PROVE  /\ sessions'[s].notified = (s \in dead \/ sessions[s].notified)
             /\ sessions'[s].cancelled = (s \in dead \/ sessions[s].cancelled)
  BY <1>1, LockedFlags
<1>4. ASSUME NEW s \in Session
      PROVE  s \notin dead => (Listed(s)' <=> Listed(s))
  <2>1. sessions[s] \in SessionRecord
    BY ElementOfSeq DEF TypeOK, Session
  <2>2. sessions[s].universe \in Universe /\ sessions'[s].universe = sessions[s].universe
    BY <1>2, <2>1 DEF SessionRecord, Keeps
  <2> QED
    BY <1>1, <2>2 DEF Listed, TypeOK
<1>5. ASSUME NEW s \in Session
      PROVE  /\ s \in dead => Cancelled(s)' /\ sessions'[s].notified
             /\ s \notin dead => /\ Cancelled(s)' <=> Cancelled(s)
                                 /\ sessions'[s].notified <=> sessions[s].notified
  BY <1>3 DEF Cancelled
<1>6. FlagsGrow
  BY <1>3, <1>5 DEF FlagsGrow, Cancelled
<1> QED
  BY <1>2, <1>4, <1>5, <1>6

\* The flags stay right in a step that prepares no other session and takes none
\* under preparation off its list, unless it is notified.
LEMMA FlagsStay ==
  ASSUME NotifyInv, FlagsGrow, Session' = Session,
         \A s \in Session : Preparing(s)' => Preparing(s),
         \A s \in Session : Preparing(s)' /\ Listed(s) => Listed(s)' \/ sessions'[s].notified
  PROVE  NotifyInv'
BY DEF NotifyInv, FlagsGrow

\* What is under preparation after an effect that registers nothing was before it.
LEMMA NothingPrepared ==
  ASSUME Owned, NEW t \in Thread, NEW q \in ThreadRecord, Moves(t, q), Effect(t, q),
         ~Registers(t, q), NEW s, Preparing(s)'
  PROVE  Preparing(s)
<1>1. ThreadsTyped
  BY DEF Owned
<1>2. s \in loading' \/ (q.pc \in Working /\ q.session = s) \/ OtherWorks(t, s)
  BY <1>1, SharesAfter
<1>3. Preparing(s) <=> s \in loading \/ Works(t, s) \/ OtherWorks(t, s)
  BY SharesBefore
<1>4. CASE Passes(t, q) \/ Carries(t, q) \/ Unwinds(t, q) \/ Notifies(t, q)
  <2>1. loading' = loading
    BY <1>4 DEF Passes, Carries, Unwinds, Notifies, owned
  <2>2. q.pc \in Working => thread[t].pc \in Working /\ q.session = thread[t].session
    BY <1>4 DEF Passes, Carries, Unwinds, Notifies, SameWork
  <2> QED
    BY <1>2, <1>3, <2>1, <2>2 DEF Works
<1>5. CASE HandsToRunner(t, q) \/ HandsToLoader(t, q) \/ GivesUp(t, q) \/ TearsDown(t, q)
  <2>1. thread[t].pc \in Working /\ q.pc \notin Working
    BY <1>5 DEF HandsToRunner, HandsToLoader, GivesUp, TearsDown, Leaves
  <2>2. loading' = loading \/ loading' = loading \cup {thread[t].session}
    BY <1>5 DEF HandsToRunner, HandsToLoader, GivesUp, TearsDown, owned
  <2> QED
    BY <1>2, <1>3, <2>1, <2>2 DEF Works
<1>6. CASE TakesUp(t, q)
  <2>1. PICK v \in loading : /\ loading' = loading \ {v}
                             /\ thread[t].pc = "ready"
                             /\ q = thread[t] \/ q.session = v
    BY <1>6 DEF TakesUp
  <2> QED
    BY <1>2, <1>3, <2>1 DEF Working
<1>7. CASE RunsLate(t, q) \/ Completes(t, q) \/ Clears(t, q) \/ Drops(t, q) \/ StartsOver(t, q)
  <2>1. loading' = loading
    BY <1>7 DEF RunsLate, Completes, Clears, Drops, StartsOver
  <2>2. q.pc \notin Working \/ q = thread[t]
    BY <1>7 DEF RunsLate, Completes, Clears, Drops, StartsOver, Working, Finishing, Notifying
  <2> QED
    BY <1>2, <1>3, <2>1, <2>2 DEF Works
<1> QED
  BY <1>4, <1>5, <1>6, <1>7 DEF Effect

\* An effect that registers nothing keeps the flags right.
LEMMA FlagsStayRight ==
  ASSUME Owned, NotifyInv, NEW t \in Thread, NEW q \in ThreadRecord, Moves(t, q), Effect(t, q),
         ~Registers(t, q)
  PROVE  NotifyInv'
<1>1. /\ TypeOK /\ OneOwner /\ ThreadsTyped
      /\ \A s \in Session : Safe(s)
  BY Numbers
<1>2. \A s : Preparing(s)' => Preparing(s)
  BY NothingPrepared
<1>3. CASE UNCHANGED <<sessions, active>>
  <2>1. Session' = Session /\ FlagsGrow /\ \A s \in Session : Listed(s)' <=> Listed(s)
    BY <1>3 DEF Session, FlagsGrow, Listed, Cancelled
  <2> QED
    BY <1>2, <2>1, FlagsStay
<1>4. ASSUME NEW v \in Session, CancelDirect(v) \/ CancelQuietly(v)
      PROVE  NotifyInv'
  <2>1. FlagsGrow /\ Session' = Session
    BY <1>1, <1>4, DirectFlags
  <2>2. \A s \in Session : Listed(s)' <=> Listed(s)
    BY <1>4, OneFlag
  <2> QED
    BY <1>2, <2>1, <2>2, FlagsStay
<1>5. ASSUME NEW u \in Universe, NEW dead, CancelAndDrop(u, dead)
      PROVE  NotifyInv'
  <2>1. /\ FlagsGrow /\ Session' = Session
        /\ \A s \in Session : Listed(s) => Listed(s)' \/ sessions'[s].notified
    BY <1>1, <1>5, DroppedFlags
  <2> QED
    BY <1>2, <2>1, FlagsStay
<1>6. ASSUME NEW u, NEW v \in Session, UNCHANGED sessions, active' = [active EXCEPT ![u] = @ \ {v}],
             ~Preparing(v)' \/ ~Listed(v)
      PROVE  NotifyInv'
  <2>1. Session' = Session /\ FlagsGrow
    BY <1>6 DEF Session, FlagsGrow, Cancelled
  <2>2. ASSUME NEW s \in Session, s # v, Listed(s)
        PROVE  Listed(s)'
    BY <1>1, <1>6, <2>2 DEF Listed, TypeOK
  <2> QED
    BY <1>2, <1>6, <2>1, <2>2, FlagsStay
<1>7. CASE Passes(t, q) \/ Carries(t, q) \/ Notifies(t, q) \/ HandsToRunner(t, q) \/ HandsToLoader(t, q)
           \/ TakesUp(t, q) \/ GivesUp(t, q) \/ RunsLate(t, q)
  BY <1>3, <1>7 DEF Passes, Carries, Notifies, HandsToRunner, HandsToLoader, TakesUp, GivesUp, RunsLate, owned
<1>8. CASE Unwinds(t, q) \/ StartsOver(t, q)
  <2>1. thread[t].pc \in OnSession
    BY <1>8 DEF Unwinds, StartsOver, SameWork, OnSession
  <2>2. PICK v \in Session : v = thread[t].session
    BY <1>1, <2>1, HeldAreSessions
  <2> QED
    BY <1>4, <1>8, <2>2 DEF Unwinds, StartsOver
<1>9. CASE TearsDown(t, q)
  <2>1. /\ thread[t].pc = "abort" /\ q.pc \notin Working /\ loading' = loading
        /\ thread[t].pc \in Working
    BY <1>9 DEF TearsDown, Leaves, Working
  <2>2. PICK v \in Session : v = thread[t].session
    BY <1>1, <2>1, HeldAreSessions DEF OnSession
  <2>3. ~Preparing(v)'
    BY <1>1, <2>1, <2>2, SoleOwner, SharesAfter
  <2> QED
    BY <1>6, <1>9, <2>2, <2>3 DEF TearsDown
<1>10. CASE Completes(t, q)
  <2>1. PICK v \in Session : (UNCHANGED sessions \/ CancelDirect(v)) /\ UNCHANGED active
    BY <1>10 DEF Completes
  <2> QED
    BY <1>3, <1>4, <2>1
<1>11. CASE Clears(t, q)
  <2>1. thread[t].pc \in Finishing
    BY <1>11 DEF Clears
  <2>2. PICK v \in Session : v = thread[t].session
    BY <1>1, <2>1, HeldAreSessions DEF OnSession
  <2>3. ~Preparing(v) \/ ~Listed(v)
    BY <2>1, <2>2, Numbers DEF FinishingHasEnded, Safe, InOrder
  <2> QED
    BY <1>2, <1>6, <1>11, <2>2, <2>3 DEF Clears, ClearSession
<1>12. CASE Drops(t, q)
  BY <1>5, <1>12 DEF Drops
<1> QED
  BY <1>7, <1>8, <1>9, <1>10, <1>11, <1>12 DEF Effect

\* What the registration of session n in the place of dead leaves of the flags.
Adopts(n, dead) ==
  /\ FlagsGrow
  /\ sessions'[n].notified = FALSE /\ sessions'[n].cancelled = FALSE /\ Listed(n)'
  /\ Session' = Session \cup {n} /\ n \notin Session
  /\ \A s \in Session :
       /\ s \in dead => sessions'[s].notified /\ Cancelled(s)'
       /\ s \notin dead =>
            /\ Listed(s)' <=> Listed(s)
            /\ Cancelled(s)' <=> Cancelled(s)
            /\ sessions'[s].notified <=> sessions[s].notified

\* So does the registration of a session: it is listed, and what it replaces is
\* notified.
LEMMA RegisteredFlags ==
  ASSUME TypeOK, NEW u \in Universe, NEW a \in Animation, NEW reason \in Reason,
         NEW entire \in BOOLEAN, RegisterSession(u, a, reason, entire), NEW n, n = Len(sessions) + 1
  PROVE  Adopts(n, Adopted(u, a, entire))
<1> DEFINE dead == Adopted(u, a, entire)
<1>1. /\ Session' = Session \cup {n} /\ n \notin Session
      /\ sessions'[n] = [universe |-> u, reason |-> reason, drives |-> Drives[a],
                         cancelled |-> FALSE, notified |-> FALSE]
      /\ \A s \in Session :
           /\ sessions'[s].universe = sessions[s].universe
           /\ sessions'[s].cancelled = (s \in dead \/ sessions[s].cancelled)
      /\ active' = [active EXCEPT ![u] = (@ \ dead) \cup {n}]
  BY RegisterProperties
<1>2. ASSUME NEW s \in Session
      PROVE  sessions'[s].notified = (s \in dead \/ sessions[s].notified)
  <2>1. CancelLocked(dead) \in Seq(SessionRecord) /\ Len(CancelLocked(dead)) = Len(sessions)
    BY CancelLockedProperties DEF TypeOK
  <2>2. PICK old : old = CancelLocked(dead)
    OBVIOUS
  <2>3. PICK new : sessions' = Append(old, new)
    BY <2>2 DEF RegisterSession
  <2>4. s \in 1 .. Len(old)
    BY <2>1, <2>2 DEF Session
  <2>5. Append(old, new)[s] = old[s]
    BY <2>1, <2>2, <2>4
  <2> QED
    BY <2>2, <2>3, <2>5, LockedFlags
<1>3. \A s \in Session : sessions[s].universe \in Universe
  <2> SUFFICES ASSUME NEW s \in Session
               PROVE  sessions[s].universe \in Universe
    OBVIOUS
  <2>1. sessions[s] \in SessionRecord
    BY ElementOfSeq DEF TypeOK, Session
  <2> QED
    BY <2>1 DEF SessionRecord
<1>4. Listed(n)'
  <2>1. sessions'[n].universe = u
    BY <1>1
  <2> QED
    BY <1>1, <2>1 DEF TypeOK, Listed
<1> HIDE DEF dead
<1>5. ASSUME NEW s \in Session, s \notin dead
      PROVE  Listed(s)' <=> Listed(s)
  BY <1>1, <1>3, <1>5 DEF TypeOK, Listed
<1>6. sessions'[n].notified = FALSE /\ sessions'[n].cancelled = FALSE
  BY <1>1
<1>7. FlagsGrow
  BY <1>1, <1>2 DEF FlagsGrow, Cancelled
<1>8. ASSUME NEW s \in Session
      PROVE  /\ s \in dead => sessions'[s].notified /\ Cancelled(s)'
             /\ s \notin dead => /\ Cancelled(s)' <=> Cancelled(s)
                                 /\ sessions'[s].notified <=> sessions[s].notified
  BY <1>1, <1>2 DEF Cancelled
<1> QED
  BY <1>1, <1>4, <1>5, <1>6, <1>7, <1>8 DEF dead, Adopts

LEMMA RegistrationNotifies ==
  ASSUME Owned, NotifyInv, NEW t \in Thread, NEW q \in ThreadRecord, Moves(t, q), Registers(t, q)
  PROVE  NotifyInv'
<1>1. TypeOK /\ ThreadsTyped /\ Len(sessions) \in Nat
  BY Numbers
<1>2. thread[t] \in ThreadRecord
  BY <1>1 DEF ThreadsTyped
<1>3. PICK u \in Universe, a \in Animation, reason \in Reason, entire \in BOOLEAN :
        RegisterSession(u, a, reason, entire)
  BY <1>2 DEF Registers, ThreadRecord
<1>4. PICK n : n = Len(sessions) + 1
  OBVIOUS
<1>5. /\ FlagsGrow
      /\ sessions'[n].notified = FALSE /\ sessions'[n].cancelled = FALSE /\ Listed(n)'
      /\ Session' = Session \cup {n} /\ n \notin Session
      /\ \A s \in Session :
           /\ s \in Adopted(u, a, entire) => sessions'[s].notified /\ Cancelled(s)'
           /\ s \notin Adopted(u, a, entire) => /\ Listed(s)' <=> Listed(s)
                                                /\ Cancelled(s)' <=> Cancelled(s)
                                                /\ sessions'[s].notified <=> sessions[s].notified
  <2>1. Adopts(n, Adopted(u, a, entire))
    BY <1>1, <1>3, <1>4, RegisteredFlags
  <2> QED
    BY <2>1 DEF Adopts
<1>6. PICK dead : dead = Adopted(u, a, entire)
  OBVIOUS
<1>7. ASSUME NEW s \in Session, Preparing(s)'
      PROVE  Preparing(s)
  <2>1. s \in loading' \/ (q.pc \in Working /\ q.session = s) \/ OtherWorks(t, s)
    BY <1>1, <1>7, SharesAfter
  <2> QED
    BY <1>4, <1>5, <2>1, SharesBefore DEF Registers
<1>8. ASSUME NEW s \in Session
      PROVE  /\ sessions'[s].notified => Cancelled(s)'
             /\ Preparing(s)' => Listed(s)' \/ sessions'[s].notified
  <2>1. /\ sessions'[s].notified => sessions[s].notified \/ Cancelled(s)'
        /\ sessions[s].notified => sessions'[s].notified
        /\ Cancelled(s) => Cancelled(s)'
    BY <1>5 DEF FlagsGrow
  <2>2. /\ s \in dead => sessions'[s].notified
        /\ s \notin dead => (Listed(s)' <=> Listed(s))
    BY <1>5, <1>6
  <2> QED
    BY <1>7, <2>1, <2>2 DEF NotifyInv
<1>9. sessions'[n].notified = FALSE /\ Listed(n)'
  BY <1>5
<1> QED
  BY <1>5, <1>8, <1>9 DEF NotifyInv

\* The invariant is inductive.
LEMMA NotifyInvStep ==
  ASSUME PlaybackInv, NotifyInv, [PlaybackNext]_playbackVars
  PROVE  NotifyInv'
<1>1. Owned /\ TypeOK /\ ThreadsTyped /\ loading \subseteq Session /\ workload \in Workloads
  BY Numbers DEF PlaybackInv, Books
<1>2. CASE PlaybackNext
  <2>1. Effective
    BY <1>1, <1>2, EveryStepHasAnEffect
  <2>2. PICK t \in Thread, q \in ThreadRecord : Moves(t, q) /\ Effect(t, q)
    BY <2>1 DEF Effective
  <2> QED
    BY <1>1, <2>2, FlagsStayRight, RegistrationNotifies
<1>3. CASE UNCHANGED playbackVars
  <2>1. UNCHANGED <<sessions, active, loading, thread>>
    BY <1>3 DEF playbackVars, smVars, eventVars
  <2> QED
    BY <2>1 DEF NotifyInv, Session, Cancelled, Listed, Preparing, Works
<1> QED
  BY <1>2, <1>3

-----------------------------------------------------------------------------
(* The inductive invariant behind SettlesRight.                            *)

IsLive(s) == Listed(s) /\ ~Cancelled(s)

\* Counters from the end of a session's life on its list to its last write.
Parting == {"queue", "interrupted?", "consume", "resumed", "chain", "after", "toIdle"}

\* Counters of the streaming handler and of the idle switch.
Switching == {"stream", "mark", "announce", "expired", "idle on", "idle off", "cancel idle"}

\* The session is over, and was one of universe u.
Over(s, u) == s \in Session /\ ~Listed(s) /\ sessions[s].universe = u

\* What a thread knows of the session whose creatures it is about to stop.
Aware(r) ==
  /\ r.pc \in {"abort", "unwound"} => r.session \in Session /\ sessions[r.session].notified
  /\ r.pc \in {"clearCancelled", "cancelledDone"} =>
       r.session \in finished \cap Session /\ Cancelled(r.session)
  /\ r.pc \in Parting => Over(r.session, r.universe)
  /\ r.ret = "onFinish" => r.pc \in Performing /\ Over(r.before, r.universe)
  /\ r.pc \in Switching => r.idles \subseteq switched

\* A thread that is going to write that session s has stopped.
Stops(r, s) ==
  \/ s \in r.victims
  \/ /\ r.session = s
     /\ \/ r.pc \in {"unwound", "onFinish", "finishCancelled", "clear"} \cup Parting
        \/ r.pc = "abort" /\ Listed(s)
        \/ r.pc \in {"clearCancelled", "cancelledDone"} /\ ~sessions[s].notified
  \/ r.before = s /\ r.ret = "onFinish"

\* Why session s, which is not live, may be the activity of a creature.
Owing(s) == s \in unstopped \/ CancelledUnseen(s) \/ \E t \in Thread : Stops(thread[t], s)

\* The running broadcast of session s is still to come.
Starting(s) == \E t \in Thread : thread[t].pc = "running" /\ thread[t].session = s

\* The sessions that drive a creature.
DrivenBy(c) == {s \in Session : c \in sessions[s].drives}

\* The running broadcast of what drives the creature has been made, or is to come.
Reached(c) == \A s \in DrivenBy(c) : s <= activity[c].generation \/ Starting(s)

ActivityRight(c) ==
  LET a == activity[c]
  IN  /\ Reached(c)
      /\ a.session \in {0, a.generation}
      /\ a.generation \in {0} \cup DrivenBy(c)
      /\ \A s \in DrivenBy(c) : IsLive(s) =>
           /\ \A r \in DrivenBy(c) : r <= s
           /\ a.session = s \/ Starting(s)
      /\ a.session # 0 =>
           \/ IsLive(a.session) \/ Owing(a.session)
           \/ \E s \in DrivenBy(c) : s > a.session /\ Starting(s)

\* A session that is finished and still listed is about to be cleared.
ClearsFinished ==
  \A s \in Session :
    s \in finished /\ Listed(s) => \E t \in Thread : thread[t].pc \in Finishing /\ thread[t].session = s

\* A thread that has interrupted the playlist of universe u, and is about to
\* register the session that does so or to undo the mark.
Marking(r, u) ==
  /\ r.universe = u
  /\ \/ r.pc = "undo"
     \/ r.ret = "interrupt" /\ r.pc \in {"schedule", "register"}

\* A thread that is about to decide whether an interrupted playlist resumes.
Deciding(r, s) == r.session = s /\ r.pc \in {"queue", "interrupted?", "consume"}

\* Who will decide on an interrupted playlist, or why nobody will.
Awaited(u) ==
  \/ \E t \in Thread : Marking(thread[t], u)
  \/ \E s \in Session :
       /\ LastSession(u, s)
       /\ Listed(s) \/ Cancelled(s) \/ s \in relayed \/ \E t \in Thread : Deciding(thread[t], s)

AwaitInv == \A u \in Universe : playlistState[u] = "Interrupted" => Awaited(u)

ActivityTyped == activity \in [Creature -> [session : Nat, generation : Nat]]

SettleInv ==
  /\ ActivityTyped /\ streaming \subseteq switched /\ ClearsFinished /\ AwaitInv
  /\ \A t \in Thread : Aware(thread[t])
  /\ \A c \in Creature \ switched : StaysHome(c) => ActivityRight(c)

-----------------------------------------------------------------------------
(* What the effects of a step leave of a session.                          *)

SameFlags(s) ==
  /\ Cancelled(s)' <=> Cancelled(s)
  /\ sessions'[s].notified <=> sessions[s].notified

SameListing(s) == Listed(s)' <=> Listed(s)

\* What becomes of session s when thread t goes on with record q.
Fate(t, q, s) ==
  \/ SameFlags(s) /\ SameListing(s)
  \/ s \in q.victims /\ ~Cancelled(s) /\ Cancelled(s)'
  \/ /\ s = thread[t].session
     /\ \/ Unwinds(t, q) /\ SameListing(s)
        \/ /\ StartsOver(t, q) /\ SameListing(s)
           /\ sessions'[s].notified <=> sessions[s].notified
        \/ (TearsDown(t, q) \/ Clears(t, q)) /\ SameFlags(s)
  \/ /\ Completes(t, q) /\ s = q.session /\ SameListing(s)
     /\ sessions'[s].notified <=> sessions[s].notified

LEMMA EffectFates ==
  ASSUME Owned, NEW t \in Thread, NEW q \in ThreadRecord, Moves(t, q), Effect(t, q)
  PROVE  /\ FlagsGrow /\ Session \subseteq Session'
         /\ \A s \in Session : Fate(t, q, s)
<1>1. TypeOK /\ ThreadsTyped
  BY Numbers
<1>2. CASE UNCHANGED <<sessions, active>>
  <2>1. FlagsGrow /\ Session' = Session
    BY <1>2 DEF Session, FlagsGrow, Cancelled
  <2>2. \A s \in Session : SameFlags(s) /\ SameListing(s)
    BY <1>2 DEF SameFlags, SameListing, Cancelled, Listed
  <2> QED
    BY <2>1, <2>2 DEF Fate
<1>3. ASSUME NEW v \in Session, CancelDirect(v) \/ CancelQuietly(v)
      PROVE  /\ FlagsGrow /\ Session' = Session
             /\ \A s \in Session : SameListing(s)
             /\ \A s \in Session \ {v} : SameFlags(s)
             /\ CancelDirect(v) => (sessions'[v].notified <=> sessions[v].notified)
  <2>1. /\ FlagsGrow /\ Session' = Session
        /\ \A s \in Session : s # v => sessions'[s] = sessions[s]
        /\ CancelDirect(v) => (sessions'[v].notified <=> sessions[v].notified)
    BY <1>1, <1>3, DirectFlags
  <2>2. \A s \in Session : SameListing(s)
    BY <1>3, OneFlag DEF SameListing
  <2>3. \A s \in Session \ {v} : SameFlags(s)
    BY <2>1 DEF SameFlags, Cancelled
  <2> QED
    BY <2>1, <2>2, <2>3
<1>4. ASSUME NEW u, NEW v \in Session, UNCHANGED sessions, active' = [active EXCEPT ![u] = @ \ {v}]
      PROVE  /\ FlagsGrow /\ Session' = Session /\ \A s \in Session : SameFlags(s)
             /\ \A s \in Session \ {v} : SameListing(s)
  <2>1. FlagsGrow /\ Session' = Session /\ \A s \in Session : SameFlags(s)
    BY <1>4 DEF Session, FlagsGrow, Cancelled, SameFlags
  <2>2. ASSUME NEW s \in Session \ {v}
        PROVE  SameListing(s)
    BY <1>1, <1>4 DEF SameListing, Listed, TypeOK
  <2> QED
    BY <2>1, <2>2
<1>5. CASE Passes(t, q) \/ Carries(t, q) \/ Notifies(t, q) \/ HandsToRunner(t, q) \/ HandsToLoader(t, q)
           \/ TakesUp(t, q) \/ GivesUp(t, q) \/ RunsLate(t, q)
  BY <1>2, <1>5 DEF Passes, Carries, Notifies, HandsToRunner, HandsToLoader, TakesUp, GivesUp, RunsLate, owned
<1>6. CASE Unwinds(t, q) \/ StartsOver(t, q)
  <2>1. thread[t].pc \in OnSession
    BY <1>6 DEF Unwinds, StartsOver, SameWork, OnSession
  <2>2. PICK v \in Session : v = thread[t].session
    BY <1>1, <2>1, HeldAreSessions
  <2>3. CancelDirect(v) \/ CancelQuietly(v)
    BY <1>6, <2>2 DEF Unwinds, StartsOver
  <2>4. StartsOver(t, q) => CancelDirect(v)
    BY <2>2 DEF StartsOver
  <2> QED
    BY <1>3, <1>6, <2>2, <2>3, <2>4 DEF Fate
<1>7. CASE TearsDown(t, q) \/ Clears(t, q)
  <2>1. thread[t].pc \in OnSession
    BY <1>7 DEF TearsDown, Clears, OnSession, Working
  <2>2. PICK v \in Session : v = thread[t].session
    BY <1>1, <2>1, HeldAreSessions
  <2>3. UNCHANGED sessions /\ active' = [active EXCEPT ![thread[t].universe] = @ \ {v}]
    BY <1>7, <2>2 DEF TearsDown, Clears, ClearSession
  <2> QED
    BY <1>4, <1>7, <2>2, <2>3 DEF Fate
<1>8. CASE Completes(t, q)
  <2>1. PICK v \in Session : (UNCHANGED sessions \/ CancelDirect(v)) /\ UNCHANGED active /\ q.session = v
    BY <1>8 DEF Completes
  <2>2. CASE CancelDirect(v)
    BY <1>3, <1>8, <2>1, <2>2 DEF Fate
  <2> QED
    BY <1>2, <2>1, <2>2
<1>9. CASE Drops(t, q)
  <2>1. PICK u \in Universe : CancelAndDrop(u, q.victims) /\ q.victims \subseteq Live(u)
    BY <1>9 DEF Drops
  <2>2. /\ FlagsGrow /\ Session' = Session
        /\ \A s \in Session : s \notin q.victims => SameFlags(s) /\ SameListing(s)
        /\ \A s \in Session : s \in q.victims => Cancelled(s)'
    BY <1>1, <2>1, DroppedFlags DEF SameFlags, SameListing
  <2>3. \A s \in q.victims : ~Cancelled(s)
    BY <2>1 DEF Live
  <2> QED
    BY <2>2, <2>3 DEF Fate
<1>10. CASE Registers(t, q)
  <2>1. thread[t] \in ThreadRecord
    BY <1>1 DEF ThreadsTyped
  <2>2. PICK u \in Universe, a \in Animation, reason \in Reason, entire \in BOOLEAN :
          RegisterSession(u, a, reason, entire) /\ q.victims = Adopted(u, a, entire)
    BY <1>10, <2>1 DEF Registers, ThreadRecord
  <2>3. PICK n : n = Len(sessions) + 1
    OBVIOUS
  <2>7. RegisterSession(u, a, reason, entire) /\ TypeOK
    BY <1>1, <2>2
  <2>4. /\ FlagsGrow
        /\ sessions'[n].notified = FALSE /\ sessions'[n].cancelled = FALSE /\ Listed(n)'
        /\ Session' = Session \cup {n} /\ n \notin Session
        /\ \A s \in Session :
             /\ s \in Adopted(u, a, entire) => sessions'[s].notified /\ Cancelled(s)'
             /\ s \notin Adopted(u, a, entire) => /\ Listed(s)' <=> Listed(s)
                                                  /\ Cancelled(s)' <=> Cancelled(s)
                                                  /\ sessions'[s].notified <=> sessions[s].notified
    <3>1. Adopts(n, Adopted(u, a, entire))
      BY <2>7, <2>3, RegisteredFlags
    <3> QED
      BY <3>1 DEF Adopts
  <2>6. \A s \in Session : /\ s \notin q.victims => SameFlags(s) /\ SameListing(s)
                           /\ s \in q.victims => Cancelled(s)'
    BY <2>2, <2>4 DEF SameFlags, SameListing, Cancelled
  <2>5. \A s \in q.victims : ~Cancelled(s)
    BY <2>2 DEF Adopted, Live
  <2> QED
    BY <2>4, <2>5, <2>6 DEF Fate
<1> QED
  BY <1>5, <1>6, <1>7, <1>8, <1>9, <1>10 DEF Effect

\* What the argument rests on.
Base == PlaybackInv /\ GoOnInv /\ NotifyInv /\ SettleInv

\* The session that thread o has played to its end leaves its list.
Cleared(o, s) ==
  /\ thread[o].pc \in Finishing /\ thread[o].session = s /\ thread'[o] # thread[o]
  /\ ~Cancelled(s) /\ Listed(s) /\ ~Listed(s)'

\* What every step leaves behind.
Onward ==
  /\ Session \subseteq Session'
  /\ relayed \subseteq relayed' /\ unstopped \subseteq unstopped' /\ switched \subseteq switched'
  /\ \A s \in Session :
       /\ sessions'[s].universe = sessions[s].universe
       /\ sessions'[s].drives = sessions[s].drives
       /\ Listed(s)' => Listed(s)
       /\ Cancelled(s) => Cancelled(s)'
       /\ sessions[s].notified => sessions'[s].notified
       /\ s \in finished => s \in finished'
       /\ \A o \in Thread : thread'[o] = thread[o] /\ Stops(thread[o], s) => Stops(thread[o], s)'
       /\ IsLive(s) \/ CancelledUnseen(s) =>
            \/ IsLive(s)' \/ CancelledUnseen(s)' \/ \E o \in Thread : Stops(thread[o], s)'
            \/ \E o \in Thread : Cleared(o, s)
       /\ Listed(s) => Listed(s)' \/ Cancelled(s)' \/ \E o \in Thread : Cleared(o, s)
       /\ s \in finished' /\ Listed(s) =>
            \E o \in Thread : \/ thread[o].pc \in Finishing /\ thread[o].session = s
                              \/ thread'[o].pc \in Finishing /\ thread'[o].session = s

\* A thread that does not move is still going to write what it was.
LEMMA StopsStay ==
  ASSUME Base, NEW t \in Thread, NEW q \in ThreadRecord, Moves(t, q), Effect(t, q),
         NEW o \in Thread, thread'[o] = thread[o], NEW s \in Session, Stops(thread[o], s)
  PROVE  Stops(thread[o], s)'
<1>1. /\ Owned /\ NotifyInv /\ Proper(o) /\ Aware(thread[o]) /\ ThreadsTyped
      /\ OneOwner /\ FinishingHasEnded /\ Safe(s) /\ ended[s] \in Nat
  BY Numbers DEF Base, PlaybackInv, GoOnInv, SettleInv
<1>2. FlagsGrow /\ Fate(t, q, s) /\ thread'[t] = q
  BY <1>1, EffectFates, MovedThread
<1>3. ASSUME thread[o].pc = "abort", thread[o].session = s, Listed(s)
      PROVE  Listed(s)'
  <2>1. Cancelled(s) /\ Works(o, s) /\ Preparing(s)
    BY <1>1, <1>3 DEF Proper, Works, Working, Preparing
  <2>2. ended[s] = 0
    BY <1>1, <1>3, <2>1 DEF Safe, InOrder
  <2>3. ASSUME TearsDown(t, q), s = thread[t].session
        PROVE  FALSE
    <3>1. Works(t, s) /\ q.pc \notin Working
      BY <2>3 DEF TearsDown, Leaves, Works
    <3>2. o = t
      BY <1>1, <2>1, <3>1 DEF OneOwner, Works
    <3> QED
      BY <1>2, <2>1, <3>1, <3>2 DEF Works
  <2>4. ASSUME Clears(t, q), s = thread[t].session
        PROVE  FALSE
    BY <1>1, <2>2, <2>4 DEF Clears, FinishingHasEnded
  <2> QED
    BY <1>2, <1>3, <2>1, <2>3, <2>4 DEF Fate, SameListing
<1>4. ASSUME thread[o].pc \in {"clearCancelled", "cancelledDone"}, thread[o].session = s,
             ~sessions[s].notified
      PROVE  ~sessions'[s].notified
  <2>1. Cancelled(s) /\ s \in finished
    BY <1>1, <1>4 DEF Aware
  <2>2. ASSUME Unwinds(t, q), s = thread[t].session
        PROVE  FALSE
    <3>1. Preparing(s)
      BY <2>2 DEF Unwinds, SameWork, Preparing, Works
    <3>2. Listed(s)
      BY <1>1, <1>4, <3>1 DEF NotifyInv
    <3> QED
      BY <1>1, <2>1, <3>1, <3>2 DEF Safe, InOrder, EndsAgree
  <2> QED
    BY <1>2, <1>4, <2>1, <2>2 DEF Fate, SameFlags
<1> QED
  BY <1>1, <1>3, <1>4 DEF Stops

\* A live session, or one cancelled unseen, is that again, or somebody is going to
\* write that it has stopped, unless it leaves its list because it has ended.
LEMMA LiveHandsOver ==
  ASSUME Base, NEW t \in Thread, NEW q \in ThreadRecord, Moves(t, q), Effect(t, q),
         NEW s \in Session, IsLive(s) \/ CancelledUnseen(s)
  PROVE  \/ IsLive(s)' \/ CancelledUnseen(s)' \/ \E o \in Thread : Stops(thread[o], s)'
         \/ \E o \in Thread : Cleared(o, s)
<1>1. /\ Owned /\ NotifyInv /\ ThreadsTyped /\ ClearsFinished
      /\ \A o \in Thread : Proper(o) /\ Aware(thread[o])
  BY Numbers DEF Base, PlaybackInv, GoOnInv, SettleInv
<1>2. FlagsGrow /\ Fate(t, q, s) /\ thread'[t] = q /\ \A o \in Thread \ {t} : thread'[o] = thread[o]
  BY <1>1, EffectFates, MovedThread
<1>3. \/ Completes(t, q) /\ s = q.session
      \/ s \in finished' <=> s \in finished
  BY DEF Effect, Passes, Carries, Registers, Notifies, HandsToRunner, HandsToLoader, TakesUp, GivesUp,
         Unwinds, TearsDown, RunsLate, Completes, Claim, Clears, Drops, StartsOver, owned
<1>4. ~sessions[s].notified
  BY <1>1 DEF NotifyInv, CancelledUnseen, IsLive
<1>5. CASE SameFlags(s) /\ SameListing(s)
  <2>1. CASE s \in finished' <=> s \in finished
    BY <1>5, <2>1 DEF SameFlags, SameListing, IsLive, CancelledUnseen
  <2>2. CASE Completes(t, q) /\ s = q.session
    <3>1. q.pc \in Finishing
      BY <2>2 DEF Completes
    <3>2. Stops(thread[t], s)'
      BY <1>2, <1>4, <1>5, <2>2, <3>1 DEF Stops, Finishing, SameFlags
    <3> QED
      BY <3>2
  <2> QED
    BY <1>3, <2>1, <2>2
<1>6. CASE s \in q.victims
  <2>1. Stops(thread[t], s)'
    BY <1>2, <1>6 DEF Stops
  <2> QED
    BY <2>1
<1>7. CASE s = thread[t].session /\ Unwinds(t, q) /\ SameListing(s)
  <2>1. Preparing(s) /\ q.pc = "abort" /\ q.session = s
    BY <1>7 DEF Unwinds, SameWork, Preparing, Works
  <2>2. Listed(s)'
    BY <1>1, <1>4, <1>7, <2>1 DEF NotifyInv, SameListing
  <2>3. Stops(thread[t], s)'
    BY <1>2, <2>1, <2>2 DEF Stops
  <2> QED
    BY <2>3
<1>8. CASE /\ s = thread[t].session /\ StartsOver(t, q) /\ SameListing(s)
           /\ sessions'[s].notified <=> sessions[s].notified
  <2>1. finished' = finished /\ thread[t].pc = "cancel"
    BY <1>8 DEF StartsOver
  <2>2. CASE s \notin finished
    <3>1. Cancelled(s)'
      <4>1. CancelDirect(s)
        BY <1>8 DEF StartsOver
      <4> QED
        BY <1>1, <4>1, DirectFlags, Numbers
    <3> QED
      BY <1>4, <1>8, <2>1, <2>2, <3>1 DEF CancelledUnseen
  <2>3. CASE s \in finished
    <3>1. Listed(s)
      BY <2>3 DEF CancelledUnseen, IsLive
    <3>2. PICK o \in Thread : thread[o].pc \in Finishing /\ thread[o].session = s
      BY <1>1, <2>3, <3>1 DEF ClearsFinished
    <3>3. Stops(thread[o], s) /\ o # t
      BY <1>4, <2>1, <3>2 DEF Stops, Finishing
    <3>4. thread'[o] = thread[o]
      BY <1>2, <3>3
    <3> QED
      BY <3>3, <3>4, StopsStay
  <2> QED
    BY <2>2, <2>3
<1>9. CASE s = thread[t].session /\ TearsDown(t, q)
  BY <1>1, <1>4, <1>9 DEF TearsDown, Aware
<1>10. CASE s = thread[t].session /\ Clears(t, q) /\ SameFlags(s)
  <2>1. thread[t].pc \in Finishing /\ finished' = finished /\ thread'[t] # thread[t]
    BY <1>2, <1>10 DEF Clears
  <2>2. s \in finished
    BY <1>1, <1>10, <2>1 DEF Proper
  <2>3. CASE Listed(s)'
    BY <1>10, <2>2, <2>3 DEF IsLive, CancelledUnseen, SameFlags
  <2>4. CASE ~Listed(s)'
    BY <1>10, <2>1, <2>2, <2>4 DEF IsLive, CancelledUnseen, Cleared
  <2> QED
    BY <2>3, <2>4
<1>11. CASE /\ Completes(t, q) /\ s = q.session /\ SameListing(s)
            /\ sessions'[s].notified <=> sessions[s].notified
  <2>1. q.pc \in Finishing
    BY <1>11 DEF Completes
  <2>2. Stops(thread[t], s)'
    BY <1>2, <1>4, <1>11, <2>1 DEF Stops, Finishing
  <2> QED
    BY <2>2
<1> QED
  BY <1>2, <1>5, <1>6, <1>7, <1>8, <1>9, <1>10, <1>11 DEF Fate

\* What is recorded of the past stays recorded.
LEMMA PastGrows ==
  ASSUME [PlaybackNext]_playbackVars
  PROVE  relayed \subseteq relayed' /\ unstopped \subseteq unstopped' /\ switched \subseteq switched'
<1>1. ASSUME NEW t \in Thread, ScheduleStep(t)
      PROVE  relayed' = relayed /\ unstopped \subseteq unstopped' /\ switched' = switched
  BY <1>1 DEF ScheduleStep, ScheduleConflict, ScheduleNoSlot, ScheduleBroken, ScheduleAdmitted, ScheduleRegister,
       NotifyVictim, ScheduleRunning, ScheduleStart, ScheduleSubmit, ScheduleSubmitRejected, Unwind,
       UnwindAbort, UnwindReplaced, Unwound, StartIdle, IdleDone, PlaylistClear, PlaylistRetry,
       PushPlaylistEvent, eventVars, chainVars, pastVars
<1>2. ASSUME NEW t \in Thread, LoaderStep(t)
      PROVE  relayed' = relayed /\ unstopped' = unstopped /\ switched' = switched
  BY <1>2 DEF LoaderStep, LoaderTake, LoaderLoaded, LoaderPublish, LoaderFail, eventVars, chainVars, pastVars
<1>3. ASSUME LoopStep
      PROVE  relayed \subseteq relayed' /\ unstopped \subseteq unstopped' /\ switched' = switched
  BY <1>3 DEF LoopStep, RunnerStep, RunnerLate, RunnerCancelled, RunnerFinished, RunnerFailed,
       ClearCancelled, CancelledDone, OnFinish, FinishCancelled, FinishClear, FinishQueued,
       FinishNothingQueued, FinishInterrupted, FinishConsume, FinishResumed, FinishChain, RunnerAfter,
       RunnerToIdle, TakePlaylistEvent, PlaylistBusy, PlaylistChoose, PlaylistUnreadable,
       PlaylistBackstop, PlaylistUpdateStatus, StreamExpires, StreamStopped,
       PushPlaylistEvent, eventVars, chainVars, pastVars
<1>4. ASSUME NEW t \in Thread, RequestStep(t)
      PROVE  relayed' = relayed /\ unstopped' = unstopped /\ switched \subseteq switched'
  BY <1>4 DEF RequestStep, RequestPlay, RequestInterrupt, RequestInterruptIdle, RequestQueue, RequestStart,
       RequestStop, Stop, RequestStream, RequestSetIdle, InterruptFailed, StartCancels, StartStarts,
       StartStatus, StreamStopsPlaylist, StreamMarks, StreamAnnounces, SetIdleCancels, SetIdleState,
       eventVars, chainVars, pastVars
<1>5. CASE UNCHANGED playbackVars
  BY <1>5 DEF playbackVars, eventVars, chainVars, pastVars
<1> QED
  BY <1>1, <1>2, <1>3, <1>4, <1>5 DEF PlaybackNext, Thread

\* What a registration leaves of the older sessions.
LEMMA RegisteredViews ==
  ASSUME TypeOK, NEW u \in Universe, NEW a \in Animation, NEW reason \in Reason,
         NEW entire \in BOOLEAN, RegisterSession(u, a, reason, entire)
  PROVE  \A s \in Session : /\ sessions'[s].universe = sessions[s].universe
                            /\ sessions'[s].drives = sessions[s].drives
                            /\ Listed(s)' => Listed(s)
<1> DEFINE dead == Adopted(u, a, entire)
<1>n. PICK n : n = Len(sessions) + 1
  OBVIOUS
<1>1. /\ Session' = Session \cup {n} /\ n \notin Session
      /\ sessions'[n] = [universe |-> u, reason |-> reason, drives |-> Drives[a],
                         cancelled |-> FALSE, notified |-> FALSE]
      /\ \A s \in Session :
           /\ sessions'[s].universe = sessions[s].universe
           /\ sessions'[s].drives = sessions[s].drives
      /\ active' = [active EXCEPT ![u] = (@ \ dead) \cup {n}]
  BY <1>n, RegisterProperties
<1>2. ASSUME NEW s \in Session
      PROVE  sessions[s].universe \in Universe
  <2>1. sessions[s] \in SessionRecord
    BY ElementOfSeq DEF TypeOK, Session
  <2> QED
    BY <2>1 DEF SessionRecord
<1> HIDE DEF dead
<1>3. ASSUME NEW s \in Session, Listed(s)'
      PROVE  Listed(s)
  <2>1. PICK v \in Universe : v = sessions[s].universe
    BY <1>2
  <2>2. sessions'[s].universe = v
    BY <1>1, <2>1
  <2>3. s \in active'[v] /\ s # n
    BY <1>1, <1>3, <2>2 DEF Listed
  <2>4. s \in active[v]
    BY <1>1, <2>3 DEF TypeOK
  <2> QED
    BY <2>1, <2>4 DEF Listed
<1> QED
  BY <1>1, <1>3

\* Nothing returns to a list.
LEMMA NoneReturns ==
  ASSUME Owned, [Next]_smVars
  PROVE  \A s \in Session : /\ sessions'[s].universe = sessions[s].universe
                            /\ sessions'[s].drives = sessions[s].drives
                            /\ Listed(s)' => Listed(s)
<1>1. TypeOK
  BY Numbers
<1>2. ASSUME NEW s \in Session
      PROVE  sessions[s].universe \in Universe
  <2>1. sessions[s] \in SessionRecord
    BY <1>1, ElementOfSeq DEF TypeOK, Session
  <2> QED
    BY <2>1 DEF SessionRecord
<1>3. ASSUME NEW u \in Universe, NEW a \in Animation, NEW reason \in Reason,
             NEW entire \in BOOLEAN, RegisterSession(u, a, reason, entire)
      PROVE  \A s \in Session : /\ sessions'[s].universe = sessions[s].universe
                                /\ sessions'[s].drives = sessions[s].drives
                                /\ Listed(s)' => Listed(s)
  BY <1>1, <1>3, RegisteredViews
<1>4. ASSUME Keeps, \A v \in Universe : active'[v] \subseteq active[v]
      PROVE  \A s \in Session : /\ sessions'[s].universe = sessions[s].universe
                                /\ sessions'[s].drives = sessions[s].drives
                                /\ Listed(s)' => Listed(s)
  BY <1>2, <1>4 DEF Keeps, Listed
<1> QED
  BY <1>1, <1>3, <1>4, OnlyRegisterAdds

LEMMA OnwardStep ==
  ASSUME Base, PlaybackNext
  PROVE  Onward
<1>1. /\ Owned /\ TypeOK /\ ThreadsTyped /\ loading \subseteq Session /\ workload \in Workloads
      /\ ClearsFinished /\ \A o \in Thread : Proper(o)
  BY Numbers DEF Base, PlaybackInv, Books, GoOnInv, SettleInv
<1>2. [Next]_smVars /\ Effective
  BY <1>1, EveryStepHasAnEffect DEF Effective
<1>3. PICK t \in Thread, q \in ThreadRecord : Moves(t, q) /\ Effect(t, q)
  BY <1>2 DEF Effective
<1>4. Session \subseteq Session'
  BY <1>1, <1>2, SessionsOnlyGrow
<1>5. relayed \subseteq relayed' /\ unstopped \subseteq unstopped' /\ switched \subseteq switched'
  BY PastGrows
<1>6. ASSUME NEW s \in Session
      PROVE  /\ sessions'[s].universe = sessions[s].universe
             /\ sessions'[s].drives = sessions[s].drives
             /\ Listed(s)' => Listed(s)
  BY <1>1, <1>2, NoneReturns
<1>7. FlagsGrow /\ \A s \in Session : Fate(t, q, s)
  BY <1>1, <1>3, EffectFates
<1>8. ASSUME NEW s \in Session
      PROVE  /\ Cancelled(s) => Cancelled(s)'
             /\ sessions[s].notified => sessions'[s].notified
  BY <1>7 DEF FlagsGrow
<1>9. ASSUME NEW s \in Session
      PROVE  /\ s \in finished => s \in finished'
             /\ s \in finished' => s \in finished \/ (q.pc \in Finishing /\ q.session = s)
  BY <1>3 DEF Effect, Passes, Carries, Registers, Notifies, HandsToRunner, HandsToLoader, TakesUp, GivesUp,
         Unwinds, TearsDown, RunsLate, Completes, Claim, Clears, Drops, StartsOver, owned
<1>10. ASSUME NEW s \in Session, NEW o \in Thread, thread'[o] = thread[o], Stops(thread[o], s)
       PROVE  Stops(thread[o], s)'
  BY <1>3, <1>10, StopsStay
<1>11. ASSUME NEW s \in Session, IsLive(s) \/ CancelledUnseen(s)
       PROVE  \/ IsLive(s)' \/ CancelledUnseen(s)' \/ \E o \in Thread : Stops(thread[o], s)'
              \/ \E o \in Thread : Cleared(o, s)
  BY <1>3, <1>11, LiveHandsOver
<1>12. ASSUME NEW s \in Session, Listed(s)
       PROVE  Listed(s)' \/ Cancelled(s)' \/ \E o \in Thread : Cleared(o, s)
  <2>1. CASE Cancelled(s)
    BY <1>8, <2>1
  <2>2. CASE ~Cancelled(s) /\ ~Listed(s)'
    <3>1. TearsDown(t, q) => Cancelled(thread[t].session)
      BY <1>1 DEF TearsDown, Proper
    <3>2. Clears(t, q) => thread[t].pc \in Finishing /\ thread'[t] # thread[t]
      BY <1>1, <1>3, MovedThread DEF Clears
    <3> QED
      BY <1>7, <1>12, <2>2, <3>1, <3>2 DEF Fate, SameListing, Cleared
  <2> QED
    BY <2>1, <2>2
<1>13. ASSUME NEW s \in Session, s \in finished', Listed(s)
       PROVE  \E o \in Thread : \/ thread[o].pc \in Finishing /\ thread[o].session = s
                                \/ thread'[o].pc \in Finishing /\ thread'[o].session = s
  <2>1. thread'[t] = q
    BY <1>1, <1>3, MovedThread
  <2> QED
    BY <1>1, <1>9, <1>13, <2>1 DEF ClearsFinished
<1> QED
  BY <1>4, <1>5, <1>6, <1>8, <1>9, <1>10, <1>11, <1>12, <1>13 DEF Onward

-----------------------------------------------------------------------------
(* What a step must be shown to do for the invariant, thread by thread.    *)

\* What thread t is going to stop it goes on to stop, but for the sessions of done.
Hands(t, done) ==
  \A s \in Session \ done : Stops(thread[t], s) => Stops(thread[t], s)' \/ s \in unstopped'

\* It still has its running broadcast to make.
StaysOn(t) ==
  thread[t].pc = "running" => thread'[t].pc = "running" /\ thread'[t].session = thread[t].session

\* It is still completing its session, or has taken it off its list.
Ends(t) ==
  \A s \in Session :
    thread[t].pc \in Finishing /\ thread[t].session = s =>
      \/ /\ thread'[t].pc \in {"finishCancelled", "clear"} /\ thread'[t].session = s
         /\ Listed(s) => Listed(s)'
      \/ ~Listed(s)' /\ (Cancelled(s) \/ Deciding(thread[t], s)')

\* No playlist waits for it in vain.
Attends(t) ==
  \A u \in Universe : playlistState'[u] = "Interrupted" =>
    \/ Awaited(u)'
    \/ /\ playlistState[u] = "Interrupted"
       /\ Marking(thread[t], u) => Marking(thread[t], u)'
       /\ \A s \in Session :
            LastSession(u, s) /\ Deciding(thread[t], s) => Deciding(thread[t], s)' \/ s \in relayed'

\* What every thread knows it still knows.
LEMMA AwareStays ==
  ASSUME Base, Onward, NEW t \in Thread, Beside(t), Aware(thread[t])', NEW o \in Thread
  PROVE  Aware(thread[o])'
<1>1. CASE o = t
  BY <1>1
<1>2. CASE o # t
  <2>1. thread'[o] = thread[o] /\ Aware(thread[o])
    BY <1>2 DEF Beside, Base, SettleInv
  <2>2. PICK r : r = thread[o]
    OBVIOUS
  <2>3. /\ r.pc \in {"abort", "unwound"} => r.session \in Session' /\ sessions'[r.session].notified
        /\ r.pc \in {"clearCancelled", "cancelledDone"} =>
             r.session \in (finished \cap Session)' /\ Cancelled(r.session)'
    BY <2>1, <2>2 DEF Aware, Onward
  <2>4. /\ r.pc \in Parting => Over(r.session, r.universe)'
        /\ r.ret = "onFinish" => r.pc \in Performing /\ Over(r.before, r.universe)'
    BY <2>1, <2>2 DEF Aware, Onward, Over
  <2>5. r.pc \in Switching => r.idles \subseteq switched'
    BY <2>1, <2>2 DEF Aware, Onward
  <2> QED
    BY <2>1, <2>2, <2>3, <2>4, <2>5 DEF Aware
<1> QED
  BY <1>1, <1>2

\* What is live or owing is so again.
LEMMA OwedStays ==
  ASSUME Base, Onward, NEW t \in Thread, Beside(t), Ends(t), NEW done, Hands(t, done),
         NEW s \in Session \ done, IsLive(s) \/ Owing(s)
  PROVE  IsLive(s)' \/ Owing(s)'
<1>1. ASSUME NEW o \in Thread, Stops(thread[o], s)
      PROVE  Owing(s)'
  <2>1. CASE o = t
    BY <1>1, <2>1 DEF Hands, Owing
  <2>2. CASE o # t
    <3>1. thread'[o] = thread[o]
      BY <2>2 DEF Beside
    <3> QED
      BY <1>1, <3>1 DEF Onward, Owing
  <2> QED
    BY <2>1, <2>2
<1>2. ASSUME NEW o \in Thread, Cleared(o, s)
      PROVE  Owing(s)'
  <2>1. Aware(thread[o]) /\ thread[o].pc \in Finishing /\ thread[o].session = s /\ ~Cancelled(s)
    BY <1>2 DEF Cleared, Base, SettleInv
  <2>2. Stops(thread[o], s)
    BY <2>1 DEF Aware, Stops, Finishing
  <2> QED
    BY <1>1, <2>2
<1>3. CASE IsLive(s) \/ CancelledUnseen(s)
  <2>1. \/ IsLive(s)' \/ CancelledUnseen(s)' \/ \E o \in Thread : Stops(thread[o], s)'
        \/ \E o \in Thread : Cleared(o, s)
    BY <1>3 DEF Onward
  <2> QED
    BY <1>2, <2>1 DEF Owing
<1>4. CASE s \in unstopped
  BY <1>4 DEF Onward, Owing
<1> QED
  BY <1>1, <1>3, <1>4 DEF Owing

LEMMA ClearsStay ==
  ASSUME Base, Onward, NEW t \in Thread, Beside(t), Ends(t), finished' \subseteq Session
  PROVE  ClearsFinished'
<1> SUFFICES ASSUME NEW s \in Session, s \in finished', Listed(s)'
             PROVE  \E o \in Thread : thread'[o].pc \in Finishing /\ thread'[o].session = s
  BY DEF ClearsFinished
<1>1. PICK o \in Thread : \/ thread[o].pc \in Finishing /\ thread[o].session = s
                          \/ thread'[o].pc \in Finishing /\ thread'[o].session = s
  BY DEF Onward
<1>2. CASE thread[o].pc \in Finishing /\ thread[o].session = s
  <2>1. CASE o = t
    BY <1>2, <2>1 DEF Ends, Finishing
  <2>2. CASE o # t
    BY <1>2, <2>2 DEF Beside
  <2> QED
    BY <2>1, <2>2
<1> QED
  BY <1>1, <1>2

\* An interrupted playlist is still awaited when no session is registered.
LEMMA AwaitedStays ==
  ASSUME Base, Onward, NEW t \in Thread, Beside(t), Ends(t), Attends(t), Session' = Session
  PROVE  AwaitInv'
<1> SUFFICES ASSUME NEW u \in Universe, playlistState'[u] = "Interrupted", ~Awaited(u)'
             PROVE  FALSE
  BY DEF AwaitInv
<1>1. /\ playlistState[u] = "Interrupted"
      /\ Marking(thread[t], u) => Marking(thread[t], u)'
      /\ \A s \in Session :
           LastSession(u, s) /\ Deciding(thread[t], s) => Deciding(thread[t], s)' \/ s \in relayed'
  BY DEF Attends
<1>2. Awaited(u)
  BY <1>1 DEF Base, SettleInv, AwaitInv
<1>3. ASSUME NEW o \in Thread, Marking(thread[o], u)
      PROVE  FALSE
  <2>1. Marking(thread[o], u)'
    BY <1>1, <1>3 DEF Beside, Marking
  <2> QED
    BY <2>1 DEF Awaited
<1>4. PICK s \in Session :
        /\ LastSession(u, s)
        /\ Listed(s) \/ Cancelled(s) \/ s \in relayed \/ \E o \in Thread : Deciding(thread[o], s)
  BY <1>2, <1>3 DEF Awaited
<1>5. LastSession(u, s)'
  BY <1>4 DEF LastSession, Onward
<1>6. /\ ~Listed(s)' /\ ~Cancelled(s)' /\ s \notin relayed'
      /\ \A o \in Thread : ~Deciding(thread[o], s)'
  BY <1>4, <1>5 DEF Awaited
<1>7. ASSUME NEW o \in Thread, Deciding(thread[o], s)
      PROVE  FALSE
  BY <1>1, <1>4, <1>6, <1>7 DEF Beside, Deciding
<1>8. ASSUME NEW o \in Thread, Cleared(o, s)
      PROVE  FALSE
  <2>1. CASE o = t
    BY <1>4, <1>6, <1>8, <2>1 DEF Cleared, Ends
  <2>2. CASE o # t
    BY <1>8, <2>2 DEF Cleared, Beside
  <2> QED
    BY <2>1, <2>2
<1> QED
  BY <1>4, <1>6, <1>7, <1>8 DEF Onward

\* Where a creature has only been on its own universe, it had before.
LEMMA StayedHome ==
  ASSUME Onward, NEW c, StaysHome(c)'
  PROVE  StaysHome(c)
BY DEF StaysHome, Onward

\* A broadcast that is to come is still to come.
LEMMA StartingStays ==
  ASSUME NEW t \in Thread, Beside(t), StaysOn(t), NEW s, Starting(s)
  PROVE  Starting(s)'
BY DEF Beside, StaysOn, Starting

LEMMA SameDrivers ==
  ASSUME Onward, Session' = Session, NEW c
  PROVE  DrivenBy(c)' = DrivenBy(c)
BY DEF DrivenBy, Onward

\* The common case: the activity of a creature is left alone, while what is live or
\* owing stays so, and so do the broadcasts that matter.
LEMMA ActivityStays ==
  ASSUME Onward, NEW c \in Creature, ActivityRight(c), activity'[c] = activity[c],
         DrivenBy(c)' = DrivenBy(c),
         \A s \in DrivenBy(c) :
           Starting(s) /\ (IsLive(s) \/ (activity[c].session # 0 /\ s > activity[c].session)) => Starting(s)',
         \A s \in DrivenBy(c) : Starting(s) => Starting(s)' \/ s <= activity[c].generation,
         \A s \in Session : s = activity[c].session /\ (IsLive(s) \/ Owing(s)) => IsLive(s)' \/ Owing(s)'
  PROVE  ActivityRight(c)'
<1>1. DrivenBy(c) \subseteq Session
  BY DEF DrivenBy
<1>2. PICK a : a = activity[c] /\ a = activity'[c]
  OBVIOUS
<1>3. /\ a.session \in {0, a.generation}
      /\ a.generation \in {0} \cup DrivenBy(c)
      /\ \A s \in DrivenBy(c) : IsLive(s) => (\A r \in DrivenBy(c) : r <= s) /\ (a.session = s \/ Starting(s))
      /\ a.session # 0 =>
           \/ IsLive(a.session) \/ Owing(a.session)
           \/ \E s \in DrivenBy(c) : s > a.session /\ Starting(s)
  BY <1>2 DEF ActivityRight
<1>4. \A s \in Session : IsLive(s)' => IsLive(s)
  BY DEF Onward, IsLive
<1>5. \A s \in DrivenBy(c)' : IsLive(s)' =>
        (\A r \in DrivenBy(c)' : r <= s) /\ (a.session = s \/ Starting(s)')
  BY <1>1, <1>3, <1>4
<1>6. PICK x : x = a.session
  OBVIOUS
<1>7. x # 0 =>
        \/ IsLive(x)' \/ Owing(x)'
        \/ \E s \in DrivenBy(c)' : s > x /\ Starting(s)'
  <2>1. CASE x # 0 /\ (IsLive(x) \/ Owing(x))
    BY <1>1, <1>2, <1>3, <1>6, <2>1
  <2>2. CASE x # 0 /\ \E s \in DrivenBy(c) : s > x /\ Starting(s)
    BY <1>2, <1>6, <2>2
  <2> QED
    BY <1>3, <1>6, <2>1, <2>2
<1>8. activity'[c].session = x
  BY <1>2, <1>6
<1>9. Reached(c)'
  BY DEF Reached, ActivityRight
<1> QED
  BY <1>2, <1>3, <1>5, <1>7, <1>8, <1>9 DEF ActivityRight

\* The stopped broadcast of a session that is not live: it is dropped, or it is the
\* session that the creature is said to run.
LEMMA ActivityStops ==
  ASSUME Base, Onward, Session' = Session, NEW t \in Thread, Beside(t), StaysOn(t), NEW s0 \in Session,
         ~IsLive(s0), SessionActivity(s0, FALSE),
         \A s \in Session : s # s0 /\ (IsLive(s) \/ Owing(s)) => IsLive(s)' \/ Owing(s)',
         NEW c \in Creature, ActivityRight(c)
  PROVE  ActivityRight(c)'
<1>1. PICK a \in [session : Nat, generation : Nat] : a = activity[c]
  BY DEF Base, SettleInv, ActivityTyped
<1>2. /\ s0 \in Nat /\ s0 # 0 /\ Session \subseteq Nat
  BY Numbers DEF Base, PlaybackInv, Session
<1>3. /\ DrivenBy(c)' = DrivenBy(c) /\ DrivenBy(c) \subseteq Session
      /\ c \in Creatures(s0) <=> s0 \in DrivenBy(c)
  BY SameDrivers DEF DrivenBy, Creatures
<1>4. /\ a.session \in {0, a.generation}
      /\ a.generation \in {0} \cup DrivenBy(c)
      /\ \A s \in DrivenBy(c) : IsLive(s) => (\A r \in DrivenBy(c) : r <= s) /\ (a.session = s \/ Starting(s))
  BY <1>1 DEF ActivityRight
<1>5. \A s : Starting(s) => Starting(s)'
  BY StartingStays
<1>6. activity'[c] = IF c \notin Creatures(s0) \/ StaleWrite(c, s0, s0, FALSE) THEN a
                     ELSE [session |-> 0, generation |-> IF s0 > a.generation THEN s0 ELSE a.generation]
  BY <1>1 DEF SessionActivity, SetActivity
<1>7. StaleWrite(c, s0, s0, FALSE) <=> s0 < a.generation \/ a.session \notin {0, s0}
  BY <1>1, <1>2 DEF StaleWrite
<1>8. CASE c \notin Creatures(s0) \/ StaleWrite(c, s0, s0, FALSE)
  <2>1. a.session # s0
    <3> SUFFICES ASSUME a.session = s0
                 PROVE  FALSE
      OBVIOUS
    <3>1. a.generation = s0 /\ s0 \in DrivenBy(c)
      BY <1>2, <1>4
    <3>2. ~(s0 < a.generation \/ a.session \notin {0, s0})
      BY <1>2, <3>1
    <3> QED
      BY <1>3, <1>7, <1>8, <3>1, <3>2
  <2>2. \A s \in Session : s = activity[c].session /\ (IsLive(s) \/ Owing(s)) => IsLive(s)' \/ Owing(s)'
    BY <1>1, <2>1
  <2>3. activity'[c] = activity[c]
    BY <1>1, <1>6, <1>8
  <2> QED
    BY <1>3, <1>5, <2>2, <2>3, ActivityStays
<1>9. CASE ~(c \notin Creatures(s0) \/ StaleWrite(c, s0, s0, FALSE))
  <2>1. s0 \in DrivenBy(c) /\ a.generation <= s0 /\ a.session \in {0, s0}
    <3>1. s0 \in DrivenBy(c) /\ ~(s0 < a.generation \/ a.session \notin {0, s0})
      BY <1>3, <1>7, <1>9
    <3>2. a.generation \in Nat
      OBVIOUS
    <3> QED
      BY <1>2, <3>1, <3>2
  <2>2. PICK b : b = activity'[c]
    OBVIOUS
  <2>3. b.session = 0 /\ b.generation = s0
    BY <1>1, <1>2, <1>6, <1>9, <2>1, <2>2
  <2>4. ASSUME NEW s \in DrivenBy(c)', IsLive(s)'
        PROVE  (\A r \in DrivenBy(c)' : r <= s) /\ Starting(s)'
    <3>1. IsLive(s) /\ s \in DrivenBy(c) /\ s # s0 /\ s # 0
      BY <1>3, <2>4 DEF Onward, IsLive, Session
    <3> QED
      BY <1>3, <1>4, <1>5, <2>1, <3>1
  <2>5. Reached(c)'
    <3>1. \A s \in DrivenBy(c) : s <= a.generation \/ Starting(s)
      BY <1>1 DEF ActivityRight, Reached
    <3>2. ASSUME NEW s \in DrivenBy(c), s <= a.generation
          PROVE  s <= s0
      <4>1. s \in Nat /\ s0 \in Nat /\ a.generation \in Nat
        BY <1>2, <1>3
      <4> QED
        BY <2>1, <3>2, <4>1
    <3> QED
      BY <1>3, <1>5, <2>2, <2>3, <3>1, <3>2 DEF Reached
  <2> QED
    BY <1>3, <2>1, <2>2, <2>3, <2>4, <2>5 DEF ActivityRight
<1> QED
  BY <1>8, <1>9

\* The shape of a step that registers nothing.
Unregistering(t) ==
  /\ Onward /\ PlaybackInv' /\ Session' = Session /\ Beside(t)
  /\ StaysOn(t) /\ Ends(t) /\ Attends(t) /\ Aware(thread[t])'

LEMMA SettleStep ==
  ASSUME Base, Onward, PlaybackInv', Session' = Session, NEW t \in Thread, Beside(t), Ends(t), Attends(t),
         Aware(thread[t])', ActivityTyped', streaming' \subseteq switched',
         \A c \in Creature \ switched' : ActivityRight(c) => ActivityRight(c)'
  PROVE  SettleInv'
<1>2. \A o \in Thread : Aware(thread[o])'
  BY AwareStays
<1>3. AwaitInv'
  BY AwaitedStays
<1>4. ClearsFinished'
  <2>1. finished' \subseteq Session'
    BY DEF PlaybackInv, Owned, OwnershipInv, Books
  <2> QED
    BY <2>1, ClearsStay
<1>5. ASSUME NEW c \in Creature \ switched', StaysHome(c)'
      PROVE  ActivityRight(c)'
  <2>1. c \in Creature \ switched
    BY DEF Onward
  <2>2. StaysHome(c)
    BY <1>5, StayedHome
  <2> QED
    BY <2>1, <2>2 DEF Base, SettleInv
<1> QED
  BY <1>2, <1>3, <1>4, <1>5 DEF SettleInv

\* The activity of the creatures that are not streamed over or switched is left alone.
LEMMA UnsaidStep ==
  ASSUME Base, NEW t \in Thread, Unregistering(t), Hands(t, {}), ActivityTyped', streaming' \subseteq switched',
         \A c \in Creature \ switched' : activity'[c] = activity[c]
  PROVE  SettleInv'
<1>1. /\ Onward /\ PlaybackInv' /\ Session' = Session /\ Beside(t) /\ Ends(t) /\ StaysOn(t) /\ Attends(t)
      /\ Aware(thread[t])'
  BY DEF Unregistering
<1>2. \A s \in Session : IsLive(s) \/ Owing(s) => IsLive(s)' \/ Owing(s)'
  <2> SUFFICES ASSUME NEW s \in Session, IsLive(s) \/ Owing(s)
               PROVE  IsLive(s)' \/ Owing(s)'
    OBVIOUS
  <2>1. s \in Session \ {}
    OBVIOUS
  <2> QED
    BY <1>1, <2>1, OwedStays
<1>3. ASSUME NEW c \in Creature \ switched', ActivityRight(c)
      PROVE  ActivityRight(c)'
  BY <1>1, <1>2, <1>3, SameDrivers, StartingStays, ActivityStays
<1> QED
  BY <1>1, <1>3, SettleStep

LEMMA SetActivityTyped ==
  ASSUME ActivityTyped, NEW cs, NEW id \in Nat, NEW generation \in Nat, NEW running,
         SetActivity(cs, id, generation, running)
  PROVE  ActivityTyped'
BY DEF ActivityTyped, SetActivity

\* The stopped broadcast of a session that is not live.
LEMMA StoppedStep ==
  ASSUME Base, NEW t \in Thread, Unregistering(t), NEW s0 \in Session, ~IsLive(s0), Hands(t, {s0}),
         SessionActivity(s0, FALSE), UNCHANGED streaming
  PROVE  SettleInv'
<1>1. /\ Onward /\ PlaybackInv' /\ Session' = Session /\ Beside(t) /\ Ends(t) /\ StaysOn(t) /\ Attends(t)
      /\ Aware(thread[t])'
  BY DEF Unregistering
<1>2. \A s \in Session : s # s0 /\ (IsLive(s) \/ Owing(s)) => IsLive(s)' \/ Owing(s)'
  <2> SUFFICES ASSUME NEW s \in Session, s # s0, IsLive(s) \/ Owing(s)
               PROVE  IsLive(s)' \/ Owing(s)'
    OBVIOUS
  <2>1. s \in Session \ {s0}
    OBVIOUS
  <2> QED
    BY <1>1, <2>1, OwedStays
<1>3. ASSUME NEW c \in Creature \ switched', ActivityRight(c)
      PROVE  ActivityRight(c)'
  BY <1>1, <1>2, <1>3, ActivityStops
<1>4. ActivityTyped' /\ streaming' \subseteq switched'
  <2>1. ActivityTyped /\ streaming \subseteq switched /\ s0 \in Nat
    BY Numbers DEF Base, SettleInv, PlaybackInv
  <2> QED
    BY <1>1, <2>1, SetActivityTyped DEF SessionActivity, Onward
<1> QED
  BY <1>1, <1>3, <1>4, SettleStep

\* And where no broadcast is made.
LEMMA QuietStep ==
  ASSUME Base, NEW t \in Thread, Unregistering(t), Hands(t, {}), UNCHANGED <<streaming, activity>>
  PROVE  SettleInv'
<1>1. ActivityTyped' /\ streaming' \subseteq switched'
  BY DEF Base, SettleInv, ActivityTyped, Unregistering, Onward
<1> QED
  BY <1>1, UnsaidStep

\* No playlist becomes interrupted.
NoneInterrupted ==
  \A u \in Universe : playlistState'[u] = "Interrupted" => playlistState[u] = "Interrupted"

\* A thread that has nothing to stop, to end or to decide.
Carefree(r) ==
  /\ r.victims = {}
  /\ r.pc \notin Performing \cup Finishing \cup Parting \cup {"cancelledDone", "undo"}

LEMMA CarefreeMoves ==
  ASSUME Base, NEW t \in Thread, Carefree(thread[t]), NoneInterrupted
  PROVE  StaysOn(t) /\ Ends(t) /\ Attends(t) /\ Hands(t, {})
<1>1. Aware(thread[t])
  BY DEF Base, SettleInv
<1>2. thread[t].ret # "onFinish"
  BY <1>1 DEF Aware, Carefree
<1>3. \A s : ~Stops(thread[t], s) /\ ~Deciding(thread[t], s)
  BY <1>2 DEF Stops, Deciding, Carefree, Finishing, Performing, Parting
<1>4. \A u : ~Marking(thread[t], u)
  BY DEF Marking, Carefree, Performing
<1>5. StaysOn(t) /\ Ends(t)
  BY DEF StaysOn, Ends, Carefree, Performing
<1> QED
  BY <1>3, <1>4, <1>5 DEF Hands, Attends, NoneInterrupted

\* A thread that has nothing to stop, to end or to decide, and no idea of streams.
Innocent(r) ==
  /\ r.pc \notin Parting \cup Switching \cup {"abort", "unwound", "clearCancelled", "cancelledDone"}
  /\ r.ret # "onFinish"

LEMMA CarefreeStep ==
  ASSUME Base, Onward, PlaybackInv', Session' = Session, NEW t \in Thread, Beside(t), Carefree(thread[t]),
         Aware(thread[t])', NoneInterrupted, UNCHANGED <<streaming, activity>>
  PROVE  SettleInv'
<1>1. StaysOn(t) /\ Ends(t) /\ Attends(t) /\ Hands(t, {})
  BY CarefreeMoves
<1>2. Unregistering(t)
  BY <1>1 DEF Unregistering
<1> QED
  BY <1>1, <1>2, QuietStep

LEMMA InnocentIsAware ==
  ASSUME NEW t \in Thread, Innocent(thread'[t])
  PROVE  Aware(thread[t])'
BY DEF Innocent, Aware

\* Where a caller of scheduleAnimation goes on.
LEMMA ReturnRecords ==
  ASSUME NEW r \in ThreadRecord, NEW outcome \in {"ok", "Conflict", "Error"}, NEW q, q = Returned(r, outcome)
  PROVE  /\ r.ret # "onFinish" => q.pc \in {"ready", "idle", "undo", "backstop", "retry", "clearPlaylist"}
         /\ r.ret = "onFinish" => q.pc = "after" /\ q.session = r.before /\ q.universe = r.universe
         /\ q.ret # "onFinish" /\ (q.victims = {} \/ q.victims = r.victims)
         /\ r.ret = "interrupt" /\ outcome # "ok" => q.pc = "undo" /\ q.universe = r.universe
<1>1. Ready \in ThreadRecord /\ Ready.ret = "ready" /\ Ready.pc = "ready" /\ Ready.victims = {}
  BY ReadyTyped
<1>2. r.ret \in Return /\ r.universe \in Universe /\ r.before \in Nat /\ r.idles \in SUBSET Creature
  BY DEF ThreadRecord
<1>3. CASE r.ret = "ready"
  BY <1>1, <1>3 DEF Returned
<1>4. CASE r.ret = "idle"
  BY <1>1, <1>4 DEF Returned, ThreadRecord
<1>5. CASE r.ret = "onFinish"
  BY <1>1, <1>2, <1>5 DEF Returned, ThreadRecord
<1>6. CASE r.ret = "interrupt"
  BY <1>1, <1>2, <1>6 DEF Returned, ThreadRecord
<1>7. CASE r.ret = "playlist"
  <2>1. PICK pc \in {"backstop", "retry", "clearPlaylist"} : q = [r EXCEPT !.pc = pc, !.session = 0]
    BY <1>7 DEF Returned
  <2> QED
    BY <1>7, <2>1 DEF ThreadRecord
<1>8. CASE r.ret = "load"
  BY <1>1, <1>8 DEF Returned, ThreadRecord
<1> QED
  BY <1>2, <1>3, <1>4, <1>5, <1>6, <1>7, <1>8 DEF Return

LEMMA ReturnMoves ==
  ASSUME Base, Onward, NEW t \in Thread, thread[t].pc \in Performing \ {"running", "register"},
         NEW outcome \in {"ok", "Conflict", "Error"}, thread[t].pc = "schedule" => outcome # "ok",
         thread' = [thread EXCEPT ![t] = Returned(thread[t], outcome)], NoneInterrupted
  PROVE  /\ Beside(t) /\ Aware(thread[t])' /\ StaysOn(t) /\ Ends(t) /\ Attends(t)
         /\ \A s : thread[t].before = s /\ thread[t].ret = "onFinish" => Stops(thread[t], s)'
<1>1. ThreadsTyped /\ thread[t] \in ThreadRecord /\ Aware(thread[t])
  BY DEF Base, PlaybackInv, Owned, ThreadsTyped, SettleInv
<1>2. PICK q : q = Returned(thread[t], outcome)
  OBVIOUS
<1>3. thread'[t] = q /\ Beside(t)
  BY <1>1, <1>2, OneThreadMoves
<1>4. PICK r \in ThreadRecord : r = thread[t]
  BY <1>1
<1>5. /\ r.ret # "onFinish" => q.pc \in {"ready", "idle", "undo", "backstop", "retry", "clearPlaylist"}
      /\ r.ret = "onFinish" => q.pc = "after" /\ q.session = r.before /\ q.universe = r.universe
      /\ q.ret # "onFinish"
      /\ r.ret = "interrupt" /\ outcome # "ok" => q.pc = "undo" /\ q.universe = r.universe
  BY <1>2, <1>4, ReturnRecords
<1>6. Aware(thread[t])'
  <2>1. CASE r.ret # "onFinish"
    BY <1>3, <1>5, <2>1, InnocentIsAware DEF Innocent, Parting, Switching
  <2>2. CASE r.ret = "onFinish"
    <3>1. Over(r.before, r.universe)'
      BY <1>1, <1>4, <2>2 DEF Aware, Over, Onward
    <3> QED
      BY <1>3, <1>5, <2>2, <3>1 DEF Aware, Switching
  <2> QED
    BY <2>1, <2>2
<1>7. StaysOn(t) /\ Ends(t)
  BY DEF StaysOn, Ends, Performing, Finishing
<1>8. ASSUME NEW u, Marking(thread[t], u)
      PROVE  Marking(thread[t], u)'
  BY <1>3, <1>4, <1>5, <1>8 DEF Marking, Performing
<1>9. \A s : ~Deciding(thread[t], s)
  BY DEF Deciding, Performing
<1>10. Attends(t)
  BY <1>8, <1>9 DEF Attends, NoneInterrupted
<1>11. ASSUME NEW s, thread[t].before = s, thread[t].ret = "onFinish"
       PROVE  Stops(thread[t], s)'
  BY <1>3, <1>4, <1>5, <1>11 DEF Stops, Parting
<1> QED
  BY <1>3, <1>6, <1>7, <1>10, <1>11

\* A return that leaves no session behind.
LEMMA ReturnSettles ==
  ASSUME Base, Onward, PlaybackInv', Session' = Session, NEW t \in Thread,
         thread[t].pc \in Performing \ {"running", "register", "unwound"},
         thread[t].pc = "abort" => ~Listed(thread[t].session), thread[t].victims = {},
         NEW outcome \in {"ok", "Conflict", "Error"}, thread[t].pc = "schedule" => outcome # "ok",
         thread' = [thread EXCEPT ![t] = Returned(thread[t], outcome)], NoneInterrupted,
         UNCHANGED <<streaming, activity>>
  PROVE  SettleInv'
<1>1. /\ Beside(t) /\ Aware(thread[t])' /\ StaysOn(t) /\ Ends(t) /\ Attends(t)
      /\ \A s : thread[t].before = s /\ thread[t].ret = "onFinish" => Stops(thread[t], s)'
  BY ReturnMoves
<1>2. ASSUME NEW s, Stops(thread[t], s)
      PROVE  thread[t].before = s /\ thread[t].ret = "onFinish"
  BY <1>2 DEF Stops, Performing, Parting
<1>3. Unregistering(t) /\ Hands(t, {})
  BY <1>1, <1>2 DEF Unregistering, Hands
<1> QED
  BY <1>3, QuietStep

\* A jump from one counter of scheduleAnimation to another.
LEMMA PerformingMoves ==
  ASSUME Base, Onward, NEW t \in Thread, thread[t].pc \in Performing,
         NEW pc \in Performing, thread[t].pc \in {"schedule", "register"} => pc \in {"schedule", "register"},
         Jump(t, pc), NoneInterrupted
  PROVE  /\ Beside(t) /\ Ends(t) /\ Attends(t) /\ thread'[t].pc = pc
         /\ thread'[t].session = thread[t].session
         /\ pc \notin {"abort", "unwound"} => Aware(thread[t])'
         /\ pc \in {"abort", "unwound"} /\ thread[t].session \in Session /\ sessions'[thread[t].session].notified
              => Aware(thread[t])'
         /\ \A s : s \in thread[t].victims \/ (thread[t].before = s /\ thread[t].ret = "onFinish")
                     => Stops(thread[t], s)'
<1>1. /\ ThreadsTyped /\ thread[t] \in ThreadRecord /\ Aware(thread[t])
      /\ thread' = [thread EXCEPT ![t] = [thread[t] EXCEPT !.pc = pc]]
  BY DEF Base, PlaybackInv, Owned, ThreadsTyped, SettleInv, Jump
<1>2. PICK r \in ThreadRecord : r = thread[t]
  BY <1>1
<1>3. PICK q : q = [r EXCEPT !.pc = pc]
  OBVIOUS
<1>4. thread'[t] = q /\ Beside(t)
  BY <1>1, <1>2, <1>3, OneThreadMoves
<1>5. /\ q.pc = pc /\ q.session = r.session /\ q.before = r.before /\ q.ret = r.ret
      /\ q.universe = r.universe /\ q.victims = r.victims
  BY <1>3 DEF ThreadRecord
<1>6. r.ret = "onFinish" => Over(r.before, r.universe)'
  BY <1>1, <1>2 DEF Aware, Over, Onward
<1>7. pc \notin Parting \cup Switching \cup {"clearCancelled", "cancelledDone"}
  BY DEF Performing, Parting, Switching
<1>8. pc \notin {"abort", "unwound"} => Aware(thread[t])'
  BY <1>4, <1>5, <1>6, <1>7 DEF Aware
<1>9. pc \in {"abort", "unwound"} /\ r.session \in Session /\ sessions'[r.session].notified
        => Aware(thread[t])'
  BY <1>4, <1>5, <1>6, <1>7 DEF Aware, Onward
<1>10. Ends(t)
  BY DEF Ends, Performing, Finishing
<1>11. Attends(t)
  <2>1. ASSUME NEW u, Marking(thread[t], u)
        PROVE  Marking(thread[t], u)'
    BY <1>2, <1>4, <1>5, <2>1 DEF Marking, Performing
  <2>2. \A s : ~Deciding(thread[t], s)
    BY DEF Deciding, Performing
  <2> QED
    BY <2>1, <2>2 DEF Attends, NoneInterrupted
<1>12. \A s : s \in r.victims \/ (r.before = s /\ r.ret = "onFinish") => Stops(thread[t], s)'
  BY <1>4, <1>5 DEF Stops
<1> QED
  BY <1>2, <1>4, <1>5, <1>8, <1>9, <1>10, <1>11, <1>12

-----------------------------------------------------------------------------
(* scheduleAnimation settles right.                                        *)

LEMMA RegistryIsStill ==
  ASSUME UNCHANGED smVars
  PROVE  Session' = Session /\ NoneInterrupted
BY DEF smVars, Session, NoneInterrupted

LEMMA BaseFacts ==
  ASSUME Base, NEW t \in Thread
  PROVE  /\ Owned /\ TypeOK /\ ThreadsTyped /\ OneOwner /\ thread[t] \in ThreadRecord
         /\ Aware(thread[t]) /\ Proper(t) /\ Knows(thread[t], Session)
         /\ thread[t].pc \notin Notifying => thread[t].victims = {}
         /\ thread[t].pc \in OnSession => thread[t].session \in Session
         /\ Session \subseteq Nat \ {0} /\ ActivityTyped /\ streaming \subseteq switched
<1>1. /\ Owned /\ TypeOK /\ ThreadsTyped /\ OneOwner /\ Session \subseteq Nat
      /\ Aware(thread[t]) /\ Proper(t) /\ ActivityTyped /\ streaming \subseteq switched
  BY Numbers DEF Base, PlaybackInv, SettleInv, GoOnInv
<1>2. thread[t] \in ThreadRecord /\ Knows(thread[t], Session)
  BY <1>1 DEF ThreadsTyped
<1>3. Session \subseteq Nat \ {0}
  <2>1. Len(sessions) \in Nat
    BY <1>1, Numbers
  <2> QED
    BY <2>1 DEF Session
<1> QED
  BY <1>1, <1>2, <1>3 DEF Knows

LEMMA SchedulingSettles ==
  ASSUME Base, Onward, PlaybackInv', NEW t \in Thread,
         \/ ScheduleConflict(t) \/ ScheduleNoSlot(t) \/ ScheduleBroken(t) \/ ScheduleAdmitted(t)
         \/ ScheduleStart(t) \/ ScheduleSubmit(t) \/ ScheduleSubmitRejected(t)
  PROVE  SettleInv'
<1>1. UNCHANGED <<smVars, streaming, activity>> /\ thread[t].pc \in {"schedule", "start", "submit"}
  BY DEF ScheduleConflict, ScheduleNoSlot, ScheduleBroken, ScheduleAdmitted, ScheduleStart, ScheduleSubmit,
         ScheduleSubmitRejected, creatureVars, At
<1>2. Session' = Session /\ NoneInterrupted
  BY <1>1, RegistryIsStill
<1>3. thread[t].victims = {}
  BY <1>1, BaseFacts DEF Notifying
<1>4. ASSUME NEW outcome \in {"ok", "Conflict", "Error"}, Goto(t, Returned(thread[t], outcome)),
             thread[t].pc = "schedule" => outcome # "ok"
      PROVE  SettleInv'
  <2>1. thread' = [thread EXCEPT ![t] = Returned(thread[t], outcome)]
    BY <1>4 DEF Goto
  <2>2. thread[t].pc \in Performing \ {"running", "register", "unwound"} /\ thread[t].pc # "abort"
    BY <1>1 DEF Performing
  <2> QED
    BY <1>1, <1>2, <1>3, <1>4, <2>1, <2>2, ReturnSettles
<1>5. ASSUME NEW pc \in {"register", "unwind"}, Jump(t, pc),
             thread[t].pc \in {"schedule", "register"} => pc \in {"schedule", "register"}
      PROVE  SettleInv'
  <2>1. /\ Beside(t) /\ Ends(t) /\ Attends(t) /\ Aware(thread[t])'
        /\ \A s : thread[t].before = s /\ thread[t].ret = "onFinish" => Stops(thread[t], s)'
    BY <1>1, <1>2, <1>5, PerformingMoves DEF Performing
  <2>2. StaysOn(t)
    BY <1>1 DEF StaysOn
  <2>3. Hands(t, {})
    <3>1. ASSUME NEW s, Stops(thread[t], s)
          PROVE  thread[t].before = s /\ thread[t].ret = "onFinish"
      BY <1>1, <1>3, <3>1 DEF Stops, Parting
    <3> QED
      BY <2>1, <3>1 DEF Hands
  <2>4. Unregistering(t)
    BY <1>2, <2>1, <2>2 DEF Unregistering
  <2> QED
    BY <1>1, <2>3, <2>4, QuietStep
<1>6. CASE ScheduleAdmitted(t) \/ ScheduleSubmitRejected(t)
  BY <1>5, <1>6 DEF ScheduleAdmitted, ScheduleSubmitRejected, At
<1>7. CASE ScheduleConflict(t) \/ ScheduleBroken(t)
  BY <1>4, <1>7 DEF ScheduleConflict, ScheduleBroken
<1>8. CASE ScheduleNoSlot(t)
  <2>1. PICK outcome \in {"Conflict", "Error"} : Goto(t, Returned(thread[t], outcome))
    BY <1>8 DEF ScheduleNoSlot
  <2> QED
    BY <1>4, <2>1
<1>9. CASE ScheduleStart(t) \/ ScheduleSubmit(t)
  BY <1>4, <1>9 DEF ScheduleStart, ScheduleSubmit, At
<1> QED
  BY <1>6, <1>7, <1>8, <1>9

\* The notification of a cancelled session: it left the list when it was cancelled.
LEMMA NotifyingSettles ==
  ASSUME Base, Onward, PlaybackInv', NEW t \in Thread, NotifyVictim(t)
  PROVE  SettleInv'
<1>1. PICK r \in ThreadRecord : r = thread[t]
  BY BaseFacts
<1>2. PICK s0 : s0 = Smallest(r.victims)
  OBVIOUS
<1>3. /\ r.victims # {} /\ SessionActivity(s0, FALSE) /\ UNCHANGED <<smVars, streaming>>
      /\ thread' = [thread EXCEPT ![t] = [r EXCEPT !.victims = @ \ {s0}]]
  BY <1>1, <1>2 DEF NotifyVictim
<1>4. /\ ThreadsTyped /\ Aware(r) /\ r.pc \in Notifying /\ r.victims \subseteq Session
      /\ Session \subseteq Nat
  BY <1>1, <1>3, BaseFacts DEF Knows
<1>5. s0 \in r.victims /\ s0 \in Session
  BY <1>2, <1>3, <1>4, SmallestIsIn
<1>6. ~IsLive(s0)
  <2>1. ToNotify(s0) /\ Safe(s0)
    BY <1>1, <1>5, Numbers DEF ToNotify, Base, PlaybackInv
  <2> QED
    BY <2>1 DEF Safe, InOrder, IsLive
<1>7. PICK q : q = [r EXCEPT !.victims = @ \ {s0}]
  OBVIOUS
<1>8. /\ q.victims = r.victims \ {s0} /\ q.pc = r.pc /\ q.session = r.session /\ q.before = r.before
      /\ q.ret = r.ret /\ q.universe = r.universe /\ q.idles = r.idles
  BY <1>7 DEF ThreadRecord
<1>9. thread'[t] = q /\ Beside(t)
  BY <1>3, <1>4, <1>7, OneThreadMoves
<1>10. Session' = Session /\ NoneInterrupted
  BY <1>3, RegistryIsStill
<1>11. StaysOn(t) /\ Ends(t)
  BY <1>1, <1>4, <1>8, <1>9 DEF StaysOn, Ends, Notifying, Finishing
<1>12. Attends(t)
  <2>1. \A s : ~Deciding(thread[t], s)
    BY <1>1, <1>4 DEF Deciding, Notifying
  <2>2. ASSUME NEW u, Marking(thread[t], u)
        PROVE  Marking(thread[t], u)'
    BY <1>1, <1>8, <1>9, <2>2 DEF Marking
  <2> QED
    BY <1>10, <2>1, <2>2 DEF Attends, NoneInterrupted
<1>13. Aware(thread[t])'
  <2>1. q.pc \notin Parting \cup {"abort", "unwound", "clearCancelled", "cancelledDone"}
    BY <1>4, <1>8 DEF Notifying, Parting
  <2>2. q.ret = "onFinish" => q.pc \in Performing /\ Over(q.before, q.universe)'
    BY <1>4, <1>8 DEF Aware, Over, Onward
  <2>3. q.pc \in Switching => q.idles \subseteq switched'
    BY <1>4, <1>8 DEF Aware, Onward
  <2> QED
    BY <1>9, <2>1, <2>2, <2>3 DEF Aware
<1>14. Hands(t, {s0})
  <2>1. ASSUME NEW s \in Session \ {s0}, Stops(thread[t], s)
        PROVE  Stops(thread[t], s)'
    <3>1. s \in r.victims \/ (r.before = s /\ r.ret = "onFinish")
      BY <1>1, <1>4, <2>1 DEF Stops, Notifying, Parting
    <3> QED
      BY <1>8, <1>9, <2>1, <3>1 DEF Stops
  <2> QED
    BY <2>1 DEF Hands
<1>15. Unregistering(t)
  BY <1>9, <1>10, <1>11, <1>12, <1>13 DEF Unregistering
<1> QED
  BY <1>3, <1>5, <1>6, <1>14, <1>15, StoppedStep

-----------------------------------------------------------------------------
(* So does the unwinding of a session.                                     *)

LEMMA UnwindingSettles ==
  ASSUME Base, Onward, PlaybackInv', NEW t \in Thread, Unwind(t) \/ UnwindAbort(t)
  PROVE  SettleInv'
<1>1. /\ thread[t].pc \in {"unwind", "abort"} /\ thread[t].victims = {}
      /\ thread[t].session \in Session /\ Aware(thread[t]) /\ TypeOK
      /\ UNCHANGED <<streaming, activity>>
  <2>1. thread[t].pc \in {"unwind", "abort"} /\ UNCHANGED <<streaming, activity>>
    BY DEF Unwind, UnwindAbort, At, creatureVars
  <2> QED
    BY <2>1, BaseFacts DEF Notifying, OnSession, Working
<1>2. CASE Unwind(t)
  <2>1. CancelQuietly(thread[t].session) /\ Jump(t, "abort") /\ thread[t].pc = "unwind"
    BY <1>2 DEF Unwind, At
  <2>2. Session' = Session /\ sessions'[thread[t].session].notified
    BY <1>1, <2>1, DirectFlags
  <2>3. NoneInterrupted
    BY <2>1 DEF CancelQuietly, NoneInterrupted
  <2>4. /\ Beside(t) /\ Ends(t) /\ Attends(t) /\ Aware(thread[t])'
        /\ \A s : thread[t].before = s /\ thread[t].ret = "onFinish" => Stops(thread[t], s)'
    BY <1>1, <2>1, <2>2, <2>3, PerformingMoves DEF Performing
  <2>5. StaysOn(t) /\ Hands(t, {})
    <3>1. ASSUME NEW s, Stops(thread[t], s)
          PROVE  thread[t].before = s /\ thread[t].ret = "onFinish"
      BY <1>1, <2>1, <3>1 DEF Stops, Parting
    <3> QED
      BY <2>1, <2>4, <3>1 DEF Hands, StaysOn
  <2>6. Unregistering(t)
    BY <2>2, <2>4, <2>5 DEF Unregistering
  <2> QED
    BY <1>1, <2>5, <2>6, QuietStep
<1>3. CASE UnwindAbort(t)
  <2>1. /\ AbortLoadingSession(thread[t].universe, thread[t].session)
        /\ Jump(t, "unwound") /\ thread[t].pc = "abort"
    BY <1>3 DEF UnwindAbort, At
  <2>2. Session' = Session /\ sessions'[thread[t].session].notified
    BY <1>1, <2>1 DEF AbortLoadingSession, Session, Aware
  <2>3. NoneInterrupted
    BY <1>1, <2>1 DEF AbortLoadingSession, AbortForgets, ForgetPlaylist, NoneInterrupted, TypeOK
  <2>4. /\ Beside(t) /\ Ends(t) /\ Attends(t) /\ Aware(thread[t])'
        /\ thread'[t].pc = "unwound" /\ thread'[t].session = thread[t].session
        /\ \A s : thread[t].before = s /\ thread[t].ret = "onFinish" => Stops(thread[t], s)'
    BY <1>1, <2>1, <2>2, <2>3, PerformingMoves DEF Performing
  <2>5. StaysOn(t) /\ Hands(t, {})
    <3>1. ASSUME NEW s, Stops(thread[t], s)
          PROVE  thread[t].session = s \/ (thread[t].before = s /\ thread[t].ret = "onFinish")
      BY <1>1, <2>1, <3>1 DEF Stops
    <3>2. ASSUME NEW s, thread[t].session = s
          PROVE  Stops(thread[t], s)'
      BY <2>4, <3>2 DEF Stops
    <3> QED
      BY <2>1, <2>4, <3>1, <3>2 DEF Hands, StaysOn
  <2>6. Unregistering(t)
    BY <2>2, <2>4, <2>5 DEF Unregistering
  <2> QED
    BY <1>1, <2>5, <2>6, QuietStep
<1> QED
  BY <1>2, <1>3

LEMMA UnwoundSettles ==
  ASSUME Base, Onward, PlaybackInv', NEW t \in Thread, UnwindReplaced(t) \/ Unwound(t)
  PROVE  SettleInv'
<1>1. /\ thread[t].pc \in {"abort", "unwound"} /\ UNCHANGED <<smVars, streaming>>
  BY DEF UnwindReplaced, Unwound, At, creatureVars
<1>2. /\ thread[t].victims = {} /\ Aware(thread[t]) /\ ThreadsTyped /\ thread[t].session \in Session
  BY <1>1, BaseFacts DEF Notifying, Aware
<1>3. Session' = Session /\ NoneInterrupted
  BY <1>1, RegistryIsStill
<1>4. CASE UnwindReplaced(t)
  <2>1. /\ thread[t].pc = "abort" /\ thread[t].session \notin active[thread[t].universe]
        /\ UNCHANGED activity
        /\ thread' = [thread EXCEPT ![t] = IF thread[t].ret = "load" THEN Ready ELSE Returned(thread[t], "Error")]
    BY <1>4 DEF UnwindReplaced, At, Goto, creatureVars
  <2>2. ~Listed(thread[t].session)
    BY <2>1, BaseFacts DEF OneOwner, Working, Listed
  <2>3. CASE thread[t].ret # "load"
    <3>1. thread' = [thread EXCEPT ![t] = Returned(thread[t], "Error")]
      BY <2>1, <2>3
    <3> QED
      BY <1>1, <1>2, <1>3, <2>1, <2>2, <3>1, ReturnSettles DEF Performing
  <2>4. CASE thread[t].ret = "load"
    <3>1. thread'[t] = Ready /\ Beside(t)
      BY <1>2, <2>1, <2>4, OneThreadMoves
    <3>2. Aware(thread[t])'
      BY <3>1, ReadyTyped, InnocentIsAware DEF Innocent, Parting, Switching
    <3>3. /\ \A s : ~Stops(thread[t], s) /\ ~Deciding(thread[t], s)
          /\ \A u : ~Marking(thread[t], u)
      BY <1>2, <2>1, <2>2, <2>4 DEF Stops, Deciding, Marking, Parting
    <3>4. StaysOn(t) /\ Ends(t) /\ Attends(t) /\ Hands(t, {})
      BY <1>3, <2>1, <3>3 DEF StaysOn, Ends, Attends, Hands, Finishing, NoneInterrupted
    <3>5. Unregistering(t)
      BY <1>3, <3>1, <3>2, <3>4 DEF Unregistering
    <3> QED
      BY <1>1, <2>1, <3>4, <3>5, QuietStep
  <2> QED
    BY <2>3, <2>4
<1>5. CASE Unwound(t)
  <2>1. /\ thread[t].pc = "unwound" /\ SessionActivity(thread[t].session, FALSE)
        /\ thread' = [thread EXCEPT ![t] = Returned(thread[t], "Error")]
    BY <1>5 DEF Unwound, At, Goto
  <2>2. PICK s0 \in Session : s0 = thread[t].session
    BY <1>2
  <2>3. ~IsLive(s0)
    BY <1>2, <2>1, <2>2 DEF Aware, Base, NotifyInv, IsLive
  <2>4. /\ Beside(t) /\ Aware(thread[t])' /\ StaysOn(t) /\ Ends(t) /\ Attends(t)
        /\ \A s : thread[t].before = s /\ thread[t].ret = "onFinish" => Stops(thread[t], s)'
    BY <1>1, <1>3, <2>1, ReturnMoves DEF Performing
  <2>5. Unregistering(t)
    BY <1>3, <2>4 DEF Unregistering
  <2>6. Hands(t, {s0})
    <3>1. ASSUME NEW s \in Session \ {s0}, Stops(thread[t], s)
          PROVE  thread[t].before = s /\ thread[t].ret = "onFinish"
      BY <1>2, <2>2, <3>1 DEF Stops
    <3> QED
      BY <2>4, <3>1 DEF Hands
  <2> QED
    BY <1>1, <2>1, <2>2, <2>3, <2>5, <2>6, StoppedStep
<1> QED
  BY <1>4, <1>5

\* And what follows it: idle playback, and the playlist.
LEMMA IdlingSettles ==
  ASSUME Base, Onward, PlaybackInv', NEW t \in Thread,
         StartIdle(t) \/ IdleDone(t) \/ PlaylistClear(t) \/ PlaylistRetry(t)
  PROVE  SettleInv'
<1>1. /\ thread[t].pc \in {"idle", "clearPlaylist", "retry"} /\ UNCHANGED <<sessions, streaming, activity>>
      /\ thread[t].pc = "clearPlaylist" => thread[t].victims = {}
  BY DEF StartIdle, IdleDone, PlaylistClear, PlaylistRetry, ClearPlaylist, Notified, At, creatureVars, smVars
<1>2. thread[t] \in ThreadRecord /\ ThreadsTyped /\ TypeOK /\ Aware(thread[t])
  BY BaseFacts
<1>3. Session' = Session /\ Carefree(thread[t]) /\ thread[t].ret # "onFinish"
  <2>1. thread[t].victims = {}
    BY <1>1, BaseFacts DEF Notifying
  <2>2. thread[t].pc \notin Performing
    BY <1>1 DEF Performing
  <2> QED
    BY <1>1, <1>2, <2>1, <2>2 DEF Session, Carefree, Finishing, Parting, Aware
<1>4. NoneInterrupted
  BY <1>2 DEF StartIdle, IdleDone, PlaylistClear, PlaylistRetry, ClearPlaylist, ForgetPlaylist, smVars,
              NoneInterrupted, TypeOK
<1>5. Beside(t) /\ Aware(thread[t])'
  <2>1. ASSUME NEW q, thread' = [thread EXCEPT ![t] = q], Innocent(q)
        PROVE  Beside(t) /\ Aware(thread[t])'
    BY <1>2, <2>1, OneThreadMoves, InnocentIsAware
  <2>2. Innocent(Ready)
    BY ReadyTyped DEF Innocent, Parting, Switching
  <2>3. CASE IdleDone(t) \/ PlaylistClear(t) \/ PlaylistRetry(t)
    BY <2>1, <2>2, <2>3 DEF IdleDone, PlaylistClear, PlaylistRetry, Goto
  <2>4. CASE StartIdle(t)
    <3>1. PICK r \in ThreadRecord : r = thread[t]
      BY <1>2
    <3>2. PICK c \in r.idles : LET rest == [r EXCEPT !.idles = @ \ {c}]
                               IN  Goto(t, IF NeedsIdle(Home[c], c) /\ ~Occupied(r, c)
                                           THEN [rest EXCEPT !.pc = "schedule", !.universe = Home[c],
                                                   !.ret = "idle", !.animation = IdleAnimation[c],
                                                   !.reason = "Idle"]
                                           ELSE rest)
      BY <2>4, <3>1 DEF StartIdle
    <3>3. PICK q : q = [r EXCEPT !.idles = @ \ {c}]
      OBVIOUS
    <3>4. PICK p : p = [q EXCEPT !.pc = "schedule", !.universe = Home[c], !.ret = "idle",
                          !.animation = IdleAnimation[c], !.reason = "Idle"]
      OBVIOUS
    <3>7. q.pc = r.pc /\ q.ret = r.ret /\ p.pc = "schedule" /\ p.ret = "idle"
      BY <3>3, <3>4 DEF ThreadRecord
    <3>5. Goto(t, p) \/ Goto(t, q)
      BY <3>2, <3>3, <3>4
    <3>6. Innocent(p) /\ Innocent(q)
      BY <1>1, <1>3, <2>4, <3>1, <3>7 DEF Innocent, Parting, Switching, StartIdle, At
    <3> QED
      BY <2>1, <3>5, <3>6 DEF Goto
  <2> QED
    BY <2>3, <2>4
<1> QED
  BY <1>1, <1>3, <1>4, <1>5, CarefreeStep

-----------------------------------------------------------------------------
(* The adoption: what contends with the new session is cancelled, and the  *)
(* new one is the last of its universe and about to be announced.          *)

LEMMA RegistrationSettles ==
  ASSUME Base, Onward, PlaybackInv', NEW t \in Thread, ScheduleRegister(t)
  PROVE  SettleInv'
<1>1. PICK r \in ThreadRecord : r = thread[t]
  BY BaseFacts
<1>2. PICK u \in Universe : u = r.universe
  BY DEF ThreadRecord
<1>21. PICK a \in Animation : a = r.animation
  BY <1>1, BaseFacts DEF ScheduleRegister, At, Knows
<1>22. PICK reason \in Reason : reason = r.reason
  BY DEF ThreadRecord
<1>23. PICK entire \in BOOLEAN : entire = r.entire
  BY DEF ThreadRecord
<1>24. /\ RegisterSession(u, a, reason, entire)
       /\ thread' = [thread EXCEPT ![t] = [r EXCEPT !.session = Len(sessions) + 1, !.pc = "running",
                                                    !.victims = Adopted(u, a, entire)]]
  BY <1>1, <1>2, <1>21, <1>22, <1>23 DEF ScheduleRegister, Goto
<1>3. PICK n : n = Len(sessions) + 1
  OBVIOUS
<1>4. TypeOK /\ ThreadsTyped /\ Len(sessions) \in Nat /\ Aware(r)
  BY <1>1, BaseFacts, LenProperties DEF TypeOK
<1>5. /\ Session' = Session \cup {n} /\ n \notin Session
      /\ sessions'[n] = [universe |-> u, reason |-> reason, drives |-> Drives[a],
                         cancelled |-> FALSE, notified |-> FALSE]
      /\ \A s \in Session :
           /\ sessions'[s].universe = sessions[s].universe
           /\ sessions'[s].drives = sessions[s].drives
  BY <1>24, <1>3, <1>4, RegisterProperties
<1>6. RegisterSession(u, a, reason, entire) /\ TypeOK
  BY <1>24, <1>4
<1>7. /\ FlagsGrow
      /\ sessions'[n].notified = FALSE /\ sessions'[n].cancelled = FALSE /\ Listed(n)'
      /\ Session' = Session \cup {n} /\ n \notin Session
      /\ \A s \in Session :
           /\ s \in Adopted(u, a, entire) => sessions'[s].notified /\ Cancelled(s)'
           /\ s \notin Adopted(u, a, entire) => /\ Listed(s)' <=> Listed(s)
                                                /\ Cancelled(s)' <=> Cancelled(s)
                                                /\ sessions'[s].notified <=> sessions[s].notified
  <2>1. Adopts(n, Adopted(u, a, entire))
    BY <1>3, <1>6, RegisteredFlags
  <2> QED
    BY <2>1 DEF Adopts
<1>8. PICK q : q = [r EXCEPT !.session = n, !.pc = "running", !.victims = Adopted(u, a, entire)]
  OBVIOUS
<1>9. /\ q.session = n /\ q.pc = "running" /\ q.before = r.before /\ q.ret = r.ret
      /\ q.universe = r.universe
  BY <1>8 DEF ThreadRecord
<1>10. thread'[t] = q /\ Beside(t)
  BY <1>24, <1>3, <1>4, <1>8, OneThreadMoves
<1>11. /\ thread[t].pc = "register" /\ thread[t].victims = {}
       /\ UNCHANGED <<playlistState, finished, streaming, activity, switched, relayed>>
  <2>1. thread[t].pc = "register"
    BY DEF ScheduleRegister, At
  <2>2. UNCHANGED <<playlistState, finished, streaming, activity, switched, relayed>>
    BY <1>24 DEF ScheduleRegister, RegisterSession, eventVars, chainVars, pastVars, endVars, creatureVars
  <2> QED
    BY <2>1, <2>2, BaseFacts DEF Notifying
<1>12. Session \subseteq Nat /\ n \in Nat /\ \A s \in Session : s <= n /\ s < n
  BY <1>3, <1>4 DEF Session
<1>13. ActivityTyped' /\ streaming' \subseteq switched'
  BY <1>11, BaseFacts DEF ActivityTyped
<1>14. \A o \in Thread : Aware(thread[o])'
  <2>1. r.ret = "onFinish" => Over(r.before, r.universe)'
    BY <1>4 DEF Aware, Over, Onward
  <2>2. Aware(thread[t])'
    BY <1>9, <1>10, <2>1 DEF Aware, Performing, Parting, Switching
  <2> QED
    BY <1>10, <2>2, AwareStays
<1>15. Ends(t)
  BY <1>11 DEF Ends, Finishing
<1>16. ClearsFinished'
  <2>1. finished' \subseteq Session
    BY <1>11 DEF Base, PlaybackInv, Owned, OwnershipInv, Books
  <2> QED
    BY <1>10, <1>15, <2>1, ClearsStay
<1>17. ASSUME NEW v \in Universe, playlistState'[v] = "Interrupted"
       PROVE  Awaited(v)'
  <2>1. Awaited(v)
    BY <1>11, <1>17 DEF Base, SettleInv, AwaitInv
  <2>2. CASE v = u
    <3>1. LastSession(v, n)'
      BY <1>5, <1>12, <2>2 DEF LastSession
    <3> QED
      BY <1>5, <1>7, <3>1 DEF Awaited
  <2>3. CASE v # u /\ \E o \in Thread : Marking(thread[o], v)
    <3>1. PICK o \in Thread : Marking(thread[o], v)
      BY <2>3
    <3>2. thread'[o] = thread[o]
      BY <1>1, <1>2, <1>10, <2>3, <3>1 DEF Marking, Beside
    <3>3. Marking(thread[o], v)'
      BY <3>1, <3>2 DEF Marking
    <3> QED
      BY <3>3 DEF Awaited
  <2>4. CASE v # u /\ ~\E o \in Thread : Marking(thread[o], v)
    <3>1. PICK s \in Session :
            /\ LastSession(v, s)
            /\ Listed(s) \/ Cancelled(s) \/ s \in relayed \/ \E o \in Thread : Deciding(thread[o], s)
      BY <2>1, <2>4 DEF Awaited
    <3>2. LastSession(v, s)' /\ s \in Session'
      BY <1>5, <2>4, <3>1 DEF LastSession
    <3>3. CASE Listed(s) \/ Cancelled(s) \/ s \in relayed
      <4>1. \A o \in Thread : ~Cleared(o, s)
        BY <1>10, <1>11 DEF Cleared, Beside, Finishing
      <4>2. Listed(s)' \/ Cancelled(s)' \/ s \in relayed'
        BY <3>3, <4>1 DEF Onward
      <4> QED
        BY <3>2, <4>2 DEF Awaited
    <3>4. CASE \E o \in Thread : Deciding(thread[o], s)
      <4>1. PICK o \in Thread : Deciding(thread[o], s)
        BY <3>4
      <4>2. thread'[o] = thread[o]
        BY <1>10, <1>11, <4>1 DEF Deciding, Beside
      <4>3. Deciding(thread[o], s)'
        BY <4>1, <4>2 DEF Deciding
      <4> QED
        BY <3>2, <4>3 DEF Awaited
    <3> QED
      BY <3>1, <3>3, <3>4
  <2> QED
    BY <2>2, <2>3, <2>4
<1>18. ASSUME NEW s \in Session, IsLive(s) \/ Owing(s)
       PROVE  IsLive(s)' \/ Owing(s)'
  <2>1. Hands(t, {})
    <3>1. ASSUME NEW x, Stops(thread[t], x)
          PROVE  Stops(thread[t], x)'
      <4>1. r.before = x /\ r.ret = "onFinish"
        BY <1>1, <1>11, <3>1 DEF Stops, Parting
      <4> QED
        BY <1>9, <1>10, <4>1 DEF Stops
    <3> QED
      BY <3>1 DEF Hands
  <2>2. s \in Session \ {}
    OBVIOUS
  <2> QED
    BY <1>10, <1>15, <1>18, <2>1, <2>2, OwedStays
<1>19. ASSUME NEW s, Starting(s)
       PROVE  Starting(s)'
  BY <1>10, <1>11, <1>19 DEF Starting, Beside
<1>20. ASSUME NEW c \in Creature \ switched', StaysHome(c)'
       PROVE  ActivityRight(c)'
  <2>1. StaysHome(c) /\ ActivityRight(c)
    BY <1>11, <1>20, StayedHome DEF Base, SettleInv
  <2>2. CASE c \notin Drives[a]
    <3>1. DrivenBy(c)' = DrivenBy(c)
      BY <1>5, <2>2 DEF DrivenBy
    <3> QED
      BY <1>11, <1>18, <1>19, <2>1, <3>1, ActivityStays
  <2>3. CASE c \in Drives[a]
    <3>1. DrivenBy(c)' = DrivenBy(c) \cup {n} /\ DrivenBy(c) \subseteq Session
      BY <1>5, <2>3 DEF DrivenBy
    <3>2. u = Home[c]
      BY <1>5, <1>20, <2>3 DEF StaysHome
    <3>3. ASSUME NEW s \in DrivenBy(c)
          PROVE  ~IsLive(s)'
      <4> SUFFICES ASSUME IsLive(s)'
                   PROVE  FALSE
        OBVIOUS
      <4>1. s \in Session /\ c \in sessions[s].drives /\ sessions[s].universe = u
        BY <2>1, <3>2 DEF DrivenBy, StaysHome
      <4>2. Listed(s) /\ ~Cancelled(s)
        BY <4>1 DEF IsLive, Onward
      <4>3. s \in Adopted(u, a, entire)
        BY <2>3, <4>1, <4>2 DEF Adopted, Live, Listed, Conflict
      <4> QED
        BY <1>7, <4>1, <4>3 DEF IsLive
    <3>4. Starting(n)'
      BY <1>9, <1>10 DEF Starting
    <3>5. PICK x : x = activity[c]
      OBVIOUS
    <3>6. x.session \in {0, x.generation} /\ x.generation \in {0} \cup DrivenBy(c)
      BY <2>1, <3>5 DEF ActivityRight
    <3>7. x.session # 0 => n > x.session
      BY <1>12, <3>1, <3>6
    <3>8. activity'[c] = x
      BY <1>11, <3>5
    <3>9. Reached(c)'
      <4>1. \A s \in DrivenBy(c) : s <= x.generation \/ Starting(s)
        BY <2>1, <3>5 DEF ActivityRight, Reached
      <4>2. \A s \in DrivenBy(c)' : s <= x.generation \/ Starting(s)'
        BY <1>19, <3>1, <3>4, <4>1
      <4> QED
        BY <3>8, <4>2 DEF Reached
    <3>10. \A s \in DrivenBy(c)' : IsLive(s)' =>
             (\A o \in DrivenBy(c)' : o <= s) /\ (x.session = s \/ Starting(s)')
      <4>1. ASSUME NEW o \in DrivenBy(c)'
            PROVE  o <= n
        <5>1. CASE o = n
          BY <1>12, <5>1
        <5>2. CASE o \in Session
          BY <1>12, <5>2
        <5> QED
          BY <3>1, <5>1, <5>2
      <4> QED
        BY <3>1, <3>3, <3>4, <4>1
    <3>11. x.session # 0 => \E s \in DrivenBy(c)' : s > x.session /\ Starting(s)'
      BY <3>1, <3>4, <3>7
    <3>12. x.generation \in {0} \cup DrivenBy(c)'
      BY <3>1, <3>6
    <3> QED
      BY <3>6, <3>8, <3>9, <3>10, <3>11, <3>12 DEF ActivityRight
  <2> QED
    BY <2>2, <2>3
<1> QED
  BY <1>13, <1>14, <1>16, <1>17, <1>20 DEF SettleInv, AwaitInv

\* The running broadcast: of a live session, or of one cancelled meanwhile, which may
\* then remain.
LEMMA BroadcastSettles ==
  ASSUME Base, Onward, PlaybackInv', NEW t \in Thread, ScheduleRunning(t)
  PROVE  SettleInv'
<1>1. PICK s0 : s0 = thread[t].session
  OBVIOUS
<1>2. PICK pc \in {"submit", "start"} :
        /\ thread[t].pc = "running" /\ thread[t].victims = {}
        /\ SessionActivity(s0, TRUE) /\ Jump(t, pc) /\ UNCHANGED <<smVars, streaming>>
        /\ unstopped' = IF Cancelled(s0) /\ \E c \in Creatures(s0) : NewestOn(c, s0)
                        THEN unstopped \cup {s0} ELSE unstopped
  BY <1>1 DEF ScheduleRunning, Notified, At
<1>3. s0 \in Session /\ TypeOK /\ Session \subseteq Nat \ {0} /\ ActivityTyped /\ streaming \subseteq switched
  BY <1>1, <1>2, BaseFacts DEF OnSession, Working
<1>4. Session' = Session /\ NoneInterrupted
  BY <1>2, RegistryIsStill
<1>5. /\ Beside(t) /\ Ends(t) /\ Attends(t) /\ Aware(thread[t])' /\ thread'[t].pc = pc
      /\ \A s : thread[t].before = s /\ thread[t].ret = "onFinish" => Stops(thread[t], s)'
  BY <1>2, <1>4, PerformingMoves DEF Performing
<1>6. Hands(t, {})
  <2>1. ASSUME NEW s, Stops(thread[t], s)
        PROVE  thread[t].before = s /\ thread[t].ret = "onFinish"
    BY <1>2, <2>1 DEF Stops, Parting
  <2> QED
    BY <1>5, <2>1 DEF Hands
<1>7. ASSUME NEW s \in Session, IsLive(s) \/ Owing(s)
      PROVE  IsLive(s)' \/ Owing(s)'
  <2>1. s \in Session \ {}
    OBVIOUS
  <2> QED
    BY <1>5, <1>6, <1>7, <2>1, OwedStays
<1>8. ASSUME NEW s, s # s0, Starting(s)
      PROVE  Starting(s)'
  BY <1>1, <1>5, <1>8 DEF Starting, Beside
<1>9. ActivityTyped' /\ streaming' \subseteq switched'
  BY <1>2, <1>3, SetActivityTyped DEF SessionActivity, Onward
<1>10. \A s \in Session : IsLive(s)' <=> IsLive(s)
  BY <1>2 DEF smVars, IsLive, Listed, Cancelled
<1>11. IsLive(s0)' \/ Owing(s0)' \/ \A c \in Creatures(s0) : ~NewestOn(c, s0)
  <2>1. CASE Cancelled(s0)
    BY <1>2, <2>1 DEF Owing
  <2>2. CASE ~Cancelled(s0)
    <3>1. Preparing(s0)
      BY <1>1, <1>2 DEF Preparing, Works, Working
    <3>2. IsLive(s0)
      BY <1>3, <2>2, <3>1 DEF Base, NotifyInv, IsLive
    <3> QED
      BY <1>3, <1>10, <3>2
  <2> QED
    BY <2>1, <2>2
<1>12. ASSUME NEW c \in Creature \ switched', ActivityRight(c)
       PROVE  ActivityRight(c)'
  <2>1. PICK a \in [session : Nat, generation : Nat] : a = activity[c]
    BY <1>3 DEF ActivityTyped
  <2>2. /\ DrivenBy(c)' = DrivenBy(c) /\ DrivenBy(c) \subseteq Session
        /\ c \in Creatures(s0) <=> s0 \in DrivenBy(c)
    BY <1>3, <1>4, SameDrivers DEF DrivenBy, Creatures
  <2>3. /\ a.session \in {0, a.generation}
        /\ a.generation \in {0} \cup DrivenBy(c)
        /\ \A s \in DrivenBy(c) : IsLive(s) => (\A r \in DrivenBy(c) : r <= s) /\ (a.session = s \/ Starting(s))
    BY <1>12, <2>1 DEF ActivityRight
  <2>4. activity'[c] = IF c \notin Creatures(s0) \/ StaleWrite(c, s0, s0, TRUE) THEN a
                       ELSE [session |-> s0, generation |-> IF s0 > a.generation THEN s0 ELSE a.generation]
    BY <1>2, <2>1 DEF SessionActivity, SetActivity
  <2>5. StaleWrite(c, s0, s0, TRUE) <=> s0 < a.generation
    BY <1>3, <2>1 DEF StaleWrite
  <2>6. s0 \in Nat /\ a.generation \in Nat /\ a.session \in Nat
    BY <1>3
  <2>7. CASE s0 \notin DrivenBy(c) \/ s0 < a.generation
    <3>1. activity'[c] = activity[c]
      BY <2>1, <2>2, <2>4, <2>5, <2>7
    <3>2. ASSUME NEW s \in DrivenBy(c), Starting(s), IsLive(s) \/ (activity[c].session # 0 /\ s > activity[c].session)
          PROVE  Starting(s)'
      <4>1. s # s0
        <5>1. CASE s0 \notin DrivenBy(c)
          BY <5>1
        <5>2. CASE s0 < a.generation /\ IsLive(s)
          <6>1. a.generation \in DrivenBy(c)
            BY <2>3, <2>6, <5>2
          <6>2. a.generation <= s /\ s \in Nat
            BY <1>3, <2>2, <2>3, <5>2, <6>1
          <6> QED
            BY <2>6, <5>2, <6>2
        <5>3. CASE s0 < a.generation /\ activity[c].session # 0 /\ s > activity[c].session
          <6>1. a.session = a.generation /\ s > a.generation /\ s \in Nat
            BY <1>3, <2>1, <2>2, <2>3, <5>3
          <6> QED
            BY <2>6, <5>3, <6>1
        <5> QED
          BY <2>7, <3>2, <5>1, <5>2, <5>3
      <4> QED
        BY <1>8, <3>2, <4>1
    <3>3. ASSUME NEW s \in DrivenBy(c), Starting(s)
          PROVE  Starting(s)' \/ s <= activity[c].generation
      <4>1. CASE s = s0
        BY <2>1, <2>6, <2>7, <4>1
      <4>2. CASE s # s0
        BY <1>8, <3>3, <4>2
      <4> QED
        BY <4>1, <4>2
    <3> QED
      BY <1>7, <1>12, <2>2, <3>1, <3>2, <3>3, ActivityStays
  <2>8. CASE s0 \in DrivenBy(c) /\ ~(s0 < a.generation)
    <3>1. PICK b : b = activity'[c]
      OBVIOUS
    <3>2. b.session = s0 /\ b.generation = s0
      <4>1. b = [session |-> s0, generation |-> IF s0 > a.generation THEN s0 ELSE a.generation]
        BY <2>2, <2>4, <2>5, <2>8, <3>1
      <4>2. s0 = IF s0 > a.generation THEN s0 ELSE a.generation
        BY <2>6, <2>8
      <4> QED
        BY <4>1, <4>2
    <3>3. ASSUME NEW s \in DrivenBy(c)', IsLive(s)'
          PROVE  (\A r \in DrivenBy(c)' : r <= s) /\ (s0 = s \/ Starting(s)')
      <4>1. s \in DrivenBy(c) /\ IsLive(s) /\ s \in Nat
        BY <1>3, <1>10, <2>2, <3>3
      <4>2. \A r \in DrivenBy(c) : r <= s
        BY <2>3, <4>1
      <4>3. ASSUME s # s0
            PROVE  Starting(s)'
        <5>1. s0 <= s
          BY <2>8, <4>2
        <5>2. a.session # s
          <6>1. s # 0 /\ s \in Nat
            BY <1>3, <2>2, <4>1
          <6>2. a.session = s => a.generation = s
            BY <2>3, <6>1
          <6> QED
            BY <2>6, <2>8, <4>3, <5>1, <6>1, <6>2
        <5> QED
          BY <1>8, <2>3, <4>1, <4>3, <5>2
      <4> QED
        BY <2>2, <4>2, <4>3
    <3>4. \A s \in DrivenBy(c) : s <= a.generation \/ Starting(s)
      BY <1>12, <2>1 DEF ActivityRight, Reached
    <3>5. \A s \in DrivenBy(c) : s <= a.generation => s <= s0
      BY <1>3, <2>2, <2>6, <2>8
    <3>6. Reached(c)'
      BY <1>8, <2>2, <2>6, <3>1, <3>2, <3>4, <3>5 DEF Reached
    <3>7. \/ IsLive(s0)' \/ Owing(s0)'
          \/ \E s \in DrivenBy(c)' : s > s0 /\ Starting(s)'
      <4>1. CASE ~NewestOn(c, s0)
        <5>1. PICK s \in DrivenBy(c) : ~(s <= s0)
          BY <4>1 DEF NewestOn, DrivenBy
        <5>2. s \in Nat /\ s > s0 /\ s # s0
          <6>1. s \in Nat
            BY <1>3, <2>2
          <6> QED
            BY <2>6, <5>1, <6>1
        <5>3. Starting(s)'
          BY <1>8, <3>4, <3>5, <5>1, <5>2
        <5> QED
          BY <2>2, <5>2, <5>3
      <4> QED
        BY <1>11, <2>2, <2>8, <4>1
    <3> QED
      BY <2>2, <2>8, <3>1, <3>2, <3>3, <3>6, <3>7 DEF ActivityRight
  <2> QED
    BY <2>7, <2>8
<1> QED
  BY <1>4, <1>5, <1>9, <1>12, SettleStep

-----------------------------------------------------------------------------
(* The loader and the runner events settle right.                          *)

LEMMA IsCarefree ==
  ASSUME Base, NEW t \in Thread,
         thread[t].pc \notin Notifying \cup Performing \cup Finishing \cup Parting \cup {"cancelledDone", "undo"}
  PROVE  Carefree(thread[t]) /\ thread[t].ret # "onFinish"
BY BaseFacts DEF Carefree, Aware

LEMMA LoadingSettles ==
  ASSUME Base, Onward, PlaybackInv', NEW t \in Loader, LoaderStep(t)
  PROVE  SettleInv'
<1>1. t \in Thread /\ UNCHANGED <<smVars, streaming, activity>> /\ thread[t].pc \in {"ready", "load", "publish"}
  BY DEF Thread, LoaderStep, LoaderTake, LoaderLoaded, LoaderPublish, LoaderFail, creatureVars, At
<1>2. Carefree(thread[t]) /\ thread[t].ret # "onFinish"
  BY <1>1, IsCarefree DEF Notifying, Performing, Finishing, Parting
<1>3. Session' = Session /\ NoneInterrupted /\ ThreadsTyped /\ thread[t] \in ThreadRecord
  BY <1>1, RegistryIsStill, BaseFacts
<1>4. ASSUME NEW q, thread' = [thread EXCEPT ![t] = q], Innocent(q)
      PROVE  SettleInv'
  <2>1. Beside(t) /\ Aware(thread[t])'
    BY <1>1, <1>3, <1>4, OneThreadMoves, InnocentIsAware
  <2> QED
    BY <1>1, <1>2, <1>3, <2>1, CarefreeStep
<1>5. Innocent(Ready)
  BY ReadyTyped DEF Innocent, Parting, Switching
<1>6. ASSUME NEW pc \in {"publish", "unwind"}, Jump(t, pc)
      PROVE  SettleInv'
  <2>1. PICK q : q = [thread[t] EXCEPT !.pc = pc]
    OBVIOUS
  <2>2. q.pc = pc /\ q.ret = thread[t].ret
    BY <1>3, <2>1 DEF ThreadRecord
  <2>3. Innocent(q)
    BY <1>2, <2>2 DEF Innocent, Parting, Switching
  <2>4. thread' = [thread EXCEPT ![t] = q]
    BY <1>3, <1>6, <2>1 DEF Jump, ThreadsTyped
  <2> QED
    BY <1>4, <2>3, <2>4
<1>7. CASE LoaderTake(t)
  <2>1. PICK s \in loading : IF Cancelled(s) THEN UNCHANGED thread
                             ELSE Goto(t, [Ready EXCEPT !.pc = "load", !.session = s, !.ret = "load",
                                                        !.universe = sessions[s].universe])
    BY <1>7 DEF LoaderTake
  <2>2. thread[t].pc = "ready"
    BY <1>7 DEF LoaderTake, At
  <2>3. CASE UNCHANGED thread
    <3>1. Innocent(thread'[t]) /\ Beside(t)
      BY <1>2, <2>2, <2>3 DEF Innocent, Parting, Switching, Beside
    <3>2. Aware(thread[t])'
      BY <1>1, <3>1, InnocentIsAware
    <3> QED
      BY <1>1, <1>2, <1>3, <3>1, <3>2, CarefreeStep
  <2>4. CASE ~UNCHANGED thread
    <3>1. PICK q : q = [Ready EXCEPT !.pc = "load", !.session = s, !.ret = "load",
                                     !.universe = sessions[s].universe]
      OBVIOUS
    <3>2. q.pc = "load" /\ q.ret = "load"
      BY <3>1, ReadyTyped DEF ThreadRecord
    <3>3. Innocent(q) /\ Goto(t, q)
      BY <2>1, <2>4, <3>1, <3>2 DEF Innocent, Parting, Switching
    <3> QED
      BY <1>4, <3>3 DEF Goto
  <2> QED
    BY <2>3, <2>4
<1>8. CASE LoaderLoaded(t)
  <2>1. Goto(t, Ready) \/ Jump(t, "publish")
    BY <1>8 DEF LoaderLoaded
  <2> QED
    BY <1>4, <1>5, <1>6, <2>1 DEF Goto
<1>9. CASE LoaderPublish(t) \/ LoaderFail(t)
  BY <1>4, <1>5, <1>6, <1>9 DEF LoaderPublish, LoaderFail, Goto
<1> QED
  BY <1>7, <1>8, <1>9 DEF LoaderStep

LEMMA RunningSettles ==
  ASSUME Base, Onward, PlaybackInv', NEW s \in Session, RunnerStep(s)
  PROVE  SettleInv'
<1>1. Loop \in Thread /\ thread[Loop].pc = "ready" /\ UNCHANGED <<playlistState, streaming, activity>>
  BY DEF Thread, RunnerStep, RunnerLate, RunnerCancelled, RunnerFinished, RunnerFailed, TakeRunner, At,
         CancelDirect, creatureVars, smVars
<1>2. Carefree(thread[Loop]) /\ thread[Loop].ret # "onFinish"
  BY <1>1, IsCarefree DEF Notifying, Performing, Finishing, Parting
<1>3. TypeOK /\ ThreadsTyped
  BY <1>1, BaseFacts
<1>4. NoneInterrupted
  BY <1>1 DEF NoneInterrupted
<1>5. CASE RunnerLate(s)
  <2>1. UNCHANGED <<smVars, thread>>
    BY <1>5 DEF RunnerLate
  <2>2. Session' = Session
    BY <2>1, RegistryIsStill
  <2>3. Innocent(thread'[Loop]) /\ Beside(Loop)
    BY <1>1, <1>2, <2>1 DEF Innocent, Parting, Switching, Beside
  <2>4. Aware(thread[Loop])'
    BY <1>1, <2>3, InnocentIsAware
  <2> QED
    BY <1>1, <1>2, <1>4, <2>2, <2>3, <2>4, CarefreeStep
<1>6. ASSUME NEW pc \in {"clearCancelled", "onFinish"}, Goto(Loop, InRunner(s, pc)), s \in finished',
             pc = "clearCancelled" => Cancelled(s)', Session' = Session
      PROVE  SettleInv'
  <2>1. PICK q : q = InRunner(s, pc)
    OBVIOUS
  <2>2. q.pc = pc /\ q.session = s /\ q.ret = "ready"
    BY <2>1, ReadyTyped DEF InRunner, ThreadRecord
  <2>3. thread'[Loop] = q /\ Beside(Loop)
    BY <1>1, <1>3, <1>6, <2>1, OneThreadMoves DEF Goto
  <2>4. Aware(thread[Loop])'
    BY <1>6, <2>2, <2>3 DEF Aware, Parting, Switching
  <2> QED
    BY <1>1, <1>2, <1>4, <1>6, <2>3, <2>4, CarefreeStep
<1>7. CASE RunnerCancelled(s) \/ RunnerFinished(s)
  <2>1. UNCHANGED smVars /\ s \in finished'
    BY <1>7 DEF RunnerCancelled, RunnerFinished, Claim
  <2>2. Session' = Session
    BY <2>1, RegistryIsStill
  <2>3. Cancelled(s)' <=> Cancelled(s)
    BY <2>1 DEF smVars, Cancelled
  <2> QED
    BY <1>6, <1>7, <2>1, <2>2, <2>3 DEF RunnerCancelled, RunnerFinished
<1>8. CASE RunnerFailed(s)
  <2>1. CancelDirect(s) /\ s \in finished' /\ Goto(Loop, InRunner(s, "clearCancelled"))
    BY <1>8 DEF RunnerFailed, Claim
  <2>2. Session' = Session /\ Cancelled(s)'
    BY <1>3, <2>1, DirectFlags
  <2> QED
    BY <1>6, <2>1, <2>2
<1> QED
  BY <1>5, <1>7, <1>8 DEF RunnerStep

-----------------------------------------------------------------------------
(* The end of a session: the loop knows its session and what it owes.      *)

LEMMA EndingStep ==
  ASSUME Base, Onward, PlaybackInv', Session' = Session, NEW t \in Thread, Beside(t),
         thread[t].pc \in Finishing \cup Parting \cup {"cancelledDone"}, NoneInterrupted,
         Aware(thread[t])', Ends(t),
         \A u \in Universe, s \in Session :
           playlistState'[u] = "Interrupted" /\ LastSession(u, s) /\ Deciding(thread[t], s) =>
             Deciding(thread[t], s)' \/ s \in relayed'
  PROVE  /\ Unregistering(t)
         /\ \A s : Stops(thread[t], s) => s = thread[t].session
<1>1. thread[t].victims = {} /\ thread[t].ret # "onFinish"
  BY BaseFacts DEF Finishing, Parting, Notifying, Aware, Performing
<1>2. \A s : Stops(thread[t], s) => s = thread[t].session
  BY <1>1 DEF Stops
<1>3. \A u : ~Marking(thread[t], u)
  BY DEF Marking, Finishing, Parting
<1>4. Attends(t)
  BY <1>3 DEF Attends, NoneInterrupted
<1>5. StaysOn(t)
  BY DEF StaysOn, Finishing, Parting
<1> QED
  BY <1>2, <1>4, <1>5 DEF Unregistering

\* What the loop knows of a session it ends.
LEMMA EndingKnows ==
  ASSUME Base, NEW t \in Thread, thread[t].pc \in Finishing \cup Parting
  PROVE  /\ thread[t].session \in Session
         /\ thread[t].universe = sessions[thread[t].session].universe /\ thread[t].universe \in Universe
         /\ thread[t].pc \in Parting => ~Listed(thread[t].session)
         /\ thread[t].ret # "onFinish"
         /\ thread[t].pc \in {"clearCancelled", "finishCancelled"} => Cancelled(thread[t].session)
<1>1. thread[t] \in ThreadRecord /\ Aware(thread[t]) /\ Proper(t) /\ Knows(thread[t], Session)
  BY BaseFacts
<1>2. thread[t].universe \in Universe /\ thread[t].ret # "onFinish"
  BY <1>1 DEF ThreadRecord, Aware, Performing, Finishing, Parting
<1>3. thread[t].pc \in Finishing => thread[t].session \in Session
  BY <1>1 DEF Knows, OnSession
<1>4. thread[t].pc \in Finishing => thread[t].universe = sessions[thread[t].session].universe
  BY <1>1 DEF Proper
<1>5. thread[t].pc \in Parting => Over(thread[t].session, thread[t].universe)
  BY <1>1 DEF Aware
<1>6. thread[t].pc \in {"clearCancelled", "finishCancelled"} => Cancelled(thread[t].session)
  BY <1>1 DEF Proper
<1> QED
  BY <1>2, <1>3, <1>4, <1>5, <1>6 DEF Over

\* The loop takes the session it ends off its list.
LEMMA ClearsSettle ==
  ASSUME Base, Onward, PlaybackInv', ClearCancelled \/ FinishCancelled \/ FinishClear
  PROVE  SettleInv'
<1>1. PICK t \in Thread : t = Loop
  BY DEF Thread
<1>2. PICK pc \in {"cancelledDone", "after", "queue"} :
        /\ ClearSession(thread[t].universe, thread[t].session) /\ Jump(t, pc) /\ UNCHANGED <<streaming, activity>>
        /\ \/ thread[t].pc = "clearCancelled" /\ pc = "cancelledDone"
           \/ thread[t].pc = "finishCancelled" /\ pc = "after"
           \/ thread[t].pc = "clear" /\ pc = "queue"
  BY <1>1 DEF ClearCancelled, FinishCancelled, FinishClear, At, creatureVars
<1>3. thread[t].pc \in Finishing
  BY <1>2 DEF Finishing
<1>4. PICK s0 \in Session : s0 = thread[t].session
  BY <1>3, EndingKnows
<1>5. PICK u \in Universe : u = thread[t].universe /\ u = sessions[s0].universe
  BY <1>3, <1>4, EndingKnows
<1>6. /\ thread[t].ret # "onFinish" /\ TypeOK /\ ThreadsTyped /\ Aware(thread[t])
      /\ thread[t].pc \in {"clearCancelled", "finishCancelled"} => Cancelled(s0)
  BY <1>3, <1>4, EndingKnows, BaseFacts
<1>7. UNCHANGED <<sessions, playlistState>> /\ active' = [active EXCEPT ![u] = @ \ {s0}]
  BY <1>2, <1>4, <1>5 DEF ClearSession
<1>8. Session' = Session /\ NoneInterrupted /\ ~Listed(s0)'
  BY <1>4, <1>5, <1>6, <1>7 DEF Session, NoneInterrupted, TypeOK, Listed
<1>9. /\ Beside(t) /\ thread'[t].pc = pc /\ thread'[t].session = s0 /\ thread'[t].universe = u
      /\ thread'[t].ret = thread[t].ret
  BY <1>2, <1>4, <1>5, <1>6, OneThreadJumps
<1>10. PICK q : q = thread'[t]
  OBVIOUS
<1>11. Over(s0, u)'
  BY <1>5, <1>7, <1>8 DEF Over
<1>12. Aware(thread[t])'
  <2>1. CASE pc = "cancelledDone"
    <3>1. s0 \in finished /\ Cancelled(s0)
      BY <1>2, <1>4, <1>6, <2>1 DEF Aware
    <3>2. s0 \in finished' /\ Cancelled(s0)'
      BY <3>1 DEF Onward
    <3> QED
      BY <1>6, <1>8, <1>9, <1>10, <2>1, <3>2 DEF Aware, Parting, Switching
  <2>2. CASE pc # "cancelledDone"
    BY <1>2, <1>6, <1>9, <1>10, <1>11, <2>2 DEF Aware, Parting, Switching
  <2> QED
    BY <2>1, <2>2
<1>13. Ends(t)
  <2>1. Cancelled(s0) \/ Deciding(thread[t], s0)'
    BY <1>2, <1>6, <1>9 DEF Deciding
  <2> QED
    BY <1>4, <1>8, <2>1 DEF Ends
<1>14. \A s : ~Deciding(thread[t], s)
  BY <1>2 DEF Deciding
<1>15. /\ Unregistering(t)
       /\ \A s : Stops(thread[t], s) => s = s0
  BY <1>3, <1>4, <1>8, <1>9, <1>12, <1>13, <1>14, EndingStep
<1>16. Hands(t, {})
  <2>1. ASSUME Stops(thread[t], s0)
        PROVE  Stops(thread[t], s0)'
    <3>1. CASE pc # "cancelledDone"
      BY <1>2, <1>9, <3>1 DEF Stops, Parting
    <3>2. CASE pc = "cancelledDone"
      <4>1. thread[t].victims = {} /\ thread[t].pc = "clearCancelled"
        BY <1>2, <3>2, BaseFacts DEF Notifying
      <4>2. ~sessions[s0].notified
        BY <1>6, <2>1, <4>1 DEF Stops, Parting
      <4> QED
        BY <1>7, <1>9, <3>2, <4>2 DEF Stops
    <3> QED
      BY <3>1, <3>2
  <2> QED
    BY <1>15, <2>1 DEF Hands
<1> QED
  BY <1>2, <1>15, <1>16, QuietStep

\* It decides how to end it.
LEMMA DecisionSettles ==
  ASSUME Base, Onward, PlaybackInv', OnFinish
  PROVE  SettleInv'
<1>1. PICK t \in Thread : t = Loop
  BY DEF Thread
<1>2. PICK pc \in {"finishCancelled", "clear"} :
        Jump(t, pc) /\ thread[t].pc = "onFinish" /\ UNCHANGED <<smVars, streaming, activity>>
  BY <1>1 DEF OnFinish, At, creatureVars
<1>3. thread[t].pc \in Finishing
  BY <1>2 DEF Finishing
<1>4. Session' = Session /\ NoneInterrupted /\ thread[t].ret # "onFinish" /\ ThreadsTyped
  BY <1>2, <1>3, RegistryIsStill, EndingKnows, BaseFacts
<1>5. /\ Beside(t) /\ thread'[t].pc = pc /\ thread'[t].session = thread[t].session
      /\ thread'[t].ret = thread[t].ret
  BY <1>2, <1>4, OneThreadJumps
<1>6. Aware(thread[t])'
  BY <1>4, <1>5, InnocentIsAware DEF Innocent, Parting, Switching
<1>7. Ends(t)
  BY <1>2, <1>5 DEF Ends, smVars, Listed
<1>8. \A s : ~Deciding(thread[t], s)
  BY <1>2 DEF Deciding
<1>9. /\ Unregistering(t)
      /\ \A s : Stops(thread[t], s) => s = thread[t].session
  BY <1>3, <1>4, <1>5, <1>6, <1>7, <1>8, EndingStep
<1>10. Hands(t, {})
  <2>1. ASSUME NEW s, s = thread[t].session
        PROVE  Stops(thread[t], s)'
    BY <1>5, <2>1 DEF Stops
  <2> QED
    BY <1>9, <2>1 DEF Hands
<1> QED
  BY <1>2, <1>9, <1>10, QuietStep

\* The steps after that, but for the last.
LEMMA PartingJump ==
  ASSUME Base, Onward, PlaybackInv', UNCHANGED <<sessions, streaming, activity>>, NEW t \in Thread,
         thread[t].pc \in Parting \ {"toIdle"}, NEW pc \in Parting, Jump(t, pc), NoneInterrupted,
         pc \in {"queue", "interrupted?", "consume"} \/ thread[t].pc \in {"resumed", "chain", "after"}
           \/ playlistState'[thread[t].universe] # "Interrupted"
  PROVE  SettleInv'
<1>1. Session' = Session /\ ThreadsTyped
  BY BaseFacts DEF Session
<1>2. PICK s0 \in Session : s0 = thread[t].session
  BY EndingKnows
<1>3. PICK u \in Universe : u = thread[t].universe /\ u = sessions[s0].universe
  BY <1>2, EndingKnows
<1>4. /\ Beside(t) /\ thread'[t].pc = pc /\ thread'[t].session = s0
      /\ thread'[t].universe = u /\ thread'[t].ret = thread[t].ret
  BY <1>1, <1>2, <1>3, OneThreadJumps
<1>5. Over(s0, u)' /\ thread[t].ret # "onFinish"
  BY <1>2, <1>3, EndingKnows DEF Over, Onward
<1>6. Aware(thread[t])'
  BY <1>4, <1>5 DEF Aware, Parting, Switching
<1>7. Ends(t)
  BY DEF Ends, Finishing, Parting
<1>8. ASSUME NEW v \in Universe, NEW s \in Session,
             playlistState'[v] = "Interrupted", LastSession(v, s), Deciding(thread[t], s)
      PROVE  Deciding(thread[t], s)'
  <2>1. s = s0 /\ v = u /\ thread[t].pc \in {"queue", "interrupted?", "consume"}
    BY <1>2, <1>3, <1>8 DEF Deciding, LastSession
  <2>2. pc \in {"queue", "interrupted?", "consume"}
    BY <1>3, <1>8, <2>1
  <2> QED
    BY <1>4, <2>1, <2>2 DEF Deciding
<1>9. /\ Unregistering(t)
      /\ \A s : Stops(thread[t], s) => s = s0
  BY <1>1, <1>2, <1>4, <1>6, <1>7, <1>8, EndingStep
<1>10. Hands(t, {})
  <2>1. Stops(thread[t], s0)'
    BY <1>4 DEF Stops
  <2> QED
    BY <1>9, <2>1 DEF Hands
<1> QED
  BY <1>9, <1>10, QuietStep

LEMMA PartingSettles ==
  ASSUME Base, Onward, PlaybackInv',
         FinishNothingQueued \/ FinishInterrupted \/ FinishConsume \/ FinishResumed \/ FinishChain
  PROVE  SettleInv'
<1>1. PICK t \in Thread : t = Loop
  BY DEF Thread
<1>2. PICK u \in Universe : u = thread[t].universe
  BY BaseFacts DEF ThreadRecord
<1>3. TypeOK /\ UNCHANGED <<sessions, streaming, activity>> /\ thread[t].pc \in Parting \ {"toIdle", "after"}
  BY <1>1, BaseFacts DEF FinishNothingQueued, FinishInterrupted, FinishConsume, FinishResumed, FinishChain,
     ConsumeResume, ResumePlaylist, ConsumeDecline, smVars, creatureVars, At, Parting
<1>4. CASE FinishNothingQueued
  <2>1. Jump(t, "interrupted?") /\ UNCHANGED playlistState
    BY <1>1, <1>4 DEF FinishNothingQueued, smVars
  <2> QED
    BY <1>3, <2>1, PartingJump DEF Parting, NoneInterrupted
<1>5. CASE FinishInterrupted
  <2>1. /\ Jump(t, IF playlistState[u] = "Interrupted" THEN "consume" ELSE "chain") /\ UNCHANGED playlistState
    BY <1>1, <1>2, <1>5 DEF FinishInterrupted, smVars
  <2> QED
    BY <1>2, <1>3, <2>1, PartingJump DEF Parting, NoneInterrupted
<1>6. CASE FinishConsume
  <2>1. PICK pc \in {"resumed", "after"} : /\ Jump(t, pc)
                                           /\ ConsumeResume(u) \/ ConsumeDecline(u)
                                                \/ (playlistState[u] # "Interrupted" /\ UNCHANGED smVars)
    BY <1>1, <1>2, <1>6 DEF FinishConsume
  <2>2. NoneInterrupted /\ playlistState'[u] # "Interrupted"
    BY <1>3, <2>1 DEF ConsumeResume, ResumePlaylist, ConsumeDecline, smVars, NoneInterrupted, TypeOK
  <2> QED
    BY <1>2, <1>3, <2>1, <2>2, PartingJump DEF Parting
<1>7. CASE FinishResumed \/ FinishChain
  <2>1. Jump(t, "after") /\ UNCHANGED playlistState /\ thread[t].pc \in {"resumed", "chain"}
    BY <1>1, <1>7 DEF FinishResumed, FinishChain, smVars, At
  <2> QED
    BY <1>3, <2>1, PartingJump DEF Parting, NoneInterrupted
<1> QED
  BY <1>4, <1>5, <1>6, <1>7

\* The finish of a session goes to queued speech.
LEMMA RelaySettles ==
  ASSUME Base, Onward, PlaybackInv', FinishQueued
  PROVE  SettleInv'
<1>1. PICK t \in Thread : t = Loop
  BY DEF Thread
<1>2. PICK r \in ThreadRecord : r = thread[t]
  BY BaseFacts
<1>3. /\ r.pc = "queue" /\ UNCHANGED <<sessions, playlistState, streaming, activity>>
      /\ relayed' = relayed \cup {r.session}
      /\ thread' = [thread EXCEPT ![t] = [r EXCEPT !.pc = "schedule", !.animation = Head(queue[r.universe]),
                              !.reason = "AdHoc", !.before = r.session, !.session = 0, !.ret = "onFinish"]]
  BY <1>1, <1>2 DEF FinishQueued, At, Goto, PopQueuedAnimation, creatureVars
<1>4. PICK q : q = [r EXCEPT !.pc = "schedule", !.animation = Head(queue[r.universe]),
                             !.reason = "AdHoc", !.before = r.session, !.session = 0, !.ret = "onFinish"]
  OBVIOUS
<1>5. q.pc = "schedule" /\ q.before = r.session /\ q.ret = "onFinish" /\ q.universe = r.universe
  BY <1>4 DEF ThreadRecord
<1>6. thread'[t] = q /\ Beside(t)
  BY <1>3, <1>4, BaseFacts, OneThreadMoves
<1>7. PICK s0 \in Session : s0 = r.session
  BY <1>2, <1>3, EndingKnows DEF Parting
<1>8. Over(s0, r.universe)'
  BY <1>2, <1>3, <1>7, EndingKnows DEF Parting, Over, Onward
<1>9. Session' = Session /\ NoneInterrupted
  BY <1>3 DEF Session, NoneInterrupted
<1>10. Aware(thread[t])'
  BY <1>5, <1>6, <1>7, <1>8 DEF Aware, Performing, Parting, Switching
<1>11. Ends(t)
  BY <1>2, <1>3 DEF Ends, Finishing
<1>12. \A s : Deciding(thread[t], s) => s \in relayed'
  BY <1>2, <1>3 DEF Deciding
<1>13. /\ Unregistering(t)
       /\ \A s : Stops(thread[t], s) => s = thread[t].session
  <2>1. thread[t].pc \in Finishing \cup Parting
    BY <1>2, <1>3 DEF Parting
  <2> QED
    BY <1>6, <1>9, <1>10, <1>11, <1>12, <2>1, EndingStep
<1>14. Hands(t, {})
  <2>1. Stops(thread[t], s0)'
    BY <1>5, <1>6, <1>7 DEF Stops
  <2> QED
    BY <1>2, <1>7, <1>13, <2>1 DEF Hands
<1> QED
  BY <1>3, <1>13, <1>14, QuietStep

\* The last broadcast of a session that is over.
LEMMA LastWriteSettles ==
  ASSUME Base, Onward, PlaybackInv', RunnerToIdle \/ CancelledDone
  PROVE  SettleInv'
<1>1. PICK t \in Thread : t = Loop
  BY DEF Thread
<1>2. /\ thread[t].pc \in {"toIdle", "cancelledDone"} /\ UNCHANGED <<smVars, streaming>>
  BY <1>1 DEF RunnerToIdle, CancelledDone, At
<1>3. Aware(thread[t]) /\ ThreadsTyped /\ thread[t].victims = {}
  BY <1>2, BaseFacts DEF Notifying
<1>4. PICK s0 \in Session : s0 = thread[t].session
  BY <1>2, <1>3 DEF Aware, Parting, Over
<1>5. ~IsLive(s0) /\ (thread[t].pc = "cancelledDone" => Cancelled(s0))
  BY <1>2, <1>3, <1>4 DEF Aware, Parting, Over, IsLive
<1>6. Session' = Session /\ NoneInterrupted
  BY <1>2, RegistryIsStill
<1>7. PICK i, j : /\ i = [Ready EXCEPT !.pc = "idle", !.idles = Creatures(s0)]
                  /\ j = [Ready EXCEPT !.pc = "idle", !.before = s0, !.idles = Creatures(s0)]
  OBVIOUS
<1>8. Innocent(i) /\ Innocent(j) /\ Innocent(Ready)
  <2>1. i.pc = "idle" /\ i.ret = "ready" /\ j.pc = "idle" /\ j.ret = "ready"
    BY <1>7, ReadyTyped DEF ThreadRecord
  <2> QED
    BY <2>1, ReadyTyped DEF Innocent, Parting, Switching
<1>9. PICK q : q \in {i, j, Ready} /\ thread' = [thread EXCEPT ![t] = q]
  BY <1>1, <1>4, <1>7 DEF RunnerToIdle, CancelledDone, Goto
<1>10. Beside(t) /\ Aware(thread[t])'
  BY <1>3, <1>8, <1>9, OneThreadMoves, InnocentIsAware
<1>11. Ends(t) /\ \A s : ~Deciding(thread[t], s)
  BY <1>2 DEF Ends, Finishing, Deciding
<1>12. /\ Unregistering(t)
       /\ \A s : Stops(thread[t], s) => s = s0
  <2>1. thread[t].pc \in Finishing \cup Parting \cup {"cancelledDone"}
    BY <1>2 DEF Parting
  <2> QED
    BY <1>4, <1>6, <1>10, <1>11, <2>1, EndingStep
<1>13. CASE SessionActivity(s0, FALSE)
  <2>1. Hands(t, {s0})
    BY <1>12 DEF Hands
  <2> QED
    BY <1>2, <1>5, <1>12, <1>13, <2>1, StoppedStep
<1>14. CASE UNCHANGED activity /\ thread[t].pc = "cancelledDone" /\ sessions[s0].notified
  <2>1. ~Stops(thread[t], s0)
    <3>1. thread[t].ret # "onFinish"
      BY <1>3, <1>14 DEF Aware, Performing
    <3> QED
      BY <1>3, <1>14, <3>1 DEF Stops, Parting
  <2>2. Hands(t, {})
    BY <1>12, <2>1 DEF Hands
  <2> QED
    BY <1>2, <1>12, <1>14, <2>2, QuietStep
<1> QED
  BY <1>1, <1>4, <1>13, <1>14 DEF RunnerToIdle, CancelledDone, At

\* The runner event that ends a session looks for a new performance: one that drives
\* all of its creatures will say so of each of them.
LEMMA AfterSettles ==
  ASSUME Base, Onward, PlaybackInv', RunnerAfter
  PROVE  SettleInv'
<1>1. PICK t \in Thread : t = Loop
  BY DEF Thread
<1>2. thread[t].pc = "after" /\ UNCHANGED <<smVars, streaming, activity, switched>>
  BY <1>1 DEF RunnerAfter, At, creatureVars
<1>3. PICK s0 \in Session : s0 = thread[t].session /\ ~Listed(s0)
  BY <1>2, EndingKnows DEF Parting
<1>4. PICK u \in Universe : u = thread[t].universe /\ u = sessions[s0].universe
  BY <1>2, <1>3, EndingKnows DEF Parting
<1>5. PICK busy : busy = {c \in Creatures(s0) : HasActiveNonIdleSessionForCreature(u, c)}
  OBVIOUS
<1>6. /\ IF busy # {} THEN Goto(t, Ready) ELSE Jump(t, "toIdle")
      /\ unstopped' = IF busy \in {{}, Creatures(s0)} THEN unstopped ELSE unstopped \cup {s0}
  BY <1>1, <1>3, <1>4, <1>5 DEF RunnerAfter
<1>7. Session' = Session /\ NoneInterrupted
  BY <1>2, RegistryIsStill
<1>8. CASE busy = {}
  BY <1>2, <1>6, <1>7, <1>8, PartingJump DEF Parting, smVars
<1>9. CASE busy # {}
  <2>1. thread'[t] = Ready /\ Beside(t)
    BY <1>6, <1>9, BaseFacts, OneThreadMoves DEF Goto
  <2>2. Aware(thread[t])'
    BY <2>1, ReadyTyped, InnocentIsAware DEF Innocent, Parting, Switching
  <2>3. Ends(t) /\ \A s : ~Deciding(thread[t], s)
    BY <1>2 DEF Ends, Finishing, Deciding
  <2>4. /\ Unregistering(t)
        /\ \A s : Stops(thread[t], s) => s = s0
    <3>1. thread[t].pc \in Finishing \cup Parting
      BY <1>2 DEF Parting
    <3> QED
      BY <1>3, <1>7, <2>1, <2>2, <2>3, <3>1, EndingStep
  <2>5. CASE busy # Creatures(s0)
    <3>1. Hands(t, {})
      BY <1>6, <1>9, <2>4, <2>5 DEF Hands
    <3> QED
      BY <1>2, <2>4, <3>1, QuietStep
  <2>6. CASE busy = Creatures(s0)
    <3>1. ASSUME NEW s \in Session, s # s0, IsLive(s) \/ Owing(s)
          PROVE  IsLive(s)' \/ Owing(s)'
      <4>1. Hands(t, {s0}) /\ s \in Session \ {s0}
        BY <2>4, <3>1 DEF Hands
      <4> QED
        BY <2>1, <2>3, <3>1, <4>1, OwedStays
    <3>2. \A s : Starting(s) => Starting(s)'
      BY <2>1, <2>4, StartingStays DEF Unregistering
    <3>3. ASSUME NEW c \in Creature \ switched', ActivityRight(c)
          PROVE  ActivityRight(c)'
      <4>1. DrivenBy(c)' = DrivenBy(c) /\ DrivenBy(c) \subseteq Session
        BY <1>7, SameDrivers DEF DrivenBy
      <4>2. CASE activity[c].session # s0
        <5>1. \A s \in Session : s = activity[c].session /\ (IsLive(s) \/ Owing(s)) => IsLive(s)' \/ Owing(s)'
          BY <3>1, <4>2
        <5> QED
          BY <1>2, <3>2, <3>3, <4>1, <5>1, ActivityStays
      <4>3. CASE activity[c].session = s0
        <5>1. PICK a : a = activity[c] /\ a = activity'[c]
          BY <1>2
        <5>2. /\ a.session \in {0, a.generation}
              /\ a.generation \in {0} \cup DrivenBy(c)
              /\ \A s \in DrivenBy(c) : IsLive(s) =>
                   (\A r \in DrivenBy(c) : r <= s) /\ (a.session = s \/ Starting(s))
          BY <3>3, <5>1 DEF ActivityRight
        <5>3. s0 # 0 /\ s0 \in DrivenBy(c) /\ Session \subseteq Nat \ {0}
          <6>1. Session \subseteq Nat \ {0}
            BY BaseFacts
          <6> QED
            BY <1>3, <4>3, <5>1, <5>2, <6>1
        <5>4. c \in busy
          BY <2>6, <3>3, <5>3 DEF Creatures, DrivenBy
        <5>5. PICK x \in Live(u) : c \in sessions[x].drives
          BY <1>5, <5>4 DEF HasActiveNonIdleSessionForCreature
        <5>6. x \in DrivenBy(c) /\ IsLive(x)
          <6>1. x \in Session /\ sessions[x].universe = u /\ x \in active[u] /\ ~Cancelled(x)
            BY <1>2, BaseFacts DEF TypeOK, Live
          <6> QED
            BY <5>5, <6>1 DEF DrivenBy, IsLive, Listed
        <5>7. s0 <= x /\ x # s0
          BY <1>3, <5>2, <5>3, <5>6 DEF IsLive
        <5>8. x > s0 /\ Starting(x)'
          <6>1. x \in Nat /\ s0 \in Nat
            BY <4>1, <5>3, <5>6
          <6>2. Starting(x)
            BY <4>3, <5>1, <5>2, <5>6, <5>7
          <6> QED
            BY <3>2, <5>7, <6>1, <6>2
        <5>9. ASSUME NEW s \in DrivenBy(c)', IsLive(s)'
              PROVE  (\A r \in DrivenBy(c)' : r <= s) /\ (a.session = s \/ Starting(s)')
          <6>1. s \in DrivenBy(c) /\ IsLive(s)
            BY <4>1, <5>9 DEF IsLive, Onward
          <6> QED
            BY <3>2, <4>1, <5>2, <6>1
        <5>10. x \in DrivenBy(c)' /\ a.session = s0
          BY <4>1, <4>3, <5>1, <5>6
        <5>11. Reached(c)'
          BY <3>2, <3>3, <4>1, <5>1 DEF ActivityRight, Reached
        <5> QED
          BY <4>1, <5>1, <5>2, <5>8, <5>9, <5>10, <5>11 DEF ActivityRight
      <4> QED
        BY <4>2, <4>3
    <3>4. ActivityTyped' /\ streaming' \subseteq switched'
      BY <1>1, <1>2, BaseFacts DEF ActivityTyped
    <3> QED
      BY <1>7, <2>1, <2>2, <2>3, <2>4, <3>3, <3>4, SettleStep DEF Unregistering
  <2> QED
    BY <2>5, <2>6
<1> QED
  BY <1>8, <1>9

-----------------------------------------------------------------------------
(* Playlist events, and the end of a stream.                               *)

LEMMA InnocentStep ==
  ASSUME Base, Onward, PlaybackInv', Session' = Session, NEW t \in Thread, Carefree(thread[t]), NoneInterrupted,
         UNCHANGED <<streaming, activity>>, NEW q, Goto(t, q), Innocent(q)
  PROVE  SettleInv'
<1>1. Beside(t) /\ Aware(thread[t])'
  BY BaseFacts, OneThreadMoves, InnocentIsAware DEF Goto
<1> QED
  BY <1>1, CarefreeStep

LEMMA InnocentJump ==
  ASSUME Base, NEW t \in Thread, thread[t].ret # "onFinish", NEW pc, Jump(t, pc),
         pc \notin Parting \cup Switching \cup {"abort", "unwound", "clearCancelled", "cancelledDone"}
  PROVE  \E q : Goto(t, q) /\ Innocent(q)
<1>1. PICK q : q = [thread[t] EXCEPT !.pc = pc]
  OBVIOUS
<1>2. q.pc = pc /\ q.ret = thread[t].ret
  BY <1>1, BaseFacts DEF ThreadRecord
<1>3. Goto(t, q)
  BY <1>1, BaseFacts DEF Goto, Jump, ThreadsTyped
<1> QED
  BY <1>2, <1>3 DEF Innocent

LEMMA EventsSettle ==
  ASSUME Base, Onward, PlaybackInv',
         \/ \E u \in Universe : TakePlaylistEvent(u)
         \/ PlaylistBusy \/ PlaylistChoose \/ PlaylistUnreadable \/ PlaylistBackstop \/ PlaylistUpdateStatus
  PROVE  SettleInv'
<1>1. PICK t \in Thread : t = Loop
  BY DEF Thread
<1>2. /\ thread[t].pc \in {"ready", "busy?", "choose", "backstop", "status"}
      /\ UNCHANGED <<sessions, streaming, activity>>
  BY <1>1 DEF TakePlaylistEvent, PlaylistBusy, PlaylistChoose, PlaylistUnreadable, PlaylistBackstop,
     PlaylistUpdateStatus, SetPlaylistStatus, smVars, creatureVars, At
<1>3. Carefree(thread[t]) /\ thread[t].ret # "onFinish"
  BY <1>2, IsCarefree DEF Notifying, Performing, Finishing, Parting
<1>4. Session' = Session
  BY <1>2 DEF Session
<1>5. NoneInterrupted
  BY BaseFacts DEF TakePlaylistEvent, PlaylistBusy, PlaylistChoose, PlaylistUnreadable, PlaylistBackstop,
     PlaylistUpdateStatus, SetPlaylistStatus, smVars, NoneInterrupted, TypeOK
<1>6. ASSUME NEW q, Goto(t, q), Innocent(q)
      PROVE  SettleInv'
  BY <1>2, <1>3, <1>4, <1>5, <1>6, InnocentStep
<1>7. ASSUME NEW pc \in {"choose", "clearPlaylist", "status"}, Jump(t, pc)
      PROVE  SettleInv'
  <2>1. pc \notin Parting \cup Switching \cup {"abort", "unwound", "clearCancelled", "cancelledDone"}
    BY DEF Parting, Switching
  <2> QED
    BY <1>3, <1>6, <1>7, <2>1, InnocentJump
<1>8. Innocent(Ready)
  BY ReadyTyped DEF Innocent, Parting, Switching
<1>9. CASE \E u \in Universe : TakePlaylistEvent(u)
  <2>1. PICK u \in Universe : TakePlaylistEvent(u)
    BY <1>9
  <2>2. PICK x : x = [Ready EXCEPT !.pc = "clearPlaylist", !.universe = u]
    OBVIOUS
  <2>3. PICK y : y = [Ready EXCEPT !.pc = "busy?", !.universe = u]
    OBVIOUS
  <2>4. Innocent(x) /\ Innocent(y)
    <3>1. x.pc = "clearPlaylist" /\ x.ret = "ready" /\ y.pc = "busy?" /\ y.ret = "ready"
      BY <2>2, <2>3, ReadyTyped DEF ThreadRecord
    <3> QED
      BY <3>1 DEF Innocent, Parting, Switching
  <2>5. playlistState[u] \in PlaylistState
    BY BaseFacts DEF TypeOK
  <2>6. Goto(t, x) \/ Goto(t, Ready) \/ Goto(t, y)
    BY <1>1, <2>1, <2>2, <2>3, <2>5 DEF TakePlaylistEvent, PlaylistState
  <2> QED
    BY <1>6, <1>8, <2>4, <2>6
<1>10. CASE PlaylistBusy
  <2>1. Goto(t, Ready) \/ Goto(t, [thread[t] EXCEPT !.pc = "choose"])
    BY <1>1, <1>10 DEF PlaylistBusy
  <2>2. CASE Goto(t, [thread[t] EXCEPT !.pc = "choose"])
    <3>1. Jump(t, "choose")
      BY <2>2, BaseFacts DEF Goto, Jump, ThreadsTyped
    <3> QED
      BY <1>7, <3>1
  <2> QED
    BY <1>6, <1>8, <2>1, <2>2
<1>11. CASE PlaylistChoose
  <2>1. PICK r \in ThreadRecord : r = thread[t]
    BY BaseFacts
  <2>2. PICK a, status : Goto(t, [r EXCEPT !.pc = "schedule", !.animation = a, !.reason = "Playlist",
                                           !.ret = "playlist", !.status = status])
    BY <1>1, <1>11, <2>1 DEF PlaylistChoose
  <2>3. PICK q : q = [r EXCEPT !.pc = "schedule", !.animation = a, !.reason = "Playlist",
                               !.ret = "playlist", !.status = status]
    OBVIOUS
  <2>4. q.pc = "schedule" /\ q.ret = "playlist"
    BY <2>3 DEF ThreadRecord
  <2>5. Innocent(q)
    BY <2>4 DEF Innocent, Parting, Switching
  <2> QED
    BY <1>6, <2>2, <2>3, <2>5
<1>12. CASE PlaylistUnreadable \/ PlaylistBackstop
  BY <1>1, <1>7, <1>12 DEF PlaylistUnreadable, PlaylistBackstop
<1>13. CASE PlaylistUpdateStatus
  <2>1. PICK u, i : Goto(t, [Ready EXCEPT !.pc = "idle", !.universe = u, !.idles = i])
    BY <1>1, <1>13 DEF PlaylistUpdateStatus
  <2>2. PICK q : q = [Ready EXCEPT !.pc = "idle", !.universe = u, !.idles = i]
    OBVIOUS
  <2>3. q.pc = "idle" /\ q.ret = "ready"
    BY <2>2, ReadyTyped DEF ThreadRecord
  <2>4. Innocent(q)
    BY <2>3 DEF Innocent, Parting, Switching
  <2> QED
    BY <1>6, <2>1, <2>2, <2>4
<1> QED
  BY <1>9, <1>10, <1>11, <1>12, <1>13

\* A carefree step that may write the activity of creatures that were switched.
LEMMA SwitchStep ==
  ASSUME Base, Onward, PlaybackInv', Session' = Session, NEW t \in Thread, Beside(t), Carefree(thread[t]),
         Aware(thread[t])', NoneInterrupted, ActivityTyped', streaming' \subseteq switched',
         \A c \in Creature \ switched' : activity'[c] = activity[c]
  PROVE  SettleInv'
<1>1. StaysOn(t) /\ Ends(t) /\ Attends(t) /\ Hands(t, {})
  BY CarefreeMoves
<1>2. Unregistering(t)
  BY <1>1 DEF Unregistering
<1> QED
  BY <1>1, <1>2, UnsaidStep

LEMMA ExpirySettles ==
  ASSUME Base, Onward, PlaybackInv', (\E c \in Creature : StreamExpires(c)) \/ StreamStopped
  PROVE  SettleInv'
<1>1. PICK t \in Thread : t = Loop
  BY DEF Thread
<1>2. thread[t].pc \in {"ready", "expired"} /\ UNCHANGED <<smVars, switched>>
  BY <1>1 DEF StreamExpires, StreamStopped, At, eventVars, chainVars, pastVars
<1>3. Carefree(thread[t]) /\ thread[t].ret # "onFinish"
  BY <1>2, IsCarefree DEF Notifying, Performing, Finishing, Parting
<1>4. Session' = Session /\ NoneInterrupted
  BY <1>2, RegistryIsStill
<1>5. ActivityTyped /\ streaming \subseteq switched /\ Aware(thread[t]) /\ ThreadsTyped /\ thread[t] \in ThreadRecord
  BY BaseFacts
<1>6. CASE \E c \in Creature : StreamExpires(c)
  <2>1. PICK c \in Creature : StreamExpires(c)
    BY <1>6
  <2>2. PICK q : q = [Ready EXCEPT !.pc = "expired", !.idles = {c}]
    OBVIOUS
  <2>3. q.pc = "expired" /\ q.idles = {c} /\ q.ret = "ready"
    BY <2>2, ReadyTyped DEF ThreadRecord
  <2>4. thread'[t] = q /\ Beside(t)
    BY <1>1, <1>5, <2>1, <2>2, OneThreadMoves DEF StreamExpires, Goto
  <2>5. c \in switched'
    BY <1>2, <1>5, <2>1 DEF StreamExpires
  <2>6. Aware(thread[t])'
    BY <2>3, <2>4, <2>5 DEF Aware, Parting
  <2>7. ActivityTyped' /\ streaming' \subseteq switched' /\ UNCHANGED activity
    BY <1>2, <1>5, <2>1 DEF StreamExpires, ActivityTyped
  <2> QED
    BY <1>3, <1>4, <2>4, <2>6, <2>7, SwitchStep
<1>7. CASE StreamStopped
  <2>1. /\ thread[t].pc = "expired" /\ SetActivity(thread[t].idles, 0, 0, FALSE) /\ Jump(t, "idle")
        /\ UNCHANGED streaming
    BY <1>1, <1>7 DEF StreamStopped, At
  <2>2. thread[t].idles \subseteq switched'
    BY <1>2, <1>5, <2>1 DEF Aware, Switching
  <2>3. \A c \in Creature \ switched' : activity'[c] = activity[c]
    BY <2>1, <2>2 DEF SetActivity
  <2>4. ActivityTyped' /\ streaming' \subseteq switched'
    BY <1>2, <1>5, <2>1, SetActivityTyped
  <2>5. Beside(t) /\ Aware(thread[t])'
    <3>1. PICK q : Goto(t, q) /\ Innocent(q)
      BY <1>3, <2>1, InnocentJump DEF Parting, Switching
    <3> QED
      BY <1>5, <3>1, OneThreadMoves, InnocentIsAware DEF Goto
  <2> QED
    BY <1>3, <1>4, <2>3, <2>4, <2>5, SwitchStep
<1> QED
  BY <1>6, <1>7

-----------------------------------------------------------------------------
(* The requests.                                                           *)

LEMMA ArrivesReady ==
  ASSUME Base, NEW t \in Thread, NEW kind, Arrives(t, kind)
  PROVE  thread[t].pc = "ready" /\ Carefree(thread[t]) /\ thread[t].ret # "onFinish"
BY IsCarefree DEF Arrives, At, Notifying, Performing, Finishing, Parting

LEMMA PlayRequestsSettle ==
  ASSUME Base, Onward, PlaybackInv', NEW t \in Rest, NEW u \in Universe, NEW a,
         RequestPlay(t, u, a) \/ RequestInterruptIdle(t, u, a) \/ RequestQueue(t, u, a)
  PROVE  SettleInv'
<1>1. t \in Thread /\ UNCHANGED <<sessions, playlistState, streaming, activity>>
  BY DEF Thread, RequestPlay, RequestInterruptIdle, RequestQueue, QueueAnimation, smVars, creatureVars
<1>2. thread[t].pc = "ready" /\ Carefree(thread[t]) /\ thread[t].ret # "onFinish"
  BY <1>1, ArrivesReady DEF RequestPlay, RequestInterruptIdle, RequestQueue
<1>3. Session' = Session /\ NoneInterrupted
  BY <1>1 DEF Session, NoneInterrupted
<1>4. CASE RequestQueue(t, u, a)
  <2>1. Innocent(thread'[t]) /\ Beside(t)
    BY <1>2, <1>4 DEF RequestQueue, Innocent, Parting, Switching, Beside
  <2>2. Aware(thread[t])'
    BY <1>1, <2>1, InnocentIsAware
  <2> QED
    BY <1>1, <1>2, <1>3, <2>1, <2>2, CarefreeStep
<1>5. CASE RequestPlay(t, u, a) \/ RequestInterruptIdle(t, u, a)
  <2>1. PICK reason : Goto(t, ToSchedule(u, a, reason, FALSE, "ready"))
    BY <1>5 DEF RequestPlay, RequestInterruptIdle
  <2>2. PICK q : q = ToSchedule(u, a, reason, FALSE, "ready")
    OBVIOUS
  <2>3. Innocent(q)
    <3>1. q.pc = "schedule" /\ q.ret = "ready"
      BY <2>2, ReadyTyped DEF ToSchedule, ThreadRecord
    <3> QED
      BY <3>1 DEF Innocent, Parting, Switching
  <2> QED
    BY <1>1, <1>2, <1>3, <2>1, <2>2, <2>3, InnocentStep
<1> QED
  BY <1>4, <1>5

\* An interruption awaits the session that it is about to schedule.
LEMMA InterruptionSettles ==
  ASSUME Base, Onward, PlaybackInv', NEW t \in Rest, NEW u \in Universe, NEW a, NEW resume,
         RequestInterrupt(t, u, a, resume)
  PROVE  SettleInv'
<1>1. t \in Thread /\ UNCHANGED <<sessions, streaming, activity>>
  BY DEF Thread, RequestInterrupt, InterruptMark, smVars, creatureVars
<1>2. Carefree(thread[t])
  BY <1>1, ArrivesReady DEF RequestInterrupt
<1>3. Session' = Session
  BY <1>1 DEF Session
<1>4. CASE InterruptMark(u, resume) /\ Goto(t, ToSchedule(u, a, "AdHoc", TRUE, "interrupt"))
  <2>1. PICK q : q = ToSchedule(u, a, "AdHoc", TRUE, "interrupt")
    OBVIOUS
  <2>2. q.pc = "schedule" /\ q.ret = "interrupt" /\ q.universe = u
    BY <2>1, ReadyTyped DEF ToSchedule, ThreadRecord
  <2>3. thread'[t] = q /\ Beside(t)
    BY <1>1, <1>4, <2>1, BaseFacts, OneThreadMoves DEF Goto
  <2>4. Aware(thread[t])'
    BY <1>1, <2>2, <2>3, InnocentIsAware DEF Innocent, Parting, Switching
  <2>5. Awaited(u)'
    <3>1. Marking(thread[t], u)'
      BY <2>2, <2>3 DEF Marking
    <3> QED
      BY <1>1, <3>1 DEF Awaited
  <2>6. thread[t].ret # "onFinish" /\ thread[t].pc = "ready"
    BY <1>1, ArrivesReady DEF RequestInterrupt
  <2>7. /\ \A s : ~Stops(thread[t], s) /\ ~Deciding(thread[t], s)
        /\ \A v : ~Marking(thread[t], v)
    BY <1>2, <2>6 DEF Stops, Deciding, Marking, Carefree, Parting
  <2>8. \A v \in Universe : v # u => playlistState'[v] = playlistState[v]
    BY <1>4, BaseFacts DEF InterruptMark, TypeOK
  <2>9. StaysOn(t) /\ Ends(t) /\ Attends(t) /\ Hands(t, {})
    BY <2>5, <2>6, <2>7, <2>8 DEF StaysOn, Ends, Attends, Hands, Finishing
  <2>10. Unregistering(t)
    BY <1>3, <2>3, <2>4, <2>9 DEF Unregistering
  <2> QED
    BY <1>1, <2>9, <2>10, QuietStep
<1>5. CASE Goto(t, ToSchedule(u, a, "AdHoc", TRUE, "ready")) /\ UNCHANGED smVars
  <2>1. PICK q : q = ToSchedule(u, a, "AdHoc", TRUE, "ready")
    OBVIOUS
  <2>2. Innocent(q)
    <3>1. q.pc = "schedule" /\ q.ret = "ready"
      BY <2>1, ReadyTyped DEF ToSchedule, ThreadRecord
    <3> QED
      BY <3>1 DEF Innocent, Parting, Switching
  <2>3. NoneInterrupted
    BY <1>5 DEF smVars, NoneInterrupted
  <2> QED
    BY <1>1, <1>2, <1>3, <1>5, <2>1, <2>2, <2>3, InnocentStep
<1> QED
  BY <1>4, <1>5 DEF RequestInterrupt

\* Its failure takes the mark back.
LEMMA RollbackSettles ==
  ASSUME Base, Onward, PlaybackInv', NEW t \in Rest, InterruptFailed(t)
  PROVE  SettleInv'
<1>1. t \in Thread /\ thread[t].pc = "undo" /\ UNCHANGED <<sessions, streaming, activity>> /\ Goto(t, Ready)
  BY DEF Thread, InterruptFailed, InterruptUndo, smVars, creatureVars, At
<1>2. PICK u \in Universe : u = thread[t].universe
  BY <1>1, BaseFacts DEF ThreadRecord
<1>3. Session' = Session
  BY <1>1 DEF Session
<1>4. NoneInterrupted /\ playlistState'[u] # "Interrupted"
  BY <1>1, <1>2, BaseFacts DEF InterruptFailed, InterruptUndo, smVars, NoneInterrupted, TypeOK
<1>5. Beside(t) /\ Aware(thread[t])'
  BY <1>1, BaseFacts, OneThreadMoves, ReadyTyped, InnocentIsAware DEF Goto, Innocent, Parting, Switching
<1>6. thread[t].victims = {} /\ thread[t].ret # "onFinish"
  BY <1>1, BaseFacts DEF Notifying, Aware, Performing
<1>7. \A s : ~Stops(thread[t], s) /\ ~Deciding(thread[t], s)
  BY <1>1, <1>6 DEF Stops, Deciding, Parting
<1>8. \A v : Marking(thread[t], v) => v = u
  BY <1>2 DEF Marking
<1>9. StaysOn(t) /\ Ends(t) /\ Attends(t) /\ Hands(t, {})
  BY <1>1, <1>4, <1>7, <1>8 DEF StaysOn, Ends, Attends, Hands, Finishing, NoneInterrupted
<1>10. Unregistering(t)
  BY <1>3, <1>5, <1>9 DEF Unregistering
<1> QED
  BY <1>1, <1>9, <1>10, QuietStep

LEMMA StartRequestsSettle ==
  ASSUME Base, Onward, PlaybackInv', NEW t \in Rest,
         \/ \E u \in Universe, p \in Playlist : RequestStart(t, u, p)
         \/ StartCancels(t) \/ StartStarts(t) \/ StartStatus(t)
  PROVE  SettleInv'
<1>1. /\ t \in Thread /\ thread[t].pc \in {"ready", "cancel", "start playlist", "start status"}
      /\ UNCHANGED <<streaming, activity>>
  BY DEF Thread, RequestStart, Arrives, StartCancels, StartStarts, StartStatus, creatureVars, At
<1>2. Carefree(thread[t]) /\ thread[t].ret # "onFinish"
  BY <1>1, IsCarefree DEF Notifying, Performing, Finishing, Parting
<1>3. PICK r \in ThreadRecord : r = thread[t]
  BY <1>1, BaseFacts
<1>4. NoneInterrupted
  BY <1>1, BaseFacts DEF RequestStart, StartCancels, CancelDirect, StartStarts, StartPlaylist, StartStatus,
     SetPlaylistStatus, smVars, NoneInterrupted, TypeOK
<1>5. ASSUME NEW q, Goto(t, q), Innocent(q), Session' = Session
      PROVE  SettleInv'
  BY <1>1, <1>2, <1>4, <1>5, InnocentStep
<1>6. CASE \E u \in Universe, p \in Playlist : RequestStart(t, u, p)
  <2>1. PICK u \in Universe, p \in Playlist : RequestStart(t, u, p)
    BY <1>6
  <2>2. PICK q : q = [Ready EXCEPT !.pc = "start playlist", !.universe = u,
                                   !.status = [playlist |-> p, playing |-> TRUE]]
    OBVIOUS
  <2>3. PICK s : Goto(t, q) \/ Goto(t, [q EXCEPT !.pc = "cancel", !.session = s])
    BY <2>1, <2>2 DEF RequestStart
  <2>4. PICK x : x = [q EXCEPT !.pc = "cancel", !.session = s]
    OBVIOUS
  <2>5. q.pc = "start playlist" /\ q.ret = "ready" /\ x.pc = "cancel" /\ x.ret = "ready"
    BY <2>2, <2>4, ReadyTyped DEF ThreadRecord
  <2>6. Innocent(q) /\ Innocent(x)
    BY <2>5 DEF Innocent, Parting, Switching
  <2>7. Session' = Session
    BY <2>1, RegistryIsStill DEF RequestStart
  <2> QED
    BY <1>5, <2>3, <2>4, <2>6, <2>7
<1>7. CASE StartCancels(t)
  <2>1. CancelDirect(r.session) /\ r.session \in Session
    BY <1>1, <1>3, <1>7, BaseFacts DEF StartCancels, At, OnSession
  <2>2. Session' = Session
    BY <1>1, <2>1, BaseFacts, DirectFlags
  <2>3. PICK q : q = [r EXCEPT !.pc = "start playlist", !.session = 0]
    OBVIOUS
  <2>4. q.pc = "start playlist" /\ q.ret = r.ret
    BY <2>3 DEF ThreadRecord
  <2>5. Goto(t, q)
    BY <1>1, <1>3, <1>7, <2>3, BaseFacts DEF StartCancels, Goto, ThreadsTyped, ThreadRecord
  <2>6. Innocent(q)
    BY <1>2, <1>3, <2>4 DEF Innocent, Parting, Switching
  <2> QED
    BY <1>5, <2>2, <2>5, <2>6
<1>8. CASE StartStarts(t) \/ StartStatus(t)
  <2>1. PICK pc \in {"start status", "retry"} : Jump(t, pc)
    BY <1>8 DEF StartStarts, StartStatus
  <2>2. PICK q : Goto(t, q) /\ Innocent(q)
    BY <1>1, <1>2, <2>1, InnocentJump DEF Parting, Switching
  <2>3. Session' = Session
    BY <1>8 DEF StartStarts, StartStatus, StartPlaylist, SetPlaylistStatus, Session
  <2> QED
    BY <1>5, <2>2, <2>3
<1> QED
  BY <1>6, <1>7, <1>8

\* The requests that drop sessions, and the streams and switches that may
\* write the activity of their creatures.
LEMMA DroppingStays ==
  ASSUME TypeOK, NEW u \in Universe, NEW dead, CancelAndDrop(u, dead)
  PROVE  Session' = Session
BY DroppedFlags

LEMMA StopSettles ==
  ASSUME Base, Onward, PlaybackInv', NEW t \in Thread, thread[t].pc \in {"ready", "stream"},
         Carefree(thread[t]), NEW u \in Universe, NEW pc \in {"clearPlaylist", "mark"}, Stop(t, u, pc),
         pc = "mark" => thread[t].pc = "stream"
  PROVE  SettleInv'
<1>1. PICK r \in ThreadRecord : r = thread[t]
  BY BaseFacts
<1>2. TypeOK /\ ThreadsTyped /\ Aware(r) /\ UNCHANGED <<streaming, activity>>
  BY <1>1, BaseFacts DEF Stop, creatureVars
<1>3. PICK q : /\ Goto(t, q)
               /\ \/ q = [r EXCEPT !.pc = pc, !.universe = u, !.victims = PlaylistSessions(u)]
                  \/ q = [r EXCEPT !.pc = pc, !.universe = u]
  BY <1>1 DEF Stop
<1>4. q.pc = pc /\ q.ret = r.ret /\ q.idles = r.idles
  BY <1>3 DEF ThreadRecord
<1>5. Session' = Session
  BY <1>2, DroppingStays DEF Stop, StopPlaylist, smVars, Session
<1>6. NoneInterrupted
  BY <1>2 DEF Stop, StopPlaylist, smVars, NoneInterrupted, TypeOK
<1>7. thread'[t] = q /\ Beside(t)
  BY <1>2, <1>3, OneThreadMoves DEF Goto
<1>8. r.ret # "onFinish"
  BY <1>1, <1>2 DEF Aware, Performing
<1>9. Aware(thread[t])'
  <2>1. CASE pc = "clearPlaylist"
    BY <1>4, <1>7, <1>8, <2>1, InnocentIsAware DEF Innocent, Parting, Switching
  <2>2. CASE pc = "mark"
    <3>1. r.idles \subseteq switched'
      BY <1>1, <1>2, <2>2 DEF Aware, Switching, Onward
    <3> QED
      BY <1>4, <1>7, <1>8, <2>2, <3>1 DEF Aware, Parting
  <2> QED
    BY <2>1, <2>2
<1> QED
  BY <1>2, <1>5, <1>6, <1>7, <1>9, CarefreeStep

\* A thread goes on with creatures that were switched.
LEMMA SwitchingIsAware ==
  ASSUME NEW t \in Thread, NEW q, thread'[t] = q, q.pc \in Switching, q.ret # "onFinish",
         q.idles \subseteq switched'
  PROVE  Aware(thread[t])'
BY DEF Aware, Parting, Switching

LEMMA StreamRequestsSettle ==
  ASSUME Base, Onward, PlaybackInv', NEW t \in Rest,
         \/ \E c \in Creature : RequestStream(t, c)
         \/ StreamStopsPlaylist(t) \/ StreamMarks(t) \/ StreamAnnounces(t)
  PROVE  SettleInv'
<1>1. t \in Thread /\ thread[t].pc \in {"ready", "stream", "mark", "announce"} /\ thread[t].victims = {}
  <2>1. t \in Thread /\ thread[t].pc \in {"ready", "stream", "mark", "announce"}
    BY DEF Thread, RequestStream, Arrives, StreamStopsPlaylist, StreamMarks, StreamAnnounces, Notified, At
  <2>2. thread[t].pc \in {"stream", "mark"} => thread[t].victims = {}
    BY DEF RequestStream, Arrives, StreamStopsPlaylist, StreamMarks, StreamAnnounces, Notified, At
  <2> QED
    BY <2>1, <2>2, BaseFacts DEF Notifying
<1>2. PICK r \in ThreadRecord : r = thread[t]
  BY <1>1, BaseFacts
<1>3. /\ TypeOK /\ ThreadsTyped /\ Aware(r) /\ ActivityTyped /\ streaming \subseteq switched
      /\ switched \subseteq switched'
  BY <1>1, <1>2, BaseFacts DEF Onward
<1>4. Carefree(r) /\ r.ret # "onFinish"
  BY <1>1, <1>2, <1>3 DEF Carefree, Aware, Performing, Finishing, Parting
<1>5. CASE \E c \in Creature : RequestStream(t, c)
  <2>1. PICK c \in Creature : RequestStream(t, c)
    BY <1>5
  <2>2. PICK u \in Universe : u = Home[c]
    BY PlaybackAssumption
  <2>3. /\ CancelSessionsForCreature(u, c) /\ UNCHANGED <<playlistState, streaming, activity>>
        /\ Goto(t, [Ready EXCEPT !.pc = "stream", !.universe = u, !.idles = {c},
                                 !.victims = SessionsForCreature(u, c)])
        /\ c \in switched'
    BY <2>1, <2>2 DEF RequestStream, CancelSessionsForCreature, creatureVars
  <2>4. Session' = Session /\ NoneInterrupted
    BY <1>3, <2>3, DroppingStays DEF CancelSessionsForCreature, NoneInterrupted
  <2>5. PICK q : q = [Ready EXCEPT !.pc = "stream", !.universe = u, !.idles = {c},
                                   !.victims = SessionsForCreature(u, c)]
    OBVIOUS
  <2>6. q.pc = "stream" /\ q.ret = "ready" /\ q.idles = {c}
    BY <2>5, ReadyTyped DEF ThreadRecord
  <2>7. thread'[t] = q /\ Beside(t)
    BY <1>1, <1>3, <2>3, <2>5, OneThreadMoves DEF Goto
  <2>8. Aware(thread[t])'
    BY <1>1, <2>3, <2>6, <2>7, SwitchingIsAware DEF Switching
  <2> QED
    BY <1>1, <1>2, <1>4, <2>3, <2>4, <2>7, <2>8, CarefreeStep
<1>6. CASE StreamStopsPlaylist(t)
  <2>1. Stop(t, r.universe, "mark") /\ r.pc = "stream" /\ r.universe \in Universe
    BY <1>2, <1>6 DEF StreamStopsPlaylist, Notified, At, ThreadRecord
  <2>2. PICK u \in Universe : u = r.universe
    BY <2>1
  <2> QED
    BY <1>1, <1>2, <1>4, <2>1, <2>2, StopSettles
<1>7. ASSUME UNCHANGED smVars, Goto(t, Ready) \/ Jump(t, "announce"), r.pc \in {"mark", "announce"}
      PROVE  /\ Session' = Session /\ NoneInterrupted /\ Beside(t) /\ Aware(thread[t])'
             /\ r.idles \subseteq switched'
  <2>1. Session' = Session /\ NoneInterrupted
    BY <1>7, RegistryIsStill
  <2>2. r.idles \subseteq switched'
    BY <1>3, <1>7 DEF Aware, Switching
  <2>3. CASE Goto(t, Ready)
    <3>1. thread'[t] = Ready /\ Beside(t)
      BY <1>1, <1>3, <2>3, OneThreadMoves DEF Goto
    <3> QED
      BY <1>1, <2>1, <2>2, <3>1, ReadyTyped, InnocentIsAware DEF Innocent, Parting, Switching
  <2>4. CASE Jump(t, "announce")
    <3>1. PICK q : q = [r EXCEPT !.pc = "announce"]
      OBVIOUS
    <3>2. q.pc = "announce" /\ q.ret = r.ret /\ q.idles = r.idles
      BY <3>1 DEF ThreadRecord
    <3>3. thread' = [thread EXCEPT ![t] = q]
      BY <1>2, <1>3, <2>4, <3>1 DEF Jump, ThreadsTyped
    <3>4. thread'[t] = q /\ Beside(t)
      BY <1>1, <1>3, <3>3, OneThreadMoves
    <3>5. Aware(thread[t])'
      BY <1>1, <1>4, <2>2, <3>2, <3>4, SwitchingIsAware DEF Switching
    <3> QED
      BY <2>1, <2>2, <3>4, <3>5
  <2> QED
    BY <1>7, <2>3, <2>4
<1>8. CASE StreamMarks(t)
  <2>1. /\ streaming' = streaming \cup r.idles /\ UNCHANGED <<smVars, activity>>
        /\ Goto(t, Ready) \/ Jump(t, "announce")
    BY <1>2, <1>8 DEF StreamMarks, Notified, At
  <2>5. r.pc = "mark"
    BY <1>2, <1>8 DEF StreamMarks, Notified, At
  <2>2. /\ Session' = Session /\ NoneInterrupted /\ Beside(t) /\ Aware(thread[t])'
        /\ r.idles \subseteq switched'
    BY <1>7, <2>1, <2>5
  <2>3. ActivityTyped' /\ streaming' \subseteq switched'
    BY <1>3, <2>1, <2>2 DEF ActivityTyped
  <2> QED
    BY <1>1, <1>2, <1>4, <2>1, <2>2, <2>3, SwitchStep
<1>9. CASE StreamAnnounces(t)
  <2>1. /\ SetActivity(r.idles, StreamId, 0, TRUE) /\ UNCHANGED <<smVars, streaming>>
        /\ Goto(t, Ready) /\ r.pc = "announce"
    BY <1>2, <1>9 DEF StreamAnnounces, At
  <2>2. /\ Session' = Session /\ NoneInterrupted /\ Beside(t) /\ Aware(thread[t])'
        /\ r.idles \subseteq switched'
    BY <1>7, <2>1
  <2>3. ActivityTyped' /\ streaming' \subseteq switched'
    <3>1. StreamId \in Nat
      BY SessionManagerAssumption DEF StreamId
    <3> QED
      BY <1>3, <2>1, <3>1, SetActivityTyped
  <2>4. \A c \in Creature \ switched' : activity'[c] = activity[c]
    BY <2>1, <2>2 DEF SetActivity
  <2> QED
    BY <1>1, <1>2, <1>4, <2>2, <2>3, <2>4, SwitchStep
<1> QED
  BY <1>5, <1>6, <1>8, <1>9

LEMMA IdleRequestsSettle ==
  ASSUME Base, Onward, PlaybackInv', NEW t \in Rest,
         \/ \E c \in Creature, enabled \in BOOLEAN : RequestSetIdle(t, c, enabled)
         \/ SetIdleCancels(t) \/ SetIdleState(t)
  PROVE  SettleInv'
<1>1. t \in Thread /\ thread[t].pc \in {"ready", "cancel idle", "idle on", "idle off"} /\ thread[t].victims = {}
  <2>1. t \in Thread /\ thread[t].pc \in {"ready", "cancel idle", "idle on", "idle off"}
    BY DEF Thread, RequestSetIdle, Arrives, SetIdleCancels, SetIdleState, Notified, At
  <2>2. thread[t].pc = "idle off" => thread[t].victims = {}
    BY DEF RequestSetIdle, Arrives, SetIdleCancels, SetIdleState, Notified, At
  <2> QED
    BY <2>1, <2>2, BaseFacts DEF Notifying
<1>2. PICK r \in ThreadRecord : r = thread[t]
  BY <1>1, BaseFacts
<1>3. /\ TypeOK /\ ThreadsTyped /\ Aware(r) /\ ActivityTyped /\ streaming \subseteq switched
      /\ switched \subseteq switched'
  BY <1>1, <1>2, BaseFacts DEF Onward
<1>4. Carefree(r) /\ r.ret # "onFinish"
  BY <1>1, <1>2, <1>3 DEF Carefree, Aware, Performing, Finishing, Parting
<1>5. CASE \E c \in Creature, enabled \in BOOLEAN : RequestSetIdle(t, c, enabled)
  <2>1. PICK c \in Creature, enabled \in BOOLEAN : RequestSetIdle(t, c, enabled)
    BY <1>5
  <2>2. PICK pc \in {"idle on", "cancel idle"} :
          Goto(t, [Ready EXCEPT !.pc = pc, !.universe = Home[c], !.idles = {c}])
    BY <2>1 DEF RequestSetIdle
  <2>3. UNCHANGED <<smVars, streaming, activity>> /\ c \in switched'
    BY <2>1 DEF RequestSetIdle
  <2>4. Session' = Session /\ NoneInterrupted
    BY <2>3, RegistryIsStill
  <2>5. PICK q : q = [Ready EXCEPT !.pc = pc, !.universe = Home[c], !.idles = {c}]
    OBVIOUS
  <2>6. q.pc = pc /\ q.ret = "ready" /\ q.idles = {c}
    BY <2>5, ReadyTyped DEF ThreadRecord
  <2>7. thread'[t] = q /\ Beside(t)
    BY <1>1, <1>3, <2>2, <2>5, OneThreadMoves DEF Goto
  <2>8. Aware(thread[t])'
    BY <1>1, <2>3, <2>6, <2>7, SwitchingIsAware DEF Switching
  <2> QED
    BY <1>1, <1>2, <1>4, <2>3, <2>4, <2>7, <2>8, CarefreeStep
<1>6. CASE SetIdleCancels(t)
  <2>1. PICK c \in r.idles :
          /\ CancelIdleSessionForCreature(r.universe, c)
          /\ Goto(t, [r EXCEPT !.pc = "idle off", !.victims = IdleSessionsForCreature(r.universe, c)])
    BY <1>2, <1>6 DEF SetIdleCancels
  <2>2. PICK u \in Universe : u = r.universe
    BY DEF ThreadRecord
  <2>3. r.pc = "cancel idle" /\ UNCHANGED <<playlistState, streaming, activity>>
    BY <1>2, <1>6, <2>1 DEF SetIdleCancels, CancelIdleSessionForCreature, creatureVars, At
  <2>4. Session' = Session /\ NoneInterrupted
    BY <1>3, <2>1, <2>2, <2>3, DroppingStays DEF CancelIdleSessionForCreature, NoneInterrupted
  <2>5. PICK q : q = [r EXCEPT !.pc = "idle off", !.victims = IdleSessionsForCreature(u, c)]
    OBVIOUS
  <2>6. q.pc = "idle off" /\ q.ret = r.ret /\ q.idles = r.idles
    BY <2>5 DEF ThreadRecord
  <2>7. thread'[t] = q /\ Beside(t)
    BY <1>1, <1>3, <2>1, <2>2, <2>5, OneThreadMoves DEF Goto
  <2>8. r.idles \subseteq switched'
    BY <1>3, <2>3 DEF Aware, Switching
  <2>9. Aware(thread[t])'
    BY <1>1, <1>4, <2>6, <2>7, <2>8, SwitchingIsAware DEF Switching
  <2> QED
    BY <1>1, <1>2, <1>4, <2>3, <2>4, <2>7, <2>9, CarefreeStep
<1>7. CASE SetIdleState(t)
  <2>1. r.pc \in {"idle on", "idle off"} /\ UNCHANGED <<smVars, streaming>>
    BY <1>2, <1>7 DEF SetIdleState, Notified, At
  <2>2. activity' = [c \in Creature |-> IF c \in r.idles THEN [activity[c] EXCEPT !.session = 0]
                                        ELSE activity[c]]
    BY <1>2, <1>7 DEF SetIdleState
  <2>3. Session' = Session /\ NoneInterrupted
    BY <2>1, RegistryIsStill
  <2>4. r.idles \subseteq switched'
    BY <1>3, <2>1 DEF Aware, Switching
  <2>5. \A c \in Creature \ switched' : activity'[c] = activity[c]
    BY <2>2, <2>4
  <2>6. ActivityTyped' /\ streaming' \subseteq switched'
    BY <1>3, <2>1, <2>2 DEF ActivityTyped
  <2>7. PICK i : i = [Ready EXCEPT !.pc = "idle", !.idles = r.idles]
    OBVIOUS
  <2>8. Innocent(i) /\ Innocent(Ready)
    <3>1. i.pc = "idle" /\ i.ret = "ready"
      BY <2>7, ReadyTyped DEF ThreadRecord
    <3> QED
      BY <3>1, ReadyTyped DEF Innocent, Parting, Switching
  <2>9. PICK q \in {i, Ready} : thread' = [thread EXCEPT ![t] = q]
    BY <1>2, <1>7, <2>7 DEF SetIdleState, Goto
  <2>10. Beside(t) /\ Aware(thread[t])'
    BY <1>1, <1>3, <2>8, <2>9, OneThreadMoves, InnocentIsAware
  <2> QED
    BY <1>1, <1>2, <1>4, <2>3, <2>5, <2>6, <2>10, SwitchStep
<1> QED
  BY <1>5, <1>6, <1>7

-----------------------------------------------------------------------------
(* SettleInv is inductive, holds initially and implies SettlesRight.       *)

LEMMA StandingStill ==
  ASSUME SettleInv, UNCHANGED playbackVars
  PROVE  SettleInv'
<1>1. UNCHANGED <<sessions, active, thread, finished, playlistState, activity, streaming, switched,
                  relayed, unstopped>>
  BY DEF playbackVars, smVars, eventVars, chainVars, endVars, creatureVars, pastVars
<1>2. Session' = Session
  BY <1>1 DEF Session
<1>3. /\ \A s : Listed(s)' <=> Listed(s)
      /\ \A s : Cancelled(s)' <=> Cancelled(s)
  BY <1>1 DEF Listed, Cancelled
<1>4. /\ \A s : IsLive(s)' <=> IsLive(s)
      /\ \A s : CancelledUnseen(s)' <=> CancelledUnseen(s)
      /\ \A u, s : LastSession(u, s)' <=> LastSession(u, s)
  BY <1>1, <1>2, <1>3 DEF IsLive, CancelledUnseen, LastSession
<1>5. ActivityTyped' /\ streaming' \subseteq switched'
  BY <1>1 DEF SettleInv, ActivityTyped
<1>6. ClearsFinished'
  BY <1>1, <1>2, <1>3 DEF SettleInv, ClearsFinished
<1>7. AwaitInv'
  <2>1. /\ \A t \in Thread : \A u : Marking(thread[t], u)' <=> Marking(thread[t], u)
        /\ \A t \in Thread : \A s : Deciding(thread[t], s)' <=> Deciding(thread[t], s)
    BY <1>1 DEF Marking, Deciding
  <2>2. \A u : Awaited(u) => Awaited(u)'
    BY <1>1, <1>2, <1>3, <1>4, <2>1 DEF Awaited
  <2> QED
    BY <1>1, <2>2 DEF SettleInv, AwaitInv
<1>8. \A t \in Thread : Aware(thread[t])'
  <2> SUFFICES ASSUME NEW t \in Thread
               PROVE  Aware(thread[t])'
    OBVIOUS
  <2>1. Aware(thread[t])
    BY DEF SettleInv
  <2>2. \A s, u : Over(s, u)' <=> Over(s, u)
    BY <1>1, <1>2, <1>3 DEF Over
  <2> QED
    BY <1>1, <1>2, <1>3, <2>1, <2>2 DEF Aware
<1>9. \A c \in Creature \ switched' : StaysHome(c)' => ActivityRight(c)'
  <2> SUFFICES ASSUME NEW c \in Creature \ switched', StaysHome(c)'
               PROVE  ActivityRight(c)'
    OBVIOUS
  <2>1. ActivityRight(c) /\ DrivenBy(c)' = DrivenBy(c)
    BY <1>1, <1>2 DEF SettleInv, StaysHome, DrivenBy
  <2>2. \A t \in Thread : \A s : Stops(thread[t], s)' <=> Stops(thread[t], s)
    BY <1>1, <1>3 DEF Stops
  <2>3. \A s : Owing(s)' <=> Owing(s)
    BY <1>1, <1>4, <2>2 DEF Owing
  <2>4. \A s : Starting(s)' <=> Starting(s)
    BY <1>1 DEF Starting
  <2> QED
    BY <1>1, <1>4, <2>1, <2>3, <2>4 DEF ActivityRight, Reached
<1> QED
  BY <1>5, <1>6, <1>7, <1>8, <1>9 DEF SettleInv

\* The invariant is inductive, given the ones about ownership and playlists.
LEMMA SettleInvStep ==
  ASSUME PlaybackInv, PlaybackInv', GoOnInv, NotifyInv, SettleInv, [PlaybackNext]_playbackVars
  PROVE  SettleInv'
<1>1. CASE PlaybackNext
  <2>1. Base /\ Onward /\ Loop \in Thread /\ Loader \subseteq Thread /\ Rest \subseteq Thread
    BY <1>1, OnwardStep DEF Base, Thread
  <2>2. CASE \E t \in Thread : ScheduleStep(t)
    BY <2>1, <2>2, SchedulingSettles, RegistrationSettles, NotifyingSettles, BroadcastSettles,
       UnwindingSettles, UnwoundSettles, IdlingSettles DEF ScheduleStep
  <2>3. CASE \E t \in Loader : LoaderStep(t)
    BY <2>1, <2>3, LoadingSettles
  <2>4. ASSUME NEW t \in Rest, RequestStep(t)
        PROVE  SettleInv'
    <3>1. ASSUME NEW u \in Universe, RequestStop(t, u)
          PROVE  SettleInv'
      <4>1. Arrives(t, "stop") /\ Stop(t, u, "clearPlaylist")
        BY <3>1 DEF RequestStop
      <4>2. t \in Thread /\ thread[t].pc = "ready" /\ Carefree(thread[t])
        BY <2>1, <4>1, ArrivesReady
      <4>3. PICK pc \in {"clearPlaylist", "mark"} : pc = "clearPlaylist"
        OBVIOUS
      <4>4. Stop(t, u, pc) /\ pc # "mark" /\ thread[t].pc \in {"ready", "stream"}
        BY <4>1, <4>2, <4>3
      <4> QED
        BY <2>1, <4>2, <4>4, StopSettles
    <3>2. ASSUME NEW u \in Universe, NEW a \in workload.animations,
                 \/ RequestPlay(t, u, a)
                 \/ \E resume \in BOOLEAN : RequestInterrupt(t, u, a, resume)
                 \/ RequestInterruptIdle(t, u, a)
                 \/ RequestQueue(t, u, a)
          PROVE  SettleInv'
      BY <2>1, <3>2, PlayRequestsSettle, InterruptionSettles
    <3>3. CASE \/ \E u \in Universe, p \in Playlist : RequestStart(t, u, p)
               \/ StartCancels(t) \/ StartStarts(t) \/ StartStatus(t)
      BY <2>1, <3>3, StartRequestsSettle
    <3>4. CASE \/ \E c \in Creature : RequestStream(t, c)
               \/ StreamStopsPlaylist(t) \/ StreamMarks(t) \/ StreamAnnounces(t)
      BY <2>1, <3>4, StreamRequestsSettle
    <3>5. CASE \/ \E c \in Creature, enabled \in BOOLEAN : RequestSetIdle(t, c, enabled)
               \/ SetIdleCancels(t) \/ SetIdleState(t)
      BY <2>1, <3>5, IdleRequestsSettle
    <3>6. CASE InterruptFailed(t)
      BY <2>1, <3>6, RollbackSettles
    <3> QED
      BY <2>4, <3>1, <3>2, <3>3, <3>4, <3>5, <3>6 DEF RequestStep
  <2>5. CASE LoopStep
    BY <2>1, <2>5, RunningSettles, ClearsSettle, DecisionSettles, PartingSettles, RelaySettles,
       LastWriteSettles, AfterSettles, EventsSettle, ExpirySettles DEF LoopStep
  <2> QED
    BY <1>1, <2>2, <2>3, <2>4, <2>5 DEF PlaybackNext
<1>2. CASE UNCHANGED playbackVars
  BY <1>2, StandingStill
<1> QED
  BY <1>1, <1>2

\* The invariants hold initially.
LEMMA SettleStarts ==
  ASSUME PlaybackInit
  PROVE  NotifyInv /\ SettleInv
<1>1. /\ Session = {}
      /\ \A u \in Universe : playlistState[u] = "None"
      /\ activity = [c \in Creature |-> [session |-> 0, generation |-> 0]]
      /\ streaming = {}
      /\ \A t \in Thread : thread[t] = Ready
  BY DEF PlaybackInit, Init, Session
<1>2. NotifyInv /\ ClearsFinished /\ AwaitInv
  BY <1>1 DEF NotifyInv, ClearsFinished, AwaitInv
<1>3. ActivityTyped /\ streaming \subseteq switched
  BY <1>1 DEF ActivityTyped
<1>4. \A t \in Thread : Aware(thread[t])
  BY <1>1, ReadyTyped DEF Aware, Parting, Switching
<1>5. \A c \in Creature : ActivityRight(c)
  BY <1>1 DEF ActivityRight, Reached, DrivenBy
<1> QED
  BY <1>2, <1>3, <1>4, <1>5 DEF SettleInv

\* At rest no thread is about to write, to broadcast, to mark or to decide.
LEMMA NobodyOwesAtRest ==
  ASSUME Base, Settled, NEW t \in Thread
  PROVE  /\ \A s : ~Stops(thread[t], s) /\ ~Deciding(thread[t], s)
         /\ \A u : ~Marking(thread[t], u)
         /\ thread[t].pc # "running"
<1>1. thread[t].pc = "ready"
  BY DEF Settled, At
<1>2. Carefree(thread[t]) /\ thread[t].ret # "onFinish"
  BY <1>1, IsCarefree DEF Notifying, Performing, Finishing, Parting
<1>3. \A s : ~Stops(thread[t], s)
  BY <1>1, <1>2 DEF Stops, Carefree, Parting
<1> QED
  BY <1>1, <1>3 DEF Deciding, Marking

(* SettlesRight: once everything under way has been dealt with, the        *)
(* activity of a creature is that of the session that drives it, and an    *)
(* interrupted playlist waits for a session, but for what the code leaves  *)
(* behind by itself.                                                       *)
THEOREM PlaybackSettlesRight == PlaybackSpec => []SettlesRight
<1>1. PlaybackInit => NotifyInv /\ SettleInv
  BY SettleStarts
<1>2. PlaybackInit => GoOnInv
  BY GoOnStarts
<1>3. PlaybackInv /\ PlaybackInv' /\ PlaylistInv /\ GoOnInv /\ [PlaybackNext]_playbackVars => GoOnInv'
  BY GoOnInvStep
<1>4. PlaybackInv /\ NotifyInv /\ [PlaybackNext]_playbackVars => NotifyInv'
  BY NotifyInvStep
<1>5. /\ PlaybackInv /\ PlaybackInv' /\ GoOnInv /\ NotifyInv /\ SettleInv
      /\ [PlaybackNext]_playbackVars
      => SettleInv'
  BY SettleInvStep
<1>6. PlaybackInv /\ GoOnInv /\ NotifyInv /\ SettleInv => SettlesRight
  <2> SUFFICES ASSUME Base, Settled
               PROVE  SettlesRight
    BY DEF Base, SettlesRight, ActivityAgrees, InterruptedAwaitsEnd
  <2>1. ActivityAgrees
    <3> SUFFICES ASSUME NEW c \in Creature \ switched, StaysHome(c)
                 PROVE  LET driving == {s \in Live(Home[c]) : c \in sessions[s].drives}
                            said    == activity[c].session
                        IN  /\ driving \subseteq {said}
                            /\ said = 0 \/ said \in driving \cup unstopped \/ CancelledUnseen(said)
      BY DEF ActivityAgrees
    <3>1. ActivityRight(c) /\ \A s : ~Starting(s)
      BY NobodyOwesAtRest DEF Base, SettleInv, Starting
    <3>2. \A s \in DrivenBy(c) : IsLive(s) <=> s \in Live(Home[c])
      BY DEF StaysHome, DrivenBy, IsLive, Listed, Live
    <3>3. Live(Home[c]) \subseteq Session
      BY PlaybackAssumption DEF Base, PlaybackInv, Owned, TypeOK, Live
    <3>4. \A s \in DrivenBy(c) : IsLive(s) => activity[c].session = s
      BY <3>1 DEF ActivityRight
    <3>5. \/ activity[c].session = 0
          \/ activity[c].session \in DrivenBy(c) /\ IsLive(activity[c].session)
          \/ Owing(activity[c].session)
      BY <3>1 DEF ActivityRight
    <3>6. Owing(activity[c].session) => activity[c].session \in unstopped \/ CancelledUnseen(activity[c].session)
      BY NobodyOwesAtRest DEF Owing
    <3> QED
      BY <3>2, <3>3, <3>4, <3>5, <3>6 DEF DrivenBy
  <2>2. InterruptedAwaitsEnd
    <3> SUFFICES ASSUME NEW u \in Universe, playlistState[u] = "Interrupted"
                 PROVE  \/ Live(u) # {}
                        \/ \E s \in Session : LastSession(u, s) /\ (Cancelled(s) \/ s \in relayed)
      BY DEF InterruptedAwaitsEnd
    <3>1. Awaited(u)
      BY DEF Base, SettleInv, AwaitInv
    <3>2. PICK s \in Session : LastSession(u, s) /\ (Listed(s) \/ Cancelled(s) \/ s \in relayed)
      BY <3>1, NobodyOwesAtRest DEF Awaited
    <3>3. Listed(s) /\ ~Cancelled(s) => s \in Live(u)
      BY <3>2 DEF LastSession, Listed, Live
    <3> QED
      BY <3>2, <3>3
  <2> QED
    BY <2>1, <2>2 DEF SettlesRight
<1>7. PlaybackSpec => []PlaylistInv
  BY PlaybackUsesTheRegistry, PlaylistInvHolds, PTL
<1> QED
  BY <1>1, <1>2, <1>3, <1>4, <1>5, <1>6, <1>7, OwnershipHolds, PTL DEF PlaybackSpec

=============================================================================
