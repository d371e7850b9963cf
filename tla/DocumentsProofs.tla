-------------------------- MODULE DocumentsProofs --------------------------
(***************************************************************************)
(* Proofs about the documents: first one dialog script with its accepted   *)
(* take and its music, for any turns, takes, HTTP threads and number of    *)
(* requests; then the stored documents with the caches, the mutexes and    *)
(* the announcements around them, for any threads, documents, creatures,   *)
(* contents, universes and workloads.                                      *)
(***************************************************************************)
EXTENDS DialogScripts, Library, SequenceTheorems, TLAPS

-----------------------------------------------------------------------------
(* Dialog scripts.                                                         *)

Accepting == {"export", "store", "demote", "promote", "publish"}

\* What handler a may rely on at its place.  An HTTP thread has the client's
\* word for the turns of the take it accepts; the worker looked it up.
Sound(a, s) ==
  /\ s.at \in LockedPlaces \cup Accepting \cup {"clear", "erase", "load", "show", "compose"} =>
       s.copy \in Script
  /\ s.at \in {"edit", "preview"} => s.turns \in Turns
  /\ s.at = "attach" => s.music \in Music /\ s.music.turns = s.copy.turns
  /\ s.at \in Accepting \cup {"accept", "listen"} => s.take \in Takes
  /\ s.at \in Accepting \cup {"accept"} => s.turns \in Turns
  /\ s.at \in {"accept", "export", "store"} => s.turns = KeyOf[s.take]
  /\ a = Worker /\ s.at \in Accepting => s.turns = KeyOf[s.take]
  /\ s.at \in Accepting => s.copy.turns = s.turns
  /\ s.at = "show" /\ s.asked = Nothing /\ s.copy.voice # Nothing =>
       s.take = s.copy.voice.take /\ KeyOf[s.take] = s.copy.turns

\* Only jobs whose take fits their turns are queued for acceptance.
SoundJob == {j \in Job : /\ j.at = "accept" => j.take \in Takes /\ j.turns = KeyOf[j.take]
                         /\ j.at = "preview" => j.turns \in Turns}

Peopled == actor \in [Actors -> Actor] /\ \A a \in Actors : Sound(a, actor[a])

VoiceStored ==
  /\ script \in Script \cup {Nothing}
  /\ made \subseteq Takes /\ cached \subseteq made /\ adhoc \subseteq Takes
  /\ promoted \subseteq Takes /\ durable \subseteq made
  /\ composed \subseteq Music
  /\ now \in Nat /\ calls \in Nat

Locking == lock \in Actors \cup {Nothing} /\ raced \in BOOLEAN /\ OneLocks /\ LockedCopyIsCurrent

ScriptsInv == VoiceStored /\ Peopled /\ Locking /\ queue \in Seq(SoundJob)

-----------------------------------------------------------------------------
(* A step of one actor.                                                    *)

ActorMoves(a, s) ==
  /\ a \in Actors /\ s \in Actor /\ Sound(a, s)
  /\ actor' = [actor EXCEPT ![a] = s]

LEMMA IdleSound == AtRest \in Actor /\ (\A a : Sound(a, AtRest)) /\ AtRest.at = "idle"
BY DEF AtRest, Actor, Places, Sound, LockedPlaces, Accepting

LEMMA MoveKeeps ==
  ASSUME ScriptsInv, NEW a, NEW s, ActorMoves(a, s)
  PROVE  /\ Peopled' /\ actor'[a] = s
         /\ \A b \in Actors \ {a} : actor'[b] = actor[b]
BY DEF ScriptsInv, Peopled, ActorMoves

LEMMA QuietStep ==
  ASSUME ScriptsInv, NEW a, NEW s, ActorMoves(a, s), UNCHANGED <<script, lock, raced>>,
         actor[a].at \notin LockedPlaces, s.at \notin LockedPlaces
  PROVE  Peopled' /\ Locking'
<1>1. Peopled' /\ actor'[a] = s /\ \A b \in Actors \ {a} : actor'[b] = actor[b]
  BY MoveKeeps
<1>2. OneLocks'
  BY <1>1 DEF ScriptsInv, Locking, OneLocks
<1>3. LockedCopyIsCurrent'
  BY <1>1 DEF ScriptsInv, Locking, LockedCopyIsCurrent
<1>. QED BY <1>1, <1>2, <1>3 DEF ScriptsInv, Locking

LEMMA EndSound ==
  ASSUME ScriptsInv, NEW a \in Actors, Becomes(a, AtRest)
  PROVE  ActorMoves(a, AtRest)
BY IdleSound DEF Becomes, ActorMoves

LEMMA GoesTo ==
  ASSUME NEW w \in Actor, NEW place \in Places
  PROVE  LET s == [w EXCEPT !.at = place]
         IN  /\ s \in Actor /\ s.at = place /\ s.copy = w.copy /\ s.take = w.take
             /\ s.turns = w.turns /\ s.music = w.music /\ s.asked = w.asked
BY DEF Actor

-----------------------------------------------------------------------------
(* Under the lock.                                                         *)

LEMMA BeginLockedStep ==
  ASSUME ScriptsInv, NEW t \in Threads, NEW state \in Actor, BeginLocked(t, state),
         state.at \in LockedPlaces,
         state.at = "edit" => state.turns \in Turns,
         state.at = "attach" => state.music \in Music /\ state.music.turns = script.turns
  PROVE  ScriptsInv'
<1>. DEFINE s == [state EXCEPT !.copy = script]
<1>1. script \in Script
  BY DEF ScriptsInv, VoiceStored, BeginLocked
<1>2. /\ s \in Actor /\ s.at = state.at /\ s.copy = script
      /\ s.turns = state.turns /\ s.music = state.music
  BY <1>1 DEF Actor
<1>3. actor' = [actor EXCEPT ![t] = s] /\ t \in Actors
  BY DEF BeginLocked, Becomes, Actors
<1>. HIDE DEF s
<1>4. Sound(t, s)
  BY <1>1, <1>2 DEF Sound, LockedPlaces, Accepting
<1>5. ActorMoves(t, s)
  BY <1>2, <1>3, <1>4 DEF ActorMoves
<1>6. lock = Nothing /\ lock' = t /\ raced' = FALSE /\ UNCHANGED script
  BY DEF BeginLocked
<1>7. Nothing \notin Actors
  BY DialogAssumption DEF DialogAssumption
<1>8. Locking'
  <2>1. actor'[t] = s /\ \A b \in Actors \ {t} : actor'[b] = actor[b]
    BY <1>5, MoveKeeps
  <2>2. \A b \in Actors : actor[b].at \notin LockedPlaces
    BY <1>6, <1>7 DEF ScriptsInv, Locking, OneLocks
  <2>3. OneLocks'
    BY <1>2, <1>3, <1>6, <2>1, <2>2 DEF OneLocks
  <2>4. LockedCopyIsCurrent'
    BY <1>2, <1>6, <2>1, <2>2 DEF LockedCopyIsCurrent
  <2>. QED BY <1>3, <1>6, <2>3, <2>4 DEF Locking
<1>9. VoiceStored' /\ queue' \in Seq(SoundJob)
  BY DEF BeginLocked, Call, ScriptsInv, VoiceStored, takeVars
<1>. QED BY <1>5, <1>8, <1>9, MoveKeeps DEF ScriptsInv

LEMMA CommitStep ==
  ASSUME ScriptsInv, NEW t \in Actors, NEW document \in Script, CommitLocked(t, document),
         actor[t].at \in LockedPlaces
  PROVE  ScriptsInv'
<1>1. ActorMoves(t, AtRest)
  BY EndSound DEF CommitLocked
<1>2. lock' = Nothing /\ raced' = FALSE /\ script' = document
  BY DEF CommitLocked
<1>3. \A b \in Actors \ {t} : actor[b].at \notin LockedPlaces
  BY DEF ScriptsInv, Locking, OneLocks
<1>4. \A b \in Actors : actor'[b].at \notin LockedPlaces
  BY <1>1, <1>3, MoveKeeps, IdleSound DEF LockedPlaces
<1>5. Nothing \notin Actors
  BY DialogAssumption DEF DialogAssumption
<1>6. Locking'
  BY <1>2, <1>4, <1>5 DEF Locking, OneLocks, LockedCopyIsCurrent
<1>7. VoiceStored' /\ queue' \in Seq(SoundJob)
  BY <1>2 DEF CommitLocked, ScriptsInv, VoiceStored, takeVars, countVars
<1>. QED BY <1>1, <1>6, <1>7, MoveKeeps DEF ScriptsInv

LEMMA LaterNat ==
  ASSUME NEW x \in Nat, NEW y \in Nat
  PROVE  Later(x, y + 1) \in Nat
BY DEF Later

LEMMA ScriptStepSound ==
  ASSUME ScriptsInv, NEW t \in Threads, ScriptStep(t)
  PROVE  ScriptsInv'
<1>0. t \in Actors /\ actor[t] \in Actor /\ Sound(t, actor[t]) /\ now \in Nat
  BY DEF Actors, ScriptsInv, Peopled, VoiceStored
<1>. PICK copy : copy = actor[t].copy
  OBVIOUS
<1>1. ASSUME NEW turns \in Turns, UpdateScript(t, turns) PROVE ScriptsInv'
  <2>. DEFINE s == [AtRest EXCEPT !.at = "edit", !.turns = turns]
  <2>1. s \in Actor /\ s.at = "edit" /\ s.turns = turns
    BY DEF AtRest, Actor, Places
  <2>2. BeginLocked(t, s)
    BY <1>1 DEF UpdateScript
  <2>. HIDE DEF s
  <2>. QED BY <2>1, <2>2, BeginLockedStep DEF LockedPlaces
<1>2. ASSUME CommitUpdate(t) PROVE ScriptsInv'
  <2>1. copy \in Script /\ actor[t].turns \in Turns /\ actor[t].at = "edit"
    BY <1>0, <1>2 DEF CommitUpdate, At, Sound, LockedPlaces
  <2>2. [copy EXCEPT !.turns = actor[t].turns, !.updated = now] \in Script
    BY <1>0, <2>1 DEF Script
  <2>. QED BY <1>0, <1>2, <2>1, <2>2, CommitStep DEF CommitUpdate, LockedPlaces
<1>3. ASSUME ClearMusic(t) PROVE ScriptsInv'
  <2>. DEFINE s == [AtRest EXCEPT !.at = "detach"]
  <2>1. s \in Actor /\ s.at = "detach"
    BY DEF AtRest, Actor, Places
  <2>2. BeginLocked(t, s)
    BY <1>3 DEF ClearMusic
  <2>. HIDE DEF s
  <2>. QED BY <2>1, <2>2, BeginLockedStep DEF LockedPlaces
<1>4. ASSUME CommitClearMusic(t) PROVE ScriptsInv'
  <2>1. copy \in Script /\ actor[t].at = "detach"
    BY <1>0, <1>4 DEF CommitClearMusic, At, Sound, LockedPlaces
  <2>2. Later(now, copy.updated + 1) \in Nat
    BY <1>0, <2>1, LaterNat DEF Script
  <2>3. [copy EXCEPT !.music = Nothing, !.updated = Later(now, copy.updated + 1)] \in Script
    BY <2>1, <2>2 DEF Script
  <2>. QED BY <1>0, <1>4, <2>1, <2>3, CommitStep DEF CommitClearMusic, LockedPlaces
<1>5. ASSUME DeleteScript(t) PROVE ScriptsInv'
  <2>1. \A a \in Actors : actor[a].at \notin LockedPlaces
    BY <1>5, DialogAssumption DEF DeleteScript, ScriptsInv, Locking, OneLocks, DialogAssumption
  <2>2. UNCHANGED <<lock, raced, actor>> /\ script' = Nothing
    BY <1>5 DEF DeleteScript, lockVars
  <2>3. Locking' /\ Peopled'
    BY <2>1, <2>2 DEF ScriptsInv, Locking, OneLocks, LockedCopyIsCurrent, Peopled
  <2>4. VoiceStored' /\ queue' \in Seq(SoundJob)
    BY <1>5 DEF DeleteScript, Call, ScriptsInv, VoiceStored, takeVars
  <2>. QED BY <2>3, <2>4 DEF ScriptsInv
<1>6. ASSUME NEW m \in composed, PromoteMusic(t, m) PROVE ScriptsInv'
  <2>. DEFINE s == [AtRest EXCEPT !.at = "attach", !.music = m]
  <2>1. m \in Music
    BY DEF ScriptsInv, VoiceStored
  <2>2. s \in Actor /\ s.at = "attach" /\ s.music = m
    BY <2>1 DEF AtRest, Actor, Places
  <2>3. BeginLocked(t, s) /\ m.turns = script.turns
    BY <1>6 DEF PromoteMusic
  <2>. HIDE DEF s
  <2>. QED BY <2>1, <2>2, <2>3, BeginLockedStep DEF LockedPlaces
<1>7. ASSUME CommitMusic(t) PROVE ScriptsInv'
  <2>1. copy \in Script /\ actor[t].music \in Music /\ actor[t].at = "attach"
    BY <1>0, <1>7 DEF CommitMusic, At, Sound, LockedPlaces
  <2>2. [copy EXCEPT !.music = actor[t].music, !.updated = now] \in Script
    BY <1>0, <2>1 DEF Script
  <2>. QED BY <1>0, <1>7, <2>1, <2>2, CommitStep DEF CommitMusic, LockedPlaces
<1>. QED BY <1>1, <1>2, <1>3, <1>4, <1>5, <1>6, <1>7 DEF ScriptStep

-----------------------------------------------------------------------------
(* Acceptance.                                                             *)

\* What stays when files move.
LEMMA StoredKept ==
  ASSUME ScriptsInv, UNCHANGED <<script, made, cached, durable, composed, queue, now, calls>>,
         adhoc' \subseteq Takes, promoted' \subseteq Takes
  PROVE  VoiceStored' /\ queue' \in Seq(SoundJob)
BY DEF ScriptsInv, VoiceStored

LEMMA LocklessStep ==
  ASSUME ScriptsInv, NEW a \in Actors, NEW document \in Script, PublishLockless(a, document),
         actor[a].at \notin LockedPlaces
  PROVE  ScriptsInv'
<1>1. ActorMoves(a, AtRest)
  BY EndSound DEF PublishLockless
<1>2. lock' = lock /\ raced' = (lock # Nothing) /\ script' = document
  BY DEF PublishLockless
<1>3. actor'[a] = AtRest /\ \A b \in Actors \ {a} : actor'[b] = actor[b]
  BY <1>1, MoveKeeps
<1>4. OneLocks'
  BY <1>2, <1>3, IdleSound DEF ScriptsInv, Locking, OneLocks, LockedPlaces
<1>5. LockedCopyIsCurrent'
  <2>1. CASE lock = Nothing
    <3>1. \A b \in Actors : actor'[b].at \notin LockedPlaces
      BY <2>1, <1>2, <1>4, DialogAssumption DEF OneLocks, DialogAssumption
    <3>. QED BY <3>1 DEF LockedCopyIsCurrent
  <2>2. CASE lock # Nothing
    BY <2>2, <1>2 DEF LockedCopyIsCurrent
  <2>. QED BY <2>1, <2>2
<1>6. VoiceStored' /\ queue' \in Seq(SoundJob)
  BY <1>2 DEF PublishLockless, ScriptsInv, VoiceStored, takeVars, countVars
<1>7. raced' \in BOOLEAN /\ lock' \in Actors \cup {Nothing}
  BY <1>2 DEF ScriptsInv, Locking
<1>. QED BY <1>1, <1>4, <1>5, <1>6, <1>7, MoveKeeps DEF ScriptsInv, Locking

LEMMA Demoting ==
  ASSUME ScriptsInv, NEW g, Demotes(g)
  PROVE  adhoc' \subseteq Takes /\ promoted' \subseteq Takes
BY DEF ScriptsInv, VoiceStored, Demotes

LEMMA VoiceStepSound ==
  ASSUME ScriptsInv, NEW t \in Threads, VoiceStep(t)
  PROVE  ScriptsInv'
<1>0. t \in Actors /\ actor[t] \in Actor /\ Sound(t, actor[t]) /\ now \in Nat
  BY DEF Actors, ScriptsInv, Peopled, VoiceStored
<1>. PICK copy : copy = actor[t].copy
  OBVIOUS
<1>1. ASSUME ClearVoice(t) PROVE ScriptsInv'
  <2>. DEFINE s == [AtRest EXCEPT !.at = "clear", !.copy = script]
  <2>1. s \in Actor /\ s.at = "clear" /\ s.copy = script /\ script \in Script
    BY <1>1 DEF AtRest, Actor, Places, ClearVoice, ScriptsInv, VoiceStored
  <2>2. actor' = [actor EXCEPT ![t] = s] /\ actor[t].at = "idle"
    BY <1>1 DEF ClearVoice, Becomes, Call, At
  <2>. HIDE DEF s
  <2>3. Sound(t, s)
    BY <2>1 DEF Sound, LockedPlaces, Accepting
  <2>4. ActorMoves(t, s)
    BY <1>0, <2>1, <2>2, <2>3 DEF ActorMoves
  <2>5. UNCHANGED <<script, lock, raced>>
    BY <1>1 DEF ClearVoice, lockVars
  <2>6. Peopled' /\ Locking'
    BY <2>1, <2>2, <2>4, <2>5, QuietStep DEF LockedPlaces
  <2>7. VoiceStored' /\ queue' \in Seq(SoundJob)
    BY <1>1 DEF ClearVoice, Call, ScriptsInv, VoiceStored, takeVars
  <2>. QED BY <2>6, <2>7 DEF ScriptsInv
<1>2. ASSUME DemoteCleared(t) PROVE ScriptsInv'
  <2>. DEFINE s == [actor[t] EXCEPT !.at = "erase"]
  <2>1. actor[t].at = "clear" /\ copy \in Script
    BY <1>0, <1>2 DEF DemoteCleared, At, Sound
  <2>2. s \in Actor /\ s.at = "erase" /\ s.copy = copy
    BY <1>0, GoesTo DEF Places
  <2>3. actor' = [actor EXCEPT ![t] = s]
    BY <1>2 DEF DemoteCleared, Goto, Becomes
  <2>. HIDE DEF s
  <2>4. Sound(t, s)
    BY <2>1, <2>2 DEF Sound, LockedPlaces, Accepting
  <2>5. ActorMoves(t, s)
    BY <1>0, <2>2, <2>3, <2>4 DEF ActorMoves
  <2>6. UNCHANGED <<script, lock, raced, made, cached, durable, composed, queue, now, calls>>
    BY <1>2 DEF DemoteCleared, lockVars, countVars
  <2>7. Peopled' /\ Locking'
    BY <2>1, <2>2, <2>5, <2>6, QuietStep DEF LockedPlaces
  <2>8. Demotes(copy.voice.take)
    BY <1>2 DEF DemoteCleared
  <2>. QED BY <2>6, <2>7, <2>8, StoredKept, Demoting DEF ScriptsInv
<1>3. ASSUME PublishCleared(t) PROVE ScriptsInv'
  <2>1. copy \in Script /\ actor[t].at = "erase"
    BY <1>0, <1>3 DEF PublishCleared, At, Sound
  <2>2. Later(now, copy.updated + 1) \in Nat
    BY <1>0, <2>1, LaterNat DEF Script
  <2>3. [copy EXCEPT !.voice = Nothing, !.updated = Later(now, copy.updated + 1)] \in Script
    BY <2>1, <2>2 DEF Script
  <2>. QED BY <1>0, <1>3, <2>1, <2>3, LocklessStep DEF PublishCleared, LockedPlaces
<1>4. ASSUME NEW g \in made, NEW turns \in Turns, AcceptTake(t, g, turns) PROVE ScriptsInv'
  <2>0. g \in Takes /\ script \in Script /\ turns = script.turns /\ actor[t].at = "idle"
        /\ t # Worker
    BY <1>4, DialogAssumption DEF AcceptTake, Call, At, ScriptsInv, VoiceStored, DialogAssumption
  <2>1. CASE /\ g \in adhoc
             /\ Becomes(t, [AtRest EXCEPT !.at = "demote", !.copy = script, !.take = g, !.turns = turns])
             /\ UNCHANGED queue
    <3>. DEFINE s == [AtRest EXCEPT !.at = "demote", !.copy = script, !.take = g, !.turns = turns]
    <3>1. s \in Actor /\ s.at = "demote" /\ s.copy = script /\ s.take = g /\ s.turns = turns
      BY <2>0 DEF AtRest, Actor, Places
    <3>2. actor' = [actor EXCEPT ![t] = s]
      BY <2>1 DEF Becomes
    <3>. HIDE DEF s
    <3>3. Sound(t, s)
      BY <2>0, <3>1 DEF Sound, LockedPlaces, Accepting
    <3>4. ActorMoves(t, s)
      BY <1>0, <3>1, <3>2, <3>3 DEF ActorMoves
    <3>5. Peopled' /\ Locking'
      BY <1>4, <2>0, <3>1, <3>4, QuietStep DEF AcceptTake, lockVars, LockedPlaces
    <3>6. VoiceStored' /\ queue' \in Seq(SoundJob)
      BY <1>4, <2>1 DEF AcceptTake, Call, ScriptsInv, VoiceStored, takeVars
    <3>. QED BY <3>5, <3>6 DEF ScriptsInv
  <2>2. CASE /\ g \in CachedFor(turns) \ adhoc
             /\ queue' = Append(queue, [at |-> "accept", take |-> g, turns |-> turns])
             /\ UNCHANGED actor
    <3>1. [at |-> "accept", take |-> g, turns |-> turns] \in SoundJob
      BY <2>0, <2>2 DEF SoundJob, Job, CachedFor
    <3>2. queue' \in Seq(SoundJob)
      BY <2>2, <3>1 DEF ScriptsInv
    <3>3. UNCHANGED <<script, lock, raced, actor>> /\ VoiceStored'
      BY <1>4, <2>2 DEF AcceptTake, Call, ScriptsInv, VoiceStored, takeVars, lockVars
    <3>. QED BY <3>2, <3>3 DEF ScriptsInv, Peopled, Locking, OneLocks, LockedCopyIsCurrent
  <2>. QED BY <1>4, <2>1, <2>2 DEF AcceptTake
<1>. QED BY <1>1, <1>2, <1>3, <1>4 DEF VoiceStep

LEMMA AcceptStepSound ==
  ASSUME ScriptsInv, NEW a \in Actors, AcceptStep(a)
  PROVE  ScriptsInv'
<1>0. actor[a] \in Actor /\ Sound(a, actor[a]) /\ now \in Nat
  BY DEF ScriptsInv, Peopled, VoiceStored
<1>. PICK copy : copy = actor[a].copy
  OBVIOUS
<1>. PICK g : g = actor[a].take
  OBVIOUS
<1>1. ASSUME DemoteOutgoing(a) PROVE ScriptsInv'
  <2>. DEFINE s == [actor[a] EXCEPT !.at = "promote"]
  <2>1. actor[a].at = "demote" /\ copy \in Script /\ g \in Takes /\ copy.turns = actor[a].turns
        /\ actor[a].turns \in Turns /\ (a = Worker => actor[a].turns = KeyOf[g])
    BY <1>0, <1>1 DEF DemoteOutgoing, At, Sound, Accepting
  <2>2. s \in Actor /\ s.at = "promote" /\ s.copy = copy /\ s.take = g
        /\ s.turns = actor[a].turns
    BY <1>0, GoesTo DEF Places
  <2>3. actor' = [actor EXCEPT ![a] = s]
    BY <1>1 DEF DemoteOutgoing, Goto, Becomes
  <2>. HIDE DEF s
  <2>4. Sound(a, s)
    BY <2>1, <2>2 DEF Sound, LockedPlaces, Accepting
  <2>5. ActorMoves(a, s)
    BY <2>2, <2>3, <2>4 DEF ActorMoves
  <2>6. UNCHANGED <<script, lock, raced, made, cached, composed, queue, now, calls>>
    BY <1>1 DEF DemoteOutgoing, lockVars, countVars
  <2>7. Peopled' /\ Locking'
    BY <2>1, <2>2, <2>5, <2>6, QuietStep DEF LockedPlaces
  <2>8. adhoc' \subseteq Takes /\ promoted' \subseteq Takes /\ durable' \subseteq made
    <3>1. CASE UNCHANGED <<promoted, adhoc, durable>>
      BY <3>1 DEF ScriptsInv, VoiceStored
    <3>2. CASE /\ Demotes(copy.voice.take)
               /\ durable' = IF a = Worker /\ KeyOf[copy.voice.take] = copy.voice.key
                           THEN durable \ {copy.voice.take} ELSE durable
      BY <3>2, Demoting DEF ScriptsInv, VoiceStored
    <3>. QED BY <1>1, <3>1, <3>2 DEF DemoteOutgoing
  <2>9. VoiceStored' /\ queue' \in Seq(SoundJob)
    BY <2>6, <2>8 DEF ScriptsInv, VoiceStored
  <2>. QED BY <2>7, <2>9 DEF ScriptsInv
<1>2. ASSUME PromoteTake(a) PROVE ScriptsInv'
  <2>1. actor[a].at = "promote" /\ copy \in Script /\ g \in Takes /\ copy.turns = actor[a].turns
        /\ actor[a].turns \in Turns /\ (a = Worker => actor[a].turns = KeyOf[g])
    BY <1>0, <1>2 DEF PromoteTake, At, Sound, Accepting
  <2>2. UNCHANGED <<script, lock, raced, made, cached, durable, composed, queue, now, calls>>
    BY <1>2 DEF PromoteTake, lockVars, countVars
  <2>3. CASE g \in adhoc
    <3>. DEFINE s == [actor[a] EXCEPT !.at = "publish"]
    <3>1. s \in Actor /\ s.at = "publish" /\ s.copy = copy /\ s.take = g
          /\ s.turns = actor[a].turns
      BY <1>0, GoesTo DEF Places
    <3>2. actor' = [actor EXCEPT ![a] = s] /\ adhoc' = adhoc \ {g} /\ promoted' = promoted \cup {g}
      BY <1>2, <2>3 DEF PromoteTake, Goto, Becomes
    <3>. HIDE DEF s
    <3>3. Sound(a, s)
      BY <2>1, <3>1 DEF Sound, LockedPlaces, Accepting
    <3>4. ActorMoves(a, s)
      BY <3>1, <3>2, <3>3 DEF ActorMoves
    <3>5. Peopled' /\ Locking'
      BY <2>1, <2>2, <3>1, <3>4, QuietStep DEF LockedPlaces
    <3>6. adhoc' \subseteq Takes /\ promoted' \subseteq Takes
      BY <2>1, <3>2 DEF ScriptsInv, VoiceStored
    <3>. QED BY <2>2, <3>5, <3>6, StoredKept DEF ScriptsInv
  <2>4. CASE g \notin adhoc
    <3>1. ActorMoves(a, AtRest) /\ UNCHANGED <<adhoc, promoted>>
      BY <1>2, <2>4, EndSound DEF PromoteTake
    <3>2. Peopled' /\ Locking'
      BY <2>1, <2>2, <3>1, IdleSound, QuietStep DEF LockedPlaces
    <3>3. adhoc' \subseteq Takes /\ promoted' \subseteq Takes
      BY <3>1 DEF ScriptsInv, VoiceStored
    <3>. QED BY <2>2, <3>2, <3>3, StoredKept DEF ScriptsInv
  <2>. QED BY <2>3, <2>4
<1>3. ASSUME PublishAccepted(a) PROVE ScriptsInv'
  <2>1. copy \in Script /\ g \in Takes /\ actor[a].at = "publish" /\ actor[a].turns \in Turns
    BY <1>0, <1>3 DEF PublishAccepted, At, Sound, Accepting
  <2>2. [take |-> g, key |-> actor[a].turns] \in Voice
    BY <2>1 DEF Voice
  <2>3. Later(now, copy.updated + 1) \in Nat
    BY <1>0, <2>1, LaterNat DEF Script
  <2>. DEFINE document == [copy EXCEPT !.voice = [take |-> g, key |-> actor[a].turns], !.updated = Later(now, @ + 1)]
  <2>4. document \in Script
    BY <2>1, <2>2, <2>3 DEF Script
  <2>5. PublishLockless(a, document)
    BY <1>3 DEF PublishAccepted
  <2>. HIDE DEF document
  <2>. QED BY <2>1, <2>4, <2>5, LocklessStep DEF LockedPlaces
<1>. QED BY <1>1, <1>2, <1>3 DEF AcceptStep

-----------------------------------------------------------------------------
(* Jobs.                                                                   *)

LEMMA SubmitSound ==
  ASSUME ScriptsInv, NEW t \in Threads, SubmitStep(t)
  PROVE  ScriptsInv'
<1>1. ASSUME NEW job \in SoundJob, Submit(t, job) PROVE ScriptsInv'
  <2>1. queue' \in Seq(SoundJob)
    BY <1>1 DEF Submit, ScriptsInv
  <2>2. UNCHANGED <<script, lock, raced, actor>> /\ VoiceStored'
    BY <1>1 DEF Submit, Call, ScriptsInv, VoiceStored, takeVars, lockVars
  <2>. QED BY <2>1, <2>2 DEF ScriptsInv, Peopled, Locking, OneLocks, LockedCopyIsCurrent
<1>2. [at |-> "render", take |-> Nothing, turns |-> Nothing] \in SoundJob
  BY DEF SoundJob, Job
<1>3. \A g \in made : [at |-> "render", take |-> g, turns |-> Nothing] \in SoundJob
  BY DEF SoundJob, Job, ScriptsInv, VoiceStored
<1>4. \A turns \in Turns : [at |-> "preview", take |-> Nothing, turns |-> turns] \in SoundJob
  BY DEF SoundJob, Job
<1>. QED BY <1>1, <1>2, <1>3, <1>4 DEF SubmitStep, RenderScript, RenderTake, PreviewTurns

\* A step of the worker that leaves document, lock and queue alone.
LEMMA WorkerMoves ==
  ASSUME ScriptsInv, NEW s, ActorMoves(Worker, s), actor[Worker].at \notin LockedPlaces, s.at \notin LockedPlaces,
         UNCHANGED <<script, lock, raced, composed, queue, now, calls>>,
         made' \subseteq Takes, cached' \subseteq made', durable' \subseteq made',
         adhoc' \subseteq Takes, promoted' \subseteq Takes
  PROVE  ScriptsInv'
BY QuietStep DEF ScriptsInv, VoiceStored

LEMMA WorkerEnds ==
  ASSUME ScriptsInv, Becomes(Worker, AtRest), actor[Worker].at \notin LockedPlaces,
         UNCHANGED <<script, lock, raced, composed, queue, now, calls, made, cached, durable, adhoc, promoted>>
  PROVE  ScriptsInv'
<1>1. ActorMoves(Worker, AtRest)
  BY EndSound DEF Actors
<1>. QED BY <1>1, IdleSound, WorkerMoves DEF LockedPlaces, ScriptsInv, VoiceStored

LEMMA TakeJobSound ==
  ASSUME ScriptsInv, TakeJob
  PROVE  ScriptsInv'
<1>. DEFINE job == Head(queue)
            s == [AtRest EXCEPT !.at = job.at, !.asked = job.take, !.take = job.take, !.turns = job.turns]
<1>1. job \in SoundJob /\ queue' \in Seq(SoundJob)
  BY DEF TakeJob, ScriptsInv
<1>2. actor' = [actor EXCEPT ![Worker] = s] /\ actor[Worker].at = "idle"
  BY DEF TakeJob, Becomes, At
<1>. HIDE DEF job
<1>3. /\ s \in Actor /\ s.at = job.at /\ s.take = job.take /\ s.turns = job.turns
      /\ s.at \in {"accept", "render", "preview"}
  BY <1>1 DEF AtRest, Actor, Places, SoundJob, Job
<1>. HIDE DEF s
<1>3a. s.at = "accept" => s.take \in Takes /\ s.turns = KeyOf[s.take] /\ s.turns \in Turns
  BY <1>1, <1>3, DialogAssumption DEF SoundJob, DialogAssumption
<1>4. Sound(Worker, s)
  BY <1>1, <1>3, <1>3a DEF Sound, SoundJob, LockedPlaces, Accepting
<1>5. ActorMoves(Worker, s)
  BY <1>2, <1>3, <1>4 DEF ActorMoves, Actors
<1>6. Peopled' /\ Locking'
  BY <1>2, <1>3, <1>5, QuietStep DEF TakeJob, lockVars, LockedPlaces
<1>7. VoiceStored'
  BY DEF TakeJob, ScriptsInv, VoiceStored, takeVars, countVars
<1>. QED BY <1>1, <1>6, <1>7 DEF ScriptsInv

\* The worker holds a take it found or had made.
LEMMA HoldsSound ==
  ASSUME ScriptsInv, NEW g \in Takes, NEW place \in {"show", "listen"}, Holds(g, place),
         actor[Worker].at \in {"load", "preview"},
         place = "show" => /\ actor[Worker].at = "load"
                           /\ LET me == actor[Worker]
                              IN  me.asked = Nothing /\ me.copy.voice # Nothing =>
                                    g = me.copy.voice.take /\ KeyOf[g] = me.copy.turns,
         UNCHANGED <<script, lock, raced, composed, queue, now, calls, durable, adhoc, promoted>>,
         made' \subseteq Takes, made \subseteq made', cached' \subseteq made'
  PROVE  ScriptsInv'
<1>. DEFINE w == actor[Worker]
            s == [w EXCEPT !.at = place, !.take = g]
<1>1. w \in Actor /\ Sound(Worker, w) /\ Worker \in Actors
  BY DEF ScriptsInv, Peopled, Actors
<1>2. /\ s \in Actor /\ s.at = place /\ s.copy = w.copy /\ s.take = g
      /\ s.asked = w.asked
  <2>1. place \in Places
    BY DEF Places
  <2>. QED BY <1>1, <2>1 DEF Actor
<1>3. actor' = [actor EXCEPT ![Worker] = s]
  BY DEF Holds, Becomes
<1>. HIDE DEF s
<1>4. Sound(Worker, s)
  BY <1>1, <1>2 DEF Sound, LockedPlaces, Accepting
<1>5. ActorMoves(Worker, s)
  BY <1>1, <1>2, <1>3, <1>4 DEF ActorMoves
<1>. QED BY <1>2, <1>5, WorkerMoves DEF LockedPlaces, ScriptsInv, VoiceStored

LEMMA GenerateSound ==
  ASSUME ScriptsInv, NEW turns, NEW place \in {"show", "listen"}, Generate(turns, place),
         actor[Worker].at \in {"load", "preview"},
         place = "show" => /\ actor[Worker].at = "load"
                           /\ LET me == actor[Worker] IN ~(me.asked = Nothing /\ me.copy.voice # Nothing),
         UNCHANGED <<script, lock, raced, composed, queue, now, calls, durable, adhoc, promoted>>
  PROVE  ScriptsInv'
<1>1. ASSUME NEW g \in Takes \ made, Holds(g, place),
             made' = made \cup {g}, cached' = cached \cup {g}
      PROVE  ScriptsInv'
  <2>1. made' \subseteq Takes /\ made \subseteq made' /\ cached' \subseteq made'
    BY <1>1 DEF ScriptsInv, VoiceStored
  <2>. QED BY <1>1, <2>1, HoldsSound
<1>2. ASSUME Becomes(Worker, AtRest), UNCHANGED <<made, cached>> PROVE ScriptsInv'
  BY <1>2, WorkerEnds DEF LockedPlaces
<1>. QED BY <1>1, <1>2 DEF Generate

LEMMA ReuseSound ==
  ASSUME ScriptsInv, NEW turns, NEW place \in {"show", "listen"}, ReuseOrGenerate(turns, place),
         actor[Worker].at \in {"load", "preview"},
         place = "show" => /\ actor[Worker].at = "load"
                           /\ LET me == actor[Worker] IN ~(me.asked = Nothing /\ me.copy.voice # Nothing),
         UNCHANGED <<script, lock, raced, composed, queue, now, calls, durable, adhoc, promoted>>
  PROVE  ScriptsInv'
<1>1. ASSUME NEW g \in CachedFor(turns), Holds(g, place), UNCHANGED <<made, cached>>
      PROVE  ScriptsInv'
  <2>1. g \in Takes /\ made' \subseteq Takes /\ made \subseteq made' /\ cached' \subseteq made'
    BY <1>1 DEF ScriptsInv, VoiceStored, CachedFor
  <2>. QED BY <1>1, <2>1, HoldsSound
<1>. QED BY <1>1, GenerateSound DEF ReuseOrGenerate

LEMMA WorkerStepSound ==
  ASSUME ScriptsInv, WorkerStep
  PROVE  ScriptsInv'
<1>. PICK me : me = actor[Worker]
  OBVIOUS
<1>0. me \in Actor /\ Sound(Worker, me) /\ Worker \in Actors
  BY DEF ScriptsInv, Peopled, Actors
<1>1. ASSUME NEW place, NEW next \in {"export", "load"}, NEW fits \in BOOLEAN,
             ReadScript(place, next, fits), place \in {"accept", "render"},
             next = "export" => place = "accept" /\ (fits => script.turns = me.turns)
      PROVE  ScriptsInv'
  <2>1. /\ UNCHANGED <<script, lock, raced, composed, queue, now, calls, made, cached, durable, adhoc, promoted>>
        /\ me.at = place
    BY <1>1 DEF ReadScript, takeVars, lockVars, countVars, At
  <2>2. CASE script # Nothing /\ fits
    <3>. DEFINE s == [me EXCEPT !.at = next, !.copy = script]
    <3>1. script \in Script
      BY <2>2 DEF ScriptsInv, VoiceStored
    <3>2. /\ s \in Actor /\ s.at = next /\ s.copy = script /\ s.take = me.take
          /\ s.turns = me.turns
      <4>1. next \in Places
        BY <1>1 DEF Places
      <4>. QED BY <1>0, <3>1, <4>1 DEF Actor
    <3>3. actor' = [actor EXCEPT ![Worker] = s]
      BY <1>1, <2>2 DEF ReadScript, Becomes
    <3>. HIDE DEF s
    <3>4. Sound(Worker, s)
      BY <1>0, <1>1, <2>1, <2>2, <3>1, <3>2 DEF Sound, LockedPlaces, Accepting
    <3>5. ActorMoves(Worker, s)
      BY <1>0, <3>2, <3>3, <3>4 DEF ActorMoves
    <3>. QED BY <1>1, <2>1, <3>2, <3>5, WorkerMoves DEF LockedPlaces, ScriptsInv, VoiceStored
  <2>3. CASE ~(script # Nothing /\ fits)
    BY <1>1, <2>1, <2>3, WorkerEnds DEF ReadScript, LockedPlaces
  <2>. QED BY <2>2, <2>3
<1>2. ASSUME AcceptRead PROVE ScriptsInv'
  <2>1. ReadScript("accept", "export", script.turns = me.turns)
    BY <1>2 DEF AcceptRead
  <2>. QED BY <1>1, <2>1
<1>3. ASSUME NEW place \in {"export", "store"}, NEW next \in {"store", "demote"}, me.at = place,
             next = "store" => place = "export",
             IF me.take \in CachedFor(me.turns) THEN Goto(Worker, next) ELSE Becomes(Worker, AtRest),
             UNCHANGED <<script, lock, raced, composed, queue, now, calls, made, cached, promoted>>,
             adhoc' \subseteq Takes, durable' \subseteq made,
             me.take \notin CachedFor(me.turns) => UNCHANGED <<adhoc, durable>>
      PROVE  ScriptsInv'
  <2>1. CASE me.take \in CachedFor(me.turns)
    <3>. DEFINE s == [me EXCEPT !.at = next]
    <3>1. /\ s \in Actor /\ s.at = next /\ s.copy = me.copy /\ s.take = me.take
          /\ s.turns = me.turns
      <4>1. next \in Places
        BY <1>3 DEF Places
      <4>. QED BY <1>0, <4>1 DEF Actor
    <3>2. actor' = [actor EXCEPT ![Worker] = s]
      BY <1>3, <2>1 DEF Goto, Becomes
    <3>. HIDE DEF s
    <3>3. Sound(Worker, s)
      BY <1>0, <1>3, <3>1 DEF Sound, LockedPlaces, Accepting
    <3>4. ActorMoves(Worker, s)
      BY <1>0, <3>1, <3>2, <3>3 DEF ActorMoves
    <3>. QED BY <1>3, <3>1, <3>4, WorkerMoves DEF LockedPlaces, ScriptsInv, VoiceStored
  <2>2. CASE me.take \notin CachedFor(me.turns)
    BY <1>3, <2>2, WorkerEnds DEF LockedPlaces
  <2>. QED BY <2>1, <2>2
<1>4. ASSUME AcceptExport PROVE ScriptsInv'
  <2>1. /\ me.at = "export"
        /\ IF me.take \in CachedFor(me.turns) THEN Goto(Worker, "store") ELSE Becomes(Worker, AtRest)
        /\ UNCHANGED <<script, lock, raced, composed, queue, now, calls, made, cached, promoted, durable>>
        /\ adhoc' = IF me.take \in CachedFor(me.turns) THEN adhoc \cup {me.take} ELSE adhoc
    BY <1>4 DEF AcceptExport, At, lockVars, countVars
  <2>2. adhoc' \subseteq Takes /\ durable' \subseteq made
    BY <2>1 DEF ScriptsInv, VoiceStored, CachedFor
  <2>. QED BY <1>3, <2>1, <2>2
<1>5. ASSUME AcceptStore PROVE ScriptsInv'
  <2>1. /\ me.at = "store"
        /\ IF me.take \in CachedFor(me.turns) THEN Goto(Worker, "demote") ELSE Becomes(Worker, AtRest)
        /\ UNCHANGED <<script, lock, raced, composed, queue, now, calls, made, cached, promoted, adhoc>>
        /\ durable' = IF me.take \in CachedFor(me.turns) THEN durable \cup {me.take} ELSE durable
    BY <1>5 DEF AcceptStore, At, lockVars, countVars
  <2>2. adhoc' \subseteq Takes /\ durable' \subseteq made
    BY <2>1 DEF ScriptsInv, VoiceStored, CachedFor
  <2>. QED BY <1>3, <2>1, <2>2
<1>6. ASSUME RenderRead PROVE ScriptsInv'
  BY <1>1, <1>6 DEF RenderRead
<1>7. ASSUME RenderLoad PROVE ScriptsInv'
  <2>. DEFINE turns == me.copy.turns
              accepted == me.asked = Nothing /\ me.copy.voice # Nothing
              wanted == IF accepted THEN me.copy.voice.take ELSE me.asked
              found == \/ wanted \in CachedFor(turns)
                       \/ accepted /\ wanted \in durable /\ KeyOf[wanted] = turns
  <2>1. /\ UNCHANGED <<script, lock, raced, composed, queue, now, calls, durable, adhoc, promoted>>
        /\ me.at = "load"
    BY <1>7 DEF RenderLoad, lockVars, countVars, At
  <2>2. CASE found
    <3>1. Holds(wanted, "show") /\ UNCHANGED <<made, cached>>
      BY <1>7, <2>2 DEF RenderLoad
    <3>2. wanted \in Takes /\ KeyOf[wanted] = turns
      BY <2>2 DEF CachedFor, ScriptsInv, VoiceStored
    <3>3. made' \subseteq Takes /\ made \subseteq made' /\ cached' \subseteq made'
      BY <3>1 DEF ScriptsInv, VoiceStored
    <3>. QED BY <2>1, <3>1, <3>2, <3>3, HoldsSound
  <2>3. CASE accepted /\ ~found
    <3>1. Becomes(Worker, AtRest) /\ UNCHANGED <<made, cached>>
      BY <1>7, <2>3 DEF RenderLoad
    <3>. QED BY <2>1, <3>1, WorkerEnds DEF LockedPlaces
  <2>4. CASE ~accepted /\ ~found
    <3>1. ReuseOrGenerate(turns, "show")
      BY <1>7, <2>4 DEF RenderLoad
    <3>. QED BY <2>1, <2>4, <3>1, ReuseSound
  <2>. QED BY <2>2, <2>3, <2>4
<1>8. ASSUME RenderDone PROVE ScriptsInv'
  BY <1>8, WorkerEnds DEF RenderDone, At, takeVars, lockVars, countVars, LockedPlaces
<1>9. ASSUME PreviewLoad PROVE ScriptsInv'
  <2>1. /\ UNCHANGED <<script, lock, raced, composed, queue, now, calls, durable, adhoc, promoted>>
        /\ me.at = "preview"
        /\ ReuseOrGenerate(me.turns, "listen") \/ Generate(me.turns, "listen")
    BY <1>9 DEF PreviewLoad, lockVars, countVars, At
  <2>. QED BY <2>1, ReuseSound, GenerateSound
<1>10. ASSUME PreviewExport PROVE ScriptsInv'
  <2>1. /\ UNCHANGED <<script, lock, raced, composed, queue, now, calls, made, cached, promoted, durable>>
        /\ me.at = "listen" /\ Becomes(Worker, AtRest)
        /\ adhoc' = adhoc \cup {me.take} \/ adhoc' = adhoc
    BY <1>10 DEF PreviewExport, lockVars, countVars, At
  <2>2. adhoc' \subseteq Takes
    BY <1>0, <2>1 DEF Sound, ScriptsInv, VoiceStored
  <2>3. ActorMoves(Worker, AtRest)
    BY <1>0, <2>1, EndSound
  <2>. QED BY <2>1, <2>2, <2>3, IdleSound, WorkerMoves DEF LockedPlaces, ScriptsInv, VoiceStored
<1>. QED BY <1>2, <1>4, <1>5, <1>6, <1>7, <1>8, <1>9, <1>10, TakeJobSound DEF WorkerStep

LEMMA ComposerStepSound ==
  ASSUME ScriptsInv, ComposerStep
  PROVE  ScriptsInv'
<1>. PICK me : me = actor[Composer]
  OBVIOUS
<1>0. me \in Actor /\ Sound(Composer, me) /\ Composer \in Actors
  BY DEF ScriptsInv, Peopled, Actors
<1>1. ASSUME NEW g \in made, ComposeMusic(g) PROVE ScriptsInv'
  <2>. DEFINE s == [AtRest EXCEPT !.at = "compose", !.copy = script]
  <2>1. s \in Actor /\ s.at = "compose" /\ s.copy = script /\ script \in Script
    BY <1>1 DEF AtRest, Actor, Places, ComposeMusic, ScriptsInv, VoiceStored
  <2>2. actor' = [actor EXCEPT ![Composer] = s] /\ me.at = "idle"
    BY <1>1 DEF ComposeMusic, Becomes, At
  <2>. HIDE DEF s
  <2>3. Sound(Composer, s)
    BY <2>1 DEF Sound, LockedPlaces, Accepting
  <2>4. ActorMoves(Composer, s)
    BY <1>0, <2>1, <2>2, <2>3 DEF ActorMoves
  <2>5. Peopled' /\ Locking'
    BY <1>1, <2>1, <2>2, <2>4, QuietStep DEF ComposeMusic, lockVars, LockedPlaces
  <2>6. VoiceStored' /\ queue' \in Seq(SoundJob)
    BY <1>1 DEF ComposeMusic, ScriptsInv, VoiceStored, takeVars
  <2>. QED BY <2>5, <2>6 DEF ScriptsInv
<1>2. ASSUME SaveMusic PROVE ScriptsInv'
  <2>1. me.at = "compose" /\ me.copy \in Script
    BY <1>0, <1>2 DEF SaveMusic, At, Sound
  <2>2. [turns |-> me.copy.turns, revision |-> me.copy.updated] \in Music
    BY <2>1 DEF Script, Music
  <2>3. composed' \subseteq Music
    BY <1>2, <2>2 DEF SaveMusic, ScriptsInv, VoiceStored
  <2>4. ActorMoves(Composer, AtRest)
    BY <1>0, <1>2, EndSound DEF SaveMusic
  <2>5. Peopled' /\ Locking'
    BY <1>2, <2>1, <2>4, IdleSound, QuietStep DEF SaveMusic, lockVars, LockedPlaces
  <2>6. VoiceStored' /\ queue' \in Seq(SoundJob)
    BY <1>2, <2>3 DEF SaveMusic, ScriptsInv, VoiceStored, takeVars, countVars
  <2>. QED BY <2>5, <2>6 DEF ScriptsInv
<1>. QED BY <1>1, <1>2 DEF ComposerStep

LEMMA PublishFailsSound ==
  ASSUME ScriptsInv, NEW a \in Actors, PublishFails(a)
  PROVE  ScriptsInv'
<1>1. ActorMoves(a, AtRest)
  BY EndSound DEF PublishFails
<1>2. actor'[a] = AtRest /\ \A b \in Actors \ {a} : actor'[b] = actor[b]
  BY <1>1, MoveKeeps
<1>3. VoiceStored' /\ queue' \in Seq(SoundJob) /\ script' = script
  BY DEF PublishFails, ScriptsInv, VoiceStored, takeVars, countVars
<1>4. CASE actor[a].at \in LockedPlaces
  <2>1. lock' = Nothing /\ raced' = FALSE
    BY <1>4 DEF PublishFails
  <2>2. \A b \in Actors \ {a} : actor[b].at \notin LockedPlaces
    BY <1>4 DEF ScriptsInv, Locking, OneLocks
  <2>3. \A b \in Actors : actor'[b].at \notin LockedPlaces
    BY <1>2, <2>2, IdleSound DEF LockedPlaces
  <2>4. Locking'
    BY <2>1, <2>3, DialogAssumption DEF Locking, OneLocks, LockedCopyIsCurrent, DialogAssumption
  <2>. QED BY <1>1, <1>3, <2>4, MoveKeeps DEF ScriptsInv
<1>5. CASE actor[a].at \notin LockedPlaces
  <2>1. UNCHANGED <<script, lock, raced>>
    BY <1>3, <1>5 DEF PublishFails, lockVars
  <2>2. Peopled' /\ Locking'
    BY <1>1, <1>5, <2>1, IdleSound, QuietStep DEF LockedPlaces
  <2>. QED BY <1>3, <2>2 DEF ScriptsInv
<1>. QED BY <1>4, <1>5

LEMMA RestartSound ==
  ASSUME ScriptsInv, ScriptsRestart
  PROVE  ScriptsInv'
<1>1. actor' \in [Actors -> Actor] /\ \A a \in Actors : actor'[a] = AtRest
  BY IdleSound DEF ScriptsRestart
<1>2. Peopled'
  BY <1>1, IdleSound DEF Peopled
<1>3. lock' = Nothing /\ raced' = FALSE /\ queue' = <<>>
  BY DEF ScriptsRestart
<1>4. Locking'
  BY <1>1, <1>3, IdleSound, DialogAssumption DEF Locking, OneLocks, LockedCopyIsCurrent, LockedPlaces, DialogAssumption
<1>5. VoiceStored'
  BY DEF ScriptsRestart, ScriptsInv, VoiceStored, takeVars, countVars
<1>. QED BY <1>2, <1>3, <1>4, <1>5 DEF ScriptsInv

LEMMA ScriptsInvInit == ScriptsInit => ScriptsInv
<1>. SUFFICES ASSUME ScriptsInit PROVE ScriptsInv
  OBVIOUS
<1>1. script \in Script /\ VoiceStored
  BY DialogAssumption DEF ScriptsInit, VoiceStored, Script, DialogAssumption
<1>2. Peopled
  BY IdleSound DEF ScriptsInit, Peopled
<1>3. Locking
  BY IdleSound, DialogAssumption DEF ScriptsInit, Locking, OneLocks, LockedCopyIsCurrent, LockedPlaces, DialogAssumption
<1>. QED BY <1>1, <1>2, <1>3 DEF ScriptsInit, ScriptsInv

LEMMA ScriptsInvStep ==
  ASSUME ScriptsInv, [ScriptsNext]_scriptsVars
  PROVE  ScriptsInv'
<1>1. ASSUME UNCHANGED <<script, lock, raced, actor, queue>>, VoiceStored' PROVE ScriptsInv'
  BY <1>1 DEF ScriptsInv, Peopled, Locking, OneLocks, LockedCopyIsCurrent
<1>2. ASSUME UNCHANGED scriptsVars PROVE ScriptsInv'
  BY <1>1, <1>2 DEF scriptsVars, takeVars, lockVars, countVars, ScriptsInv, VoiceStored
<1>3. ASSUME Tick PROVE ScriptsInv'
  BY <1>1, <1>3 DEF Tick, takeVars, lockVars, ScriptsInv, VoiceStored
<1>4. ASSUME NEW g \in Takes, Sweep(g) PROVE ScriptsInv'
  BY <1>1, <1>4 DEF Sweep, lockVars, countVars, ScriptsInv, VoiceStored
<1>. QED BY <1>2, <1>3, <1>4, ScriptStepSound, VoiceStepSound, SubmitSound, AcceptStepSound,
            PublishFailsSound, WorkerStepSound, ComposerStepSound, RestartSound DEF ScriptsNext

(***************************************************************************)
(* For any number of HTTP threads the mutation lock has one holder,        *)
(* whoever edits under it replaces the document it read, unless an         *)
(* acceptance, which takes no lock, has overtaken it, and music goes to    *)
(* turns it was composed for.                                              *)
(***************************************************************************)
THEOREM ScriptsStayConsistent == ScriptsSpec => []ScriptsConsistent
<1>1. ASSUME ScriptsInv PROVE ScriptsConsistent
  <2>1. Seq(SoundJob) \subseteq Seq(Job)
    BY DEF SoundJob
  <2>2. ScriptsTypeOK
    BY <1>1, <2>1 DEF ScriptsInv, VoiceStored, Peopled, Locking, ScriptsTypeOK
  <2>3. MusicFits
    BY <1>1 DEF ScriptsInv, Peopled, Sound, MusicFits, At
  <2>. QED BY <1>1, <2>2, <2>3 DEF ScriptsInv, Locking, ScriptsConsistent
<1>. QED BY <1>1, ScriptsInvInit, ScriptsInvStep, PTL DEF ScriptsSpec

(***************************************************************************)
(* An acceptance on its way to the document, at once or through a job, is  *)
(* stored with the turns it was asked for, whatever was edited since; one  *)
(* that waited in the queue is of a take made for these turns.             *)
(***************************************************************************)
THEOREM AcceptancesAreFresh == ScriptsSpec => []AcceptancesLandFresh
<1>1. ScriptsInv => AcceptancesLandFresh
  BY DEF ScriptsInv, Peopled, Sound, Accepting, AcceptancesLandFresh
<1>. QED BY <1>1, ScriptsInvInit, ScriptsInvStep, PTL DEF ScriptsSpec

(***************************************************************************)
(* A script's accepted take is rendered or nothing is.                     *)
(***************************************************************************)
THEOREM AcceptedTakeIsRendered == ScriptsSpec => []RendersAcceptedTake
<1>1. ScriptsInv => RendersAcceptedTake
  BY DEF ScriptsInv, Peopled, Sound, RendersAcceptedTake, At, Actors
<1>. QED BY <1>1, ScriptsInvInit, ScriptsInvStep, PTL DEF ScriptsSpec

-----------------------------------------------------------------------------
(* Programs.  A request is where the head of its program is: the step that *)
(* follows, or "end", is determined by the kind and the step.              *)

Animating == {"renderAnimation", "rerenderAnimation", "saveAnimation", "saveAnimationBare", "lipSyncAnimation"}

Putting == {"registerCreature", "upsertCreature", "upsertFixture", "upsertFixtureKeeping"}

Assigning == {"registerCreature", "upsertFixture", "upsertFixtureKeeping", "setFixtureUniverse", "deleteFixture"}

Replacing ==
  {"createStage", "updateStage", "createStoryboard", "updateStoryboard", "upsertPlaylist",
   "writeSoundFile", "publishAdHocAnimation", "publishAdHocExchange"} \cup Animating

Fits(kind, a, b) ==
  \/ a = "lookup" /\ b = "find" /\ kind \in {"useCreature", "useFixture"}
  \/ a = "find" /\ b = "cache" /\ kind \in Readers \cup {"setFixtureUniverse"}
  \/ a = "find" /\ b = "carry" /\ kind \in {"saveAnimation", "saveAnimationBare", "lipSyncAnimation"}
  \/ a = "find" /\ b = "readStage" /\ kind = "rerenderAnimation"
  \/ a = "readStage" /\ b = "carry" /\ kind \in {"renderAnimation", "rerenderAnimation"}
  \/ a = "carry" /\ b = "replace" /\ kind \in Animating
  \/ a = "check" /\ b = "replace" /\ kind \in {"updateStage", "updateStoryboard"}
  \/ a = "check" /\ b = "delete" /\ kind = "deleteAnimation"
  \/ a = "backfill" /\ b = "replace" /\ kind = "upsertFixtureKeeping"
  \/ a = "replace" /\ b = "cache" /\ kind \in Putting
  \/ a = "replace" /\ b = "announce" /\ kind \in Replacing
  \/ a = "update" /\ b = "announce" /\ kind \in {"setFixtureUniverse", "finalizeAdHocExchange"}
  \/ a = "delete" /\ b = "uncache" /\ kind = "deleteFixture"
  \/ a = "delete" /\ b = "announce" /\ kind \in {"deleteStage", "deleteAnimation", "deleteStoryboard"}
  \/ a = "uncache" /\ b = "announce" /\ kind = "deleteFixture"
  \/ a = "cache" /\ b = "announce" /\ kind \in Putting
  \/ a = "cache" /\ b = "cache" /\ kind \in {"useCreature", "useFixture"}
  \/ a = "cache" /\ b = "end" /\ kind \in Readers
  \/ a = "cache" /\ b = "unlock" /\ kind = "setFixtureUniverse"
  \/ a = "announce" /\ b = "assign" /\ kind \in Assigning
  \/ a = "announce" /\ b = "announce" /\ kind = "deleteAnimation"
  \/ a = "announce" /\ b = "end" /\ kind \notin Assigning \cup Readers
  \/ a = "assign" /\ b = "find" /\ kind = "setFixtureUniverse"
  \/ a = "assign" /\ b = "end" /\ kind \in Assigning \ {"setFixtureUniverse"}
  \/ a = "lock" /\ b = "update" /\ kind = "setFixtureUniverse"
  \/ a = "unlock" /\ b = "end" /\ kind = "setFixtureUniverse"

\* What is left of the program of a request.
Left(kind, todo) ==
  /\ todo \in Seq(Steps) /\ todo # <<>>
  /\ \A i \in 1 .. Len(todo) : Fits(kind, todo[i], IF i = Len(todo) THEN "end" ELSE todo[i + 1])

\* No request begins after its write.
Opens(kind, step) ==
  /\ kind = "setFixtureUniverse" => step = "lock"
  /\ kind = "saveAnimationBare" => step = "find"
  /\ kind # "invalidate" => step \notin {"cache", "uncache", "announce", "assign"}

\* A program that fits at every place is one a thread can have left.
LEMMA ProgramOfOne ==
  ASSUME NEW kind, NEW P \in Seq(Steps), Len(P) = 1,
         Fits(kind, P[1], "end"),
         Opens(kind, P[1])
  PROVE  Left(kind, P) /\ Opens(kind, Head(P))
<1>1. P # <<>> /\ Head(P) = P[1]
  BY HeadTailProperties
<1>2. ASSUME NEW i \in 1 .. Len(P)
      PROVE  Fits(kind, P[i], IF i = Len(P) THEN "end" ELSE P[i + 1])
  <2>1. i = 1
    OBVIOUS
  <2> QED
    BY <2>1
<1> QED
  BY <1>1, <1>2 DEF Left

LEMMA ProgramOfTwo ==
  ASSUME NEW kind, NEW P \in Seq(Steps), Len(P) = 2,
         Fits(kind, P[1], P[2]), Fits(kind, P[2], "end"),
         Opens(kind, P[1])
  PROVE  Left(kind, P) /\ Opens(kind, Head(P))
<1>1. P # <<>> /\ Head(P) = P[1]
  BY HeadTailProperties
<1>2. ASSUME NEW i \in 1 .. Len(P)
      PROVE  Fits(kind, P[i], IF i = Len(P) THEN "end" ELSE P[i + 1])
  <2>1. i = 1 \/ i = 2
    OBVIOUS
  <2> QED
    BY <2>1
<1> QED
  BY <1>1, <1>2 DEF Left

LEMMA ProgramOfThree ==
  ASSUME NEW kind, NEW P \in Seq(Steps), Len(P) = 3,
         Fits(kind, P[1], P[2]), Fits(kind, P[2], P[3]), Fits(kind, P[3], "end"),
         Opens(kind, P[1])
  PROVE  Left(kind, P) /\ Opens(kind, Head(P))
<1>1. P # <<>> /\ Head(P) = P[1]
  BY HeadTailProperties
<1>2. ASSUME NEW i \in 1 .. Len(P)
      PROVE  Fits(kind, P[i], IF i = Len(P) THEN "end" ELSE P[i + 1])
  <2>1. i = 1 \/ i = 2 \/ i = 3
    OBVIOUS
  <2> QED
    BY <2>1
<1> QED
  BY <1>1, <1>2 DEF Left

LEMMA ProgramOfFour ==
  ASSUME NEW kind, NEW P \in Seq(Steps), Len(P) = 4,
         Fits(kind, P[1], P[2]), Fits(kind, P[2], P[3]), Fits(kind, P[3], P[4]), Fits(kind, P[4], "end"),
         Opens(kind, P[1])
  PROVE  Left(kind, P) /\ Opens(kind, Head(P))
<1>1. P # <<>> /\ Head(P) = P[1]
  BY HeadTailProperties
<1>2. ASSUME NEW i \in 1 .. Len(P)
      PROVE  Fits(kind, P[i], IF i = Len(P) THEN "end" ELSE P[i + 1])
  <2>1. i = 1 \/ i = 2 \/ i = 3 \/ i = 4
    OBVIOUS
  <2> QED
    BY <2>1
<1> QED
  BY <1>1, <1>2 DEF Left

LEMMA ProgramOfFive ==
  ASSUME NEW kind, NEW P \in Seq(Steps), Len(P) = 5,
         Fits(kind, P[1], P[2]), Fits(kind, P[2], P[3]), Fits(kind, P[3], P[4]), Fits(kind, P[4], P[5]),
         Fits(kind, P[5], "end"),
         Opens(kind, P[1])
  PROVE  Left(kind, P) /\ Opens(kind, Head(P))
<1>1. P # <<>> /\ Head(P) = P[1]
  BY HeadTailProperties
<1>2. ASSUME NEW i \in 1 .. Len(P)
      PROVE  Fits(kind, P[i], IF i = Len(P) THEN "end" ELSE P[i + 1])
  <2>1. i = 1 \/ i = 2 \/ i = 3 \/ i = 4 \/ i = 5
    OBVIOUS
  <2> QED
    BY <2>1
<1> QED
  BY <1>1, <1>2 DEF Left

LEMMA ProgramOfSeven ==
  ASSUME NEW kind, NEW P \in Seq(Steps), Len(P) = 7,
         Fits(kind, P[1], P[2]), Fits(kind, P[2], P[3]), Fits(kind, P[3], P[4]), Fits(kind, P[4], P[5]),
         Fits(kind, P[5], P[6]), Fits(kind, P[6], P[7]), Fits(kind, P[7], "end"),
         Opens(kind, P[1])
  PROVE  Left(kind, P) /\ Opens(kind, Head(P))
<1>1. P # <<>> /\ Head(P) = P[1]
  BY HeadTailProperties
<1>2. ASSUME NEW i \in 1 .. Len(P)
      PROVE  Fits(kind, P[i], IF i = Len(P) THEN "end" ELSE P[i + 1])
  <2>1. i = 1 \/ i = 2 \/ i = 3 \/ i = 4 \/ i = 5 \/ i = 6 \/ i = 7
    OBVIOUS
  <2> QED
    BY <2>1
<1> QED
  BY <1>1, <1>2 DEF Left

\* The programs of the thirty kinds.
LEMMA RegisterCreatureFits == Left("registerCreature", RegisterCreature) /\ Opens("registerCreature", Head(RegisterCreature))
<1>1. /\ RegisterCreature \in Seq(Steps) /\ Len(RegisterCreature) = 4
      /\ RegisterCreature[1] = "replace" /\ RegisterCreature[2] = "cache" /\ RegisterCreature[3] = "announce"
      /\ RegisterCreature[4] = "assign"
  BY DEF RegisterCreature, PublishCreature, DbUpsertCreature, Steps
<1>2. /\ Fits("registerCreature", "replace", "cache") /\ Fits("registerCreature", "cache", "announce")
      /\ Fits("registerCreature", "announce", "assign") /\ Fits("registerCreature", "assign", "end")
      /\ Opens("registerCreature", "replace")
  BY DEF Fits, Opens, Animating, Putting, Assigning, Replacing, Readers
<1> QED
  BY <1>1, <1>2, ProgramOfFour

LEMMA UpsertCreatureFits == Left("upsertCreature", PublishCreature) /\ Opens("upsertCreature", Head(PublishCreature))
<1>1. /\ PublishCreature \in Seq(Steps) /\ Len(PublishCreature) = 3
      /\ PublishCreature[1] = "replace" /\ PublishCreature[2] = "cache" /\ PublishCreature[3] = "announce"
  BY DEF PublishCreature, DbUpsertCreature, Steps
<1>2. /\ Fits("upsertCreature", "replace", "cache") /\ Fits("upsertCreature", "cache", "announce")
      /\ Fits("upsertCreature", "announce", "end") /\ Opens("upsertCreature", "replace")
  BY DEF Fits, Opens, Animating, Putting, Assigning, Replacing, Readers
<1> QED
  BY <1>1, <1>2, ProgramOfThree

LEMMA GetCreatureFits == Left("getCreature", DbGetCreature) /\ Opens("getCreature", Head(DbGetCreature))
<1>1. /\ DbGetCreature \in Seq(Steps) /\ Len(DbGetCreature) = 2
      /\ DbGetCreature[1] = "find" /\ DbGetCreature[2] = "cache"
  BY DEF DbGetCreature, Steps
<1>2. /\ Fits("getCreature", "find", "cache") /\ Fits("getCreature", "cache", "end")
      /\ Opens("getCreature", "find")
  BY DEF Fits, Opens, Animating, Putting, Assigning, Replacing, Readers
<1> QED
  BY <1>1, <1>2, ProgramOfTwo

LEMMA GetAllCreaturesFits == Left("getAllCreatures", DbGetAllCreatures) /\ Opens("getAllCreatures", Head(DbGetAllCreatures))
<1>1. /\ DbGetAllCreatures \in Seq(Steps) /\ Len(DbGetAllCreatures) = 2
      /\ DbGetAllCreatures[1] = "find" /\ DbGetAllCreatures[2] = "cache"
  BY DEF DbGetAllCreatures, Steps
<1>2. /\ Fits("getAllCreatures", "find", "cache") /\ Fits("getAllCreatures", "cache", "end")
      /\ Opens("getAllCreatures", "find")
  BY DEF Fits, Opens, Animating, Putting, Assigning, Replacing, Readers
<1> QED
  BY <1>1, <1>2, ProgramOfTwo

LEMMA UseCreatureFits == Left("useCreature", UseCreature) /\ Opens("useCreature", Head(UseCreature))
<1>1. /\ UseCreature \in Seq(Steps) /\ Len(UseCreature) = 4
      /\ UseCreature[1] = "lookup" /\ UseCreature[2] = "find" /\ UseCreature[3] = "cache"
      /\ UseCreature[4] = "cache"
  BY DEF UseCreature, DbGetCreature, Steps
<1>2. /\ Fits("useCreature", "lookup", "find") /\ Fits("useCreature", "find", "cache")
      /\ Fits("useCreature", "cache", "cache") /\ Fits("useCreature", "cache", "end")
      /\ Opens("useCreature", "lookup")
  BY DEF Fits, Opens, Animating, Putting, Assigning, Replacing, Readers
<1> QED
  BY <1>1, <1>2, ProgramOfFour

LEMMA UpsertFixtureFits == Left("upsertFixture", PublishFixture) /\ Opens("upsertFixture", Head(PublishFixture))
<1>1. /\ PublishFixture \in Seq(Steps) /\ Len(PublishFixture) = 4
      /\ PublishFixture[1] = "replace" /\ PublishFixture[2] = "cache" /\ PublishFixture[3] = "announce"
      /\ PublishFixture[4] = "assign"
  BY DEF PublishFixture, DbUpsertFixture, Steps
<1>2. /\ Fits("upsertFixture", "replace", "cache") /\ Fits("upsertFixture", "cache", "announce")
      /\ Fits("upsertFixture", "announce", "assign") /\ Fits("upsertFixture", "assign", "end")
      /\ Opens("upsertFixture", "replace")
  BY DEF Fits, Opens, Animating, Putting, Assigning, Replacing, Readers
<1> QED
  BY <1>1, <1>2, ProgramOfFour

LEMMA UpsertFixtureKeepingFits == Left("upsertFixtureKeeping", PublishFixtureKeeping) /\ Opens("upsertFixtureKeeping", Head(PublishFixtureKeeping))
<1>1. /\ PublishFixtureKeeping \in Seq(Steps) /\ Len(PublishFixtureKeeping) = 5
      /\ PublishFixtureKeeping[1] = "backfill" /\ PublishFixtureKeeping[2] = "replace" /\ PublishFixtureKeeping[3] = "cache"
      /\ PublishFixtureKeeping[4] = "announce" /\ PublishFixtureKeeping[5] = "assign"
  BY DEF PublishFixtureKeeping, PublishFixture, DbUpsertFixture, Steps
<1>2. /\ Fits("upsertFixtureKeeping", "backfill", "replace") /\ Fits("upsertFixtureKeeping", "replace", "cache")
      /\ Fits("upsertFixtureKeeping", "cache", "announce") /\ Fits("upsertFixtureKeeping", "announce", "assign")
      /\ Fits("upsertFixtureKeeping", "assign", "end") /\ Opens("upsertFixtureKeeping", "backfill")
  BY DEF Fits, Opens, Animating, Putting, Assigning, Replacing, Readers
<1> QED
  BY <1>1, <1>2, ProgramOfFive

LEMMA SetFixtureUniverseFits == Left("setFixtureUniverse", SetFixtureUniverse) /\ Opens("setFixtureUniverse", Head(SetFixtureUniverse))
<1>1. /\ SetFixtureUniverse \in Seq(Steps) /\ Len(SetFixtureUniverse) = 7
      /\ SetFixtureUniverse[1] = "lock" /\ SetFixtureUniverse[2] = "update" /\ SetFixtureUniverse[3] = "announce"
      /\ SetFixtureUniverse[4] = "assign" /\ SetFixtureUniverse[5] = "find" /\ SetFixtureUniverse[6] = "cache"
      /\ SetFixtureUniverse[7] = "unlock"
  BY DEF SetFixtureUniverse, DbGetFixture, Steps
<1>2. /\ Fits("setFixtureUniverse", "lock", "update") /\ Fits("setFixtureUniverse", "update", "announce")
      /\ Fits("setFixtureUniverse", "announce", "assign") /\ Fits("setFixtureUniverse", "assign", "find")
      /\ Fits("setFixtureUniverse", "find", "cache") /\ Fits("setFixtureUniverse", "cache", "unlock")
      /\ Fits("setFixtureUniverse", "unlock", "end") /\ Opens("setFixtureUniverse", "lock")
  BY DEF Fits, Opens, Animating, Putting, Assigning, Replacing, Readers
<1> QED
  BY <1>1, <1>2, ProgramOfSeven

LEMMA DeleteFixtureFits == Left("deleteFixture", DeleteFixture) /\ Opens("deleteFixture", Head(DeleteFixture))
<1>1. /\ DeleteFixture \in Seq(Steps) /\ Len(DeleteFixture) = 4
      /\ DeleteFixture[1] = "delete" /\ DeleteFixture[2] = "uncache" /\ DeleteFixture[3] = "announce"
      /\ DeleteFixture[4] = "assign"
  BY DEF DeleteFixture, Steps
<1>2. /\ Fits("deleteFixture", "delete", "uncache") /\ Fits("deleteFixture", "uncache", "announce")
      /\ Fits("deleteFixture", "announce", "assign") /\ Fits("deleteFixture", "assign", "end")
      /\ Opens("deleteFixture", "delete")
  BY DEF Fits, Opens, Animating, Putting, Assigning, Replacing, Readers
<1> QED
  BY <1>1, <1>2, ProgramOfFour

LEMMA GetFixtureFits == Left("getFixture", DbGetFixture) /\ Opens("getFixture", Head(DbGetFixture))
<1>1. /\ DbGetFixture \in Seq(Steps) /\ Len(DbGetFixture) = 2
      /\ DbGetFixture[1] = "find" /\ DbGetFixture[2] = "cache"
  BY DEF DbGetFixture, Steps
<1>2. /\ Fits("getFixture", "find", "cache") /\ Fits("getFixture", "cache", "end")
      /\ Opens("getFixture", "find")
  BY DEF Fits, Opens, Animating, Putting, Assigning, Replacing, Readers
<1> QED
  BY <1>1, <1>2, ProgramOfTwo

LEMMA GetAllFixturesFits == Left("getAllFixtures", DbGetAllFixtures) /\ Opens("getAllFixtures", Head(DbGetAllFixtures))
<1>1. /\ DbGetAllFixtures \in Seq(Steps) /\ Len(DbGetAllFixtures) = 2
      /\ DbGetAllFixtures[1] = "find" /\ DbGetAllFixtures[2] = "cache"
  BY DEF DbGetAllFixtures, Steps
<1>2. /\ Fits("getAllFixtures", "find", "cache") /\ Fits("getAllFixtures", "cache", "end")
      /\ Opens("getAllFixtures", "find")
  BY DEF Fits, Opens, Animating, Putting, Assigning, Replacing, Readers
<1> QED
  BY <1>1, <1>2, ProgramOfTwo

LEMMA UseFixtureFits == Left("useFixture", UseFixture) /\ Opens("useFixture", Head(UseFixture))
<1>1. /\ UseFixture \in Seq(Steps) /\ Len(UseFixture) = 4
      /\ UseFixture[1] = "lookup" /\ UseFixture[2] = "find" /\ UseFixture[3] = "cache"
      /\ UseFixture[4] = "cache"
  BY DEF UseFixture, DbGetFixture, Steps
<1>2. /\ Fits("useFixture", "lookup", "find") /\ Fits("useFixture", "find", "cache")
      /\ Fits("useFixture", "cache", "cache") /\ Fits("useFixture", "cache", "end")
      /\ Opens("useFixture", "lookup")
  BY DEF Fits, Opens, Animating, Putting, Assigning, Replacing, Readers
<1> QED
  BY <1>1, <1>2, ProgramOfFour

LEMMA CreateStageFits == Left("createStage", CreateStage) /\ Opens("createStage", Head(CreateStage))
<1>1. /\ CreateStage \in Seq(Steps) /\ Len(CreateStage) = 2
      /\ CreateStage[1] = "replace" /\ CreateStage[2] = "announce"
  BY DEF CreateStage, DbUpsertStage, Steps
<1>2. /\ Fits("createStage", "replace", "announce") /\ Fits("createStage", "announce", "end")
      /\ Opens("createStage", "replace")
  BY DEF Fits, Opens, Animating, Putting, Assigning, Replacing, Readers
<1> QED
  BY <1>1, <1>2, ProgramOfTwo

LEMMA UpdateStageFits == Left("updateStage", UpdateStage) /\ Opens("updateStage", Head(UpdateStage))
<1>1. /\ UpdateStage \in Seq(Steps) /\ Len(UpdateStage) = 3
      /\ UpdateStage[1] = "check" /\ UpdateStage[2] = "replace" /\ UpdateStage[3] = "announce"
  BY DEF UpdateStage, DbUpsertStage, Steps
<1>2. /\ Fits("updateStage", "check", "replace") /\ Fits("updateStage", "replace", "announce")
      /\ Fits("updateStage", "announce", "end") /\ Opens("updateStage", "check")
  BY DEF Fits, Opens, Animating, Putting, Assigning, Replacing, Readers
<1> QED
  BY <1>1, <1>2, ProgramOfThree

LEMMA DeleteStageFits == Left("deleteStage", DeleteStage) /\ Opens("deleteStage", Head(DeleteStage))
<1>1. /\ DeleteStage \in Seq(Steps) /\ Len(DeleteStage) = 2
      /\ DeleteStage[1] = "delete" /\ DeleteStage[2] = "announce"
  BY DEF DeleteStage, Steps
<1>2. /\ Fits("deleteStage", "delete", "announce") /\ Fits("deleteStage", "announce", "end")
      /\ Opens("deleteStage", "delete")
  BY DEF Fits, Opens, Animating, Putting, Assigning, Replacing, Readers
<1> QED
  BY <1>1, <1>2, ProgramOfTwo

LEMMA RenderAnimationFits == Left("renderAnimation", RenderAnimation) /\ Opens("renderAnimation", Head(RenderAnimation))
<1>1. /\ RenderAnimation \in Seq(Steps) /\ Len(RenderAnimation) = 4
      /\ RenderAnimation[1] = "readStage" /\ RenderAnimation[2] = "carry" /\ RenderAnimation[3] = "replace"
      /\ RenderAnimation[4] = "announce"
  BY DEF RenderAnimation, DbUpsertAnimation, Steps
<1>2. /\ Fits("renderAnimation", "readStage", "carry") /\ Fits("renderAnimation", "carry", "replace")
      /\ Fits("renderAnimation", "replace", "announce") /\ Fits("renderAnimation", "announce", "end")
      /\ Opens("renderAnimation", "readStage")
  BY DEF Fits, Opens, Animating, Putting, Assigning, Replacing, Readers
<1> QED
  BY <1>1, <1>2, ProgramOfFour

LEMMA RerenderAnimationFits == Left("rerenderAnimation", RerenderAnimation) /\ Opens("rerenderAnimation", Head(RerenderAnimation))
<1>1. /\ RerenderAnimation \in Seq(Steps) /\ Len(RerenderAnimation) = 5
      /\ RerenderAnimation[1] = "find" /\ RerenderAnimation[2] = "readStage" /\ RerenderAnimation[3] = "carry"
      /\ RerenderAnimation[4] = "replace" /\ RerenderAnimation[5] = "announce"
  BY DEF RerenderAnimation, RenderAnimation, DbUpsertAnimation, Steps
<1>2. /\ Fits("rerenderAnimation", "find", "readStage") /\ Fits("rerenderAnimation", "readStage", "carry")
      /\ Fits("rerenderAnimation", "carry", "replace") /\ Fits("rerenderAnimation", "replace", "announce")
      /\ Fits("rerenderAnimation", "announce", "end") /\ Opens("rerenderAnimation", "find")
  BY DEF Fits, Opens, Animating, Putting, Assigning, Replacing, Readers
<1> QED
  BY <1>1, <1>2, ProgramOfFive

LEMMA SaveAnimationFits == Left("saveAnimation", SaveAnimation) /\ Opens("saveAnimation", Head(SaveAnimation))
<1>1. /\ SaveAnimation \in Seq(Steps) /\ Len(SaveAnimation) = 4
      /\ SaveAnimation[1] = "find" /\ SaveAnimation[2] = "carry" /\ SaveAnimation[3] = "replace"
      /\ SaveAnimation[4] = "announce"
  BY DEF SaveAnimation, DbUpsertAnimation, Steps
<1>2. /\ Fits("saveAnimation", "find", "carry") /\ Fits("saveAnimation", "carry", "replace")
      /\ Fits("saveAnimation", "replace", "announce") /\ Fits("saveAnimation", "announce", "end")
      /\ Opens("saveAnimation", "find")
  BY DEF Fits, Opens, Animating, Putting, Assigning, Replacing, Readers
<1> QED
  BY <1>1, <1>2, ProgramOfFour

LEMMA SaveAnimationBareFits == Left("saveAnimationBare", SaveAnimationBare) /\ Opens("saveAnimationBare", Head(SaveAnimationBare))
<1>1. /\ SaveAnimationBare \in Seq(Steps) /\ Len(SaveAnimationBare) = 4
      /\ SaveAnimationBare[1] = "find" /\ SaveAnimationBare[2] = "carry" /\ SaveAnimationBare[3] = "replace"
      /\ SaveAnimationBare[4] = "announce"
  BY DEF SaveAnimationBare, SaveAnimation, DbUpsertAnimation, Steps
<1>2. /\ Fits("saveAnimationBare", "find", "carry") /\ Fits("saveAnimationBare", "carry", "replace")
      /\ Fits("saveAnimationBare", "replace", "announce") /\ Fits("saveAnimationBare", "announce", "end")
      /\ Opens("saveAnimationBare", "find")
  BY DEF Fits, Opens, Animating, Putting, Assigning, Replacing, Readers
<1> QED
  BY <1>1, <1>2, ProgramOfFour

LEMMA LipSyncAnimationFits == Left("lipSyncAnimation", LipSyncAnimation) /\ Opens("lipSyncAnimation", Head(LipSyncAnimation))
<1>1. /\ LipSyncAnimation \in Seq(Steps) /\ Len(LipSyncAnimation) = 4
      /\ LipSyncAnimation[1] = "find" /\ LipSyncAnimation[2] = "carry" /\ LipSyncAnimation[3] = "replace"
      /\ LipSyncAnimation[4] = "announce"
  BY DEF LipSyncAnimation, DbUpsertAnimation, Steps
<1>2. /\ Fits("lipSyncAnimation", "find", "carry") /\ Fits("lipSyncAnimation", "carry", "replace")
      /\ Fits("lipSyncAnimation", "replace", "announce") /\ Fits("lipSyncAnimation", "announce", "end")
      /\ Opens("lipSyncAnimation", "find")
  BY DEF Fits, Opens, Animating, Putting, Assigning, Replacing, Readers
<1> QED
  BY <1>1, <1>2, ProgramOfFour

LEMMA DeleteAnimationFits == Left("deleteAnimation", DeleteAnimation) /\ Opens("deleteAnimation", Head(DeleteAnimation))
<1>1. /\ DeleteAnimation \in Seq(Steps) /\ Len(DeleteAnimation) = 4
      /\ DeleteAnimation[1] = "check" /\ DeleteAnimation[2] = "delete" /\ DeleteAnimation[3] = "announce"
      /\ DeleteAnimation[4] = "announce"
  BY DEF DeleteAnimation, Steps
<1>2. /\ Fits("deleteAnimation", "check", "delete") /\ Fits("deleteAnimation", "delete", "announce")
      /\ Fits("deleteAnimation", "announce", "announce") /\ Fits("deleteAnimation", "announce", "end")
      /\ Opens("deleteAnimation", "check")
  BY DEF Fits, Opens, Animating, Putting, Assigning, Replacing, Readers
<1> QED
  BY <1>1, <1>2, ProgramOfFour

LEMMA CreateStoryboardFits == Left("createStoryboard", CreateStoryboard) /\ Opens("createStoryboard", Head(CreateStoryboard))
<1>1. /\ CreateStoryboard \in Seq(Steps) /\ Len(CreateStoryboard) = 2
      /\ CreateStoryboard[1] = "replace" /\ CreateStoryboard[2] = "announce"
  BY DEF CreateStoryboard, DbUpsertStoryboard, Steps
<1>2. /\ Fits("createStoryboard", "replace", "announce") /\ Fits("createStoryboard", "announce", "end")
      /\ Opens("createStoryboard", "replace")
  BY DEF Fits, Opens, Animating, Putting, Assigning, Replacing, Readers
<1> QED
  BY <1>1, <1>2, ProgramOfTwo

LEMMA UpdateStoryboardFits == Left("updateStoryboard", UpdateStoryboard) /\ Opens("updateStoryboard", Head(UpdateStoryboard))
<1>1. /\ UpdateStoryboard \in Seq(Steps) /\ Len(UpdateStoryboard) = 3
      /\ UpdateStoryboard[1] = "check" /\ UpdateStoryboard[2] = "replace" /\ UpdateStoryboard[3] = "announce"
  BY DEF UpdateStoryboard, DbUpsertStoryboard, Steps
<1>2. /\ Fits("updateStoryboard", "check", "replace") /\ Fits("updateStoryboard", "replace", "announce")
      /\ Fits("updateStoryboard", "announce", "end") /\ Opens("updateStoryboard", "check")
  BY DEF Fits, Opens, Animating, Putting, Assigning, Replacing, Readers
<1> QED
  BY <1>1, <1>2, ProgramOfThree

LEMMA DeleteStoryboardFits == Left("deleteStoryboard", DeleteStoryboard) /\ Opens("deleteStoryboard", Head(DeleteStoryboard))
<1>1. /\ DeleteStoryboard \in Seq(Steps) /\ Len(DeleteStoryboard) = 2
      /\ DeleteStoryboard[1] = "delete" /\ DeleteStoryboard[2] = "announce"
  BY DEF DeleteStoryboard, Steps
<1>2. /\ Fits("deleteStoryboard", "delete", "announce") /\ Fits("deleteStoryboard", "announce", "end")
      /\ Opens("deleteStoryboard", "delete")
  BY DEF Fits, Opens, Animating, Putting, Assigning, Replacing, Readers
<1> QED
  BY <1>1, <1>2, ProgramOfTwo

LEMMA UpsertPlaylistFits == Left("upsertPlaylist", PublishPlaylist) /\ Opens("upsertPlaylist", Head(PublishPlaylist))
<1>1. /\ PublishPlaylist \in Seq(Steps) /\ Len(PublishPlaylist) = 2
      /\ PublishPlaylist[1] = "replace" /\ PublishPlaylist[2] = "announce"
  BY DEF PublishPlaylist, Steps
<1>2. /\ Fits("upsertPlaylist", "replace", "announce") /\ Fits("upsertPlaylist", "announce", "end")
      /\ Opens("upsertPlaylist", "replace")
  BY DEF Fits, Opens, Animating, Putting, Assigning, Replacing, Readers
<1> QED
  BY <1>1, <1>2, ProgramOfTwo

LEMMA WriteSoundFileFits == Left("writeSoundFile", WriteSoundFile) /\ Opens("writeSoundFile", Head(WriteSoundFile))
<1>1. /\ WriteSoundFile \in Seq(Steps) /\ Len(WriteSoundFile) = 2
      /\ WriteSoundFile[1] = "replace" /\ WriteSoundFile[2] = "announce"
  BY DEF WriteSoundFile, Steps
<1>2. /\ Fits("writeSoundFile", "replace", "announce") /\ Fits("writeSoundFile", "announce", "end")
      /\ Opens("writeSoundFile", "replace")
  BY DEF Fits, Opens, Animating, Putting, Assigning, Replacing, Readers
<1> QED
  BY <1>1, <1>2, ProgramOfTwo

LEMMA PublishAdHocAnimationFits == Left("publishAdHocAnimation", PublishAdHocAnimation) /\ Opens("publishAdHocAnimation", Head(PublishAdHocAnimation))
<1>1. /\ PublishAdHocAnimation \in Seq(Steps) /\ Len(PublishAdHocAnimation) = 2
      /\ PublishAdHocAnimation[1] = "replace" /\ PublishAdHocAnimation[2] = "announce"
  BY DEF PublishAdHocAnimation, DbInsertAdHocAnimation, Steps
<1>2. /\ Fits("publishAdHocAnimation", "replace", "announce") /\ Fits("publishAdHocAnimation", "announce", "end")
      /\ Opens("publishAdHocAnimation", "replace")
  BY DEF Fits, Opens, Animating, Putting, Assigning, Replacing, Readers
<1> QED
  BY <1>1, <1>2, ProgramOfTwo

LEMMA PublishAdHocExchangeFits == Left("publishAdHocExchange", PublishAdHocExchange) /\ Opens("publishAdHocExchange", Head(PublishAdHocExchange))
<1>1. /\ PublishAdHocExchange \in Seq(Steps) /\ Len(PublishAdHocExchange) = 2
      /\ PublishAdHocExchange[1] = "replace" /\ PublishAdHocExchange[2] = "announce"
  BY DEF PublishAdHocExchange, DbInsertAdHocExchange, Steps
<1>2. /\ Fits("publishAdHocExchange", "replace", "announce") /\ Fits("publishAdHocExchange", "announce", "end")
      /\ Opens("publishAdHocExchange", "replace")
  BY DEF Fits, Opens, Animating, Putting, Assigning, Replacing, Readers
<1> QED
  BY <1>1, <1>2, ProgramOfTwo

LEMMA FinalizeAdHocExchangeFits == Left("finalizeAdHocExchange", FinalizeAdHocExchange) /\ Opens("finalizeAdHocExchange", Head(FinalizeAdHocExchange))
<1>1. /\ FinalizeAdHocExchange \in Seq(Steps) /\ Len(FinalizeAdHocExchange) = 2
      /\ FinalizeAdHocExchange[1] = "update" /\ FinalizeAdHocExchange[2] = "announce"
  BY DEF FinalizeAdHocExchange, Steps
<1>2. /\ Fits("finalizeAdHocExchange", "update", "announce") /\ Fits("finalizeAdHocExchange", "announce", "end")
      /\ Opens("finalizeAdHocExchange", "update")
  BY DEF Fits, Opens, Animating, Putting, Assigning, Replacing, Readers
<1> QED
  BY <1>1, <1>2, ProgramOfTwo

LEMMA InvalidateFits == Left("invalidate", InvalidateForDebugging) /\ Opens("invalidate", Head(InvalidateForDebugging))
<1>1. /\ InvalidateForDebugging \in Seq(Steps) /\ Len(InvalidateForDebugging) = 1
      /\ InvalidateForDebugging[1] = "announce"
  BY DEF InvalidateForDebugging, Steps
<1>2. /\ Fits("invalidate", "announce", "end") /\ Opens("invalidate", "announce")
  BY DEF Fits, Opens, Animating, Putting, Assigning, Replacing, Readers
<1> QED
  BY <1>1, <1>2, ProgramOfOne

\* Whatever is asked for, its program can be gone through, and opens as it should.
LEMMA Programs ==
  ASSUME NEW kind \in Kinds
  PROVE  Left(kind, Request[kind].steps) /\ Opens(kind, Head(Request[kind].steps))

<1>1. /\ Request["registerCreature"].steps = RegisterCreature
      /\ Request["upsertCreature"].steps = PublishCreature
      /\ Request["getCreature"].steps = DbGetCreature
      /\ Request["getAllCreatures"].steps = DbGetAllCreatures
      /\ Request["useCreature"].steps = UseCreature
      /\ Request["upsertFixture"].steps = PublishFixture
      /\ Request["upsertFixtureKeeping"].steps = PublishFixtureKeeping
      /\ Request["setFixtureUniverse"].steps = SetFixtureUniverse
      /\ Request["deleteFixture"].steps = DeleteFixture
      /\ Request["getFixture"].steps = DbGetFixture
      /\ Request["getAllFixtures"].steps = DbGetAllFixtures
      /\ Request["useFixture"].steps = UseFixture
      /\ Request["createStage"].steps = CreateStage
      /\ Request["updateStage"].steps = UpdateStage
      /\ Request["deleteStage"].steps = DeleteStage
      /\ Request["renderAnimation"].steps = RenderAnimation
      /\ Request["rerenderAnimation"].steps = RerenderAnimation
      /\ Request["saveAnimation"].steps = SaveAnimation
      /\ Request["saveAnimationBare"].steps = SaveAnimationBare
      /\ Request["lipSyncAnimation"].steps = LipSyncAnimation
      /\ Request["deleteAnimation"].steps = DeleteAnimation
      /\ Request["createStoryboard"].steps = CreateStoryboard
      /\ Request["updateStoryboard"].steps = UpdateStoryboard
      /\ Request["deleteStoryboard"].steps = DeleteStoryboard
      /\ Request["upsertPlaylist"].steps = PublishPlaylist
      /\ Request["writeSoundFile"].steps = WriteSoundFile
      /\ Request["publishAdHocAnimation"].steps = PublishAdHocAnimation
      /\ Request["publishAdHocExchange"].steps = PublishAdHocExchange
      /\ Request["finalizeAdHocExchange"].steps = FinalizeAdHocExchange
      /\ Request["invalidate"].steps = InvalidateForDebugging
  BY DEF Request

<1>2. kind \in {"registerCreature", "upsertCreature", "getCreature", "getAllCreatures", "useCreature",
               "upsertFixture", "upsertFixtureKeeping", "setFixtureUniverse", "deleteFixture", "getFixture",
               "getAllFixtures", "useFixture", "createStage", "updateStage", "deleteStage",
               "renderAnimation", "rerenderAnimation", "saveAnimation", "saveAnimationBare", "lipSyncAnimation",
               "deleteAnimation", "createStoryboard", "updateStoryboard", "deleteStoryboard", "upsertPlaylist",
               "writeSoundFile", "publishAdHocAnimation", "publishAdHocExchange", "finalizeAdHocExchange", "invalidate"}
  BY DEF Kinds, Request

<1> QED
  BY <1>1, <1>2,
     RegisterCreatureFits, UpsertCreatureFits, GetCreatureFits, GetAllCreaturesFits, UseCreatureFits,
     UpsertFixtureFits, UpsertFixtureKeepingFits, SetFixtureUniverseFits, DeleteFixtureFits, GetFixtureFits,
     GetAllFixturesFits, UseFixtureFits, CreateStageFits, UpdateStageFits, DeleteStageFits,
     RenderAnimationFits, RerenderAnimationFits, SaveAnimationFits, SaveAnimationBareFits, LipSyncAnimationFits,
     DeleteAnimationFits, CreateStoryboardFits, UpdateStoryboardFits, DeleteStoryboardFits, UpsertPlaylistFits,
     WriteSoundFileFits, PublishAdHocAnimationFits, PublishAdHocExchangeFits, FinalizeAdHocExchangeFits, InvalidateFits

-----------------------------------------------------------------------------
(* The invariant.                                                          *)

Place(t) == Head(thread[t].todo)

\* A thread at work has the rest of its program before it.
Programmed ==
  \A t \in Thread :
    IF Busy(t) THEN Left(thread[t].kind, thread[t].todo) ELSE thread[t] = Idle

Typed == TypeOK /\ Programmed

Past(t) == Busy(t) /\ thread[t].kind = "setFixtureUniverse" /\ Place(t) # "lock"

\* The mutex is held from its lock to its unlock.
MutexInv == \A t \in Thread : opMutex = t <=> Past(t)

\* Of two requests under way on one document each knows of the other, unless
\* the mutex keeps them apart.
CompanyInv ==
  \A t, o \in Thread :
    (/\ t # o /\ Busy(t) /\ Busy(o) /\ About(t) = About(o)
     /\ ~(thread[t].kind = "setFixtureUniverse" /\ thread[o].kind = "setFixtureUniverse"))
      => Role(thread[o].kind) \in thread[t].company

\* The write is done, and nothing between it and what it owes can fail.
Wrote(t) ==
  /\ Busy(t) /\ Writing(t)
  /\ Place(t) \in {"cache", "uncache", "announce", "assign"}
  /\ ~(thread[t].kind = "setFixtureUniverse" /\ Place(t) = "cache")

Tells(t, type) == type \in thread[t].tells /\ Wrote(t) /\ Place(t) # "assign"

ToldInv ==
  /\ ~client.joined => client = Away
  /\ \A t \in Thread : (Busy(t) /\ thread[t].kind # "invalidate") => ListOf[About(t)] \in thread[t].tells
  /\ \A type \in client.stale : type \in client.inbox \cup pending \/ \E t \in Thread : Tells(t, type)

Assigns(t) == Wrote(t) /\ About(t) = "fixture"

UniverseInv ==
  /\ "map" \in suspect \/ universeOf["fixture"] = UniverseInDatabase \/ \E t \in Thread : Assigns(t)
  /\ \A t \in Thread :
       (Assigns(t) /\ "writer" \notin thread[t].company) => thread[t].copy.universe = UniverseInDatabase
  /\ \A t \in Thread : thread[t].kind = "deleteFixture" => thread[t].copy = Blank

Stored(d) == IF Exists(d) THEN {library[d]} ELSE {}

\* The put is still to come, of what was written.
Puts(t, d) ==
  /\ Works(t, d) /\ Writing(t)
  /\ \/ Place(t) \in {"cache", "uncache"}
     \/ thread[t].kind = "setFixtureUniverse" /\ Place(t) \in {"announce", "assign", "find"}

CacheInv ==
  /\ \A d \in Cached \ suspect : objectCache[d] \in {None} \cup Stored(d) \/ \E t \in Thread : Puts(t, d)
  /\ \A t \in Thread, d \in Cached :
       (Works(t, d) /\ Place(t) = "cache" /\ thread[t].company = {}) => thread[t].copy \in Stored(d)

\* The stamp names the geometry the motion is made for.
Honest(document) ==
  document.mixed \/ document.rendered = 0 \/ document.stamp = document.rendered

\* The copy of a client that has lost its stamp, and is to get it back.
Bare(t) == thread[t].kind = "saveAnimationBare" /\ Place(t) = "carry"

StampInv ==
  /\ Exists("animation") => Honest(library["animation"])
  /\ \A t \in Thread :
       Works(t, "animation") =>
         IF Bare(t)
         THEN /\ thread[t].copy.stamp = 0
              /\ thread[t].company = {} =>
                   /\ Exists("animation")
                   /\ thread[t].copy = [library["animation"] EXCEPT !.stamp = 0]
         ELSE Honest(thread[t].copy)

\* What an animation, or the copy of one, was rendered for, is at most n.
RenderedBy(n) ==
  /\ Exists("animation") => library["animation"].rendered <= n
  /\ \A t \in Thread : Works(t, "animation") => thread[t].copy.rendered <= n

StageInv ==
  /\ RenderedBy(requests + 1)
  /\ Exists("stage") => library["stage"].content <= requests + 1
  /\ \A t \in Thread : Busy(t) => thread[t].number <= requests + 1
  /\ ("stage" \notin suspect /\ Exists("stage")) => RenderedBy(library["stage"].content)
  /\ \A t \in Thread :
       (Works(t, "stage") /\ Place(t) \in {"check", "replace"} /\ thread[t].company = {}) =>
         /\ Exists("stage") => library["stage"].content < thread[t].number
         /\ RenderedBy(thread[t].number)

LibraryInv ==
  Typed /\ MutexInv /\ CompanyInv /\ ToldInv /\ UniverseInv /\ CacheInv /\ StampInv /\ StageInv

-----------------------------------------------------------------------------
(* Threads.                                                                *)

ThreadState ==
  [kind : Kinds \cup {None}, number : Number, copy : Document, todo : Seq(Steps),
   tells : SUBSET CacheType, company : SUBSET {"reader", "writer"}]

\* Thread t is at the step b of its request, with this copy.
Moved(t, copy, b) ==
  /\ thread' \in [Thread -> ThreadState]
  /\ \A o \in Thread \ {t} : thread'[o] = thread[o]
  /\ b = "end" => thread'[t] = Idle
  /\ b # "end" =>
       /\ thread'[t].kind = thread[t].kind /\ thread'[t].number = thread[t].number
       /\ thread'[t].tells = thread[t].tells /\ thread'[t].company = thread[t].company
       /\ thread'[t].copy = copy
       /\ Left(thread[t].kind, thread'[t].todo) /\ Head(thread'[t].todo) = b

\* Thread t is done.
Stopped(t) ==
  /\ thread' \in [Thread -> ThreadState]
  /\ \A o \in Thread \ {t} : thread'[o] = thread[o]
  /\ thread'[t] = Idle

\* A thread at rest.
LEMMA IdleTyped == Idle \in ThreadState /\ Idle.kind = None /\ Idle.company = {} /\ Blank \in Document
<1>1. Blank \in Document
  BY LibraryAssumption DEF Blank, Document, Number
<1>2. <<>> \in Seq(Steps)
  OBVIOUS
<1>3. 0 \in Number
  BY LibraryAssumption DEF Number
<1> QED
  BY <1>1, <1>2, <1>3 DEF Idle, ThreadState

\* A busy thread is of some kind, at the head of what is left of its program.
LEMMA ThreadTyped ==
  ASSUME Typed
  PROVE  /\ thread \in [Thread -> ThreadState]
         /\ \A t \in Thread : ~Busy(t) => thread[t] = Idle
         /\ \A t \in Thread : Busy(t) =>
              /\ thread[t].kind \in Kinds /\ Left(thread[t].kind, thread[t].todo)
              /\ About(t) \in Doc
<1>1. thread \in [Thread -> ThreadState]
  BY DEF Typed, TypeOK, ThreadState
<1>2. ASSUME NEW t \in Thread, Busy(t)
      PROVE  thread[t].kind \in Kinds /\ Left(thread[t].kind, thread[t].todo)
  BY <1>1, <1>2 DEF Typed, Programmed, Busy, ThreadState
<1>3. ASSUME NEW kind \in Kinds
      PROVE  Request[kind].doc \in Doc
  BY <1>3 DEF Kinds, Request, Doc
<1> QED
  BY <1>1, <1>2, <1>3 DEF Typed, Programmed, About

\* What follows a step of a program is a program again, unless it is the end.
LEMMA TailOfLeft ==
  ASSUME NEW kind, NEW todo, Left(kind, todo)
  PROVE  /\ Tail(todo) \in Seq(Steps)
         /\ Tail(todo) = <<>> => Fits(kind, Head(todo), "end")
         /\ Tail(todo) # <<>> =>
              Left(kind, Tail(todo)) /\ Fits(kind, Head(todo), Head(Tail(todo)))
<1>1. /\ todo \in Seq(Steps) /\ todo # <<>>
      /\ \A i \in 1 .. Len(todo) : Fits(kind, todo[i], IF i = Len(todo) THEN "end" ELSE todo[i + 1])
  BY DEF Left
<1>2. /\ Head(todo) = todo[1] /\ Len(todo) \in Nat \ {0}
  BY <1>1
<1>3. PICK rest \in Seq(Steps) :
        /\ rest = Tail(todo) /\ Len(rest) = Len(todo) - 1
        /\ \A i \in 1 .. Len(rest) : rest[i] = todo[i + 1]
  BY <1>1, HeadTailProperties
<1>4. /\ Len(rest) = Len(todo) - 1
      /\ \A i \in 1 .. Len(rest) : rest[i] = todo[i + 1]
  BY <1>3, Zenon
<1>5. ASSUME rest = <<>>
      PROVE  Fits(kind, Head(todo), "end")
  <2>1. Len(rest) = 0
    BY <1>5
  <2> QED
    BY <1>1, <1>2, <1>4, <2>1
<1>6. ASSUME rest # <<>>
      PROVE  Left(kind, rest) /\ Fits(kind, Head(todo), Head(rest))
  <2>1. Len(rest) \in Nat \ {0} /\ Head(rest) = rest[1]
    BY <1>6
  <2>2. Len(todo) >= 2 /\ Head(rest) = todo[2]
    BY <1>2, <1>4, <2>1
  <2>3. Fits(kind, todo[1], todo[2])
    BY <1>1, <2>2
  <2>4. ASSUME NEW i \in 1 .. Len(rest)
        PROVE  Fits(kind, rest[i], IF i = Len(rest) THEN "end" ELSE rest[i + 1])
    <3>1. i + 1 \in 1 .. Len(todo) /\ rest[i] = todo[i + 1]
      BY <1>2, <1>4
    <3>2. CASE i = Len(rest)
      <4>1. i + 1 = Len(todo)
        BY <1>4, <1>2, <3>2
      <4> QED
        BY <1>1, <3>1, <3>2, <4>1
    <3>3. CASE i # Len(rest)
      <4>1. /\ i + 1 # Len(todo) /\ i + 1 \in 1 .. Len(rest)
            /\ rest[i + 1] = todo[(i + 1) + 1]
        BY <1>4, <1>2, <3>3
      <4> QED
        BY <1>1, <3>1, <3>3, <4>1
    <3> QED
      BY <3>2, <3>3
  <2> QED
    BY <1>2, <1>6, <2>2, <2>3, <2>4 DEF Left
<1> QED
  BY <1>3, <1>5, <1>6, Zenon

LEMMA EndIsNoStep == "end" \notin Steps
BY DEF Steps

\* A step that goes on is at the next one, or done.
LEMMA Moves ==
  ASSUME Typed, NEW t \in Thread, NEW step, Due(t, step), NEW copy \in Document, GoesOn(t, copy)
  PROVE  /\ Busy(t) /\ Place(t) = step
         /\ \E b \in Steps \cup {"end"} : Fits(thread[t].kind, step, b) /\ Moved(t, copy, b)
<1> DEFINE todo == thread[t].todo
           rest == Tail(todo)
           kind == thread[t].kind
           next == [thread[t] EXCEPT !.todo = rest, !.copy = copy]
<1>1. /\ thread \in [Thread -> ThreadState] /\ Busy(t) /\ Left(kind, todo)
      /\ Head(todo) = step
  BY ThreadTyped DEF Due
<1>2. /\ rest \in Seq(Steps)
      /\ rest = <<>> => Fits(kind, step, "end")
      /\ rest # <<>> => Left(kind, rest) /\ Fits(kind, step, Head(rest))
  BY <1>1, TailOfLeft
<1>3. thread' = [thread EXCEPT ![t] = IF rest = <<>> THEN Idle ELSE next]
  BY DEF GoesOn, Went
<1>4. CASE rest = <<>>
  <2>1. thread' = [thread EXCEPT ![t] = Idle]
    BY <1>3, <1>4
  <2>2. Moved(t, copy, "end")
    BY <1>1, <2>1, IdleTyped DEF Moved
  <2> QED
    BY <1>1, <1>2, <1>4, <2>2 DEF Place
<1>5. CASE rest # <<>>
  <2>1. thread' = [thread EXCEPT ![t] = next]
    BY <1>3, <1>5
  <2>2. next \in ThreadState
    BY <1>1, <1>2 DEF ThreadState
  <2>3. /\ next.kind = kind /\ next.number = thread[t].number /\ next.tells = thread[t].tells
        /\ next.company = thread[t].company /\ next.copy = copy /\ next.todo = rest
    BY <1>1 DEF ThreadState
  <2>4. Head(rest) \in Steps
    BY <1>2, <1>5
  <2>5. thread' \in [Thread -> ThreadState] /\ thread'[t] = next /\ \A o \in Thread \ {t} : thread'[o] = thread[o]
    BY <1>1, <2>1, <2>2
  <2>6. Moved(t, copy, Head(rest))
    BY <1>2, <1>5, <2>3, <2>4, <2>5, EndIsNoStep DEF Moved
  <2> QED
    BY <1>1, <1>2, <1>5, <2>4, <2>6 DEF Place
<1> QED
  BY <1>4, <1>5

\* What the thread of a step has afterwards.
LEMMA MovedThread ==
  ASSUME Typed, NEW t \in Thread, NEW copy, NEW b, Busy(t), Moved(t, copy, b)
  PROVE  /\ thread' \in [Thread -> ThreadState]
         /\ Programmed'
         /\ b = "end" => ~Busy(t)'
         /\ b # "end" => Busy(t)' /\ Place(t)' = b /\ About(t)' = About(t)
<1>1. b = "end" => thread'[t] = Idle /\ ~Busy(t)'
  BY IdleTyped DEF Moved, Busy
<1>2. b # "end" => /\ Busy(t)' /\ Place(t)' = b /\ About(t)' = About(t)
                   /\ Left(thread'[t].kind, thread'[t].todo)
  BY DEF Moved, Busy, Place, About
<1>3. ASSUME NEW o \in Thread
      PROVE  IF Busy(o)' THEN Left(thread'[o].kind, thread'[o].todo) ELSE thread'[o] = Idle
  <2>1. CASE o = t
    BY <1>1, <1>2, <2>1
  <2>2. CASE o # t
    <3>1. thread'[o] = thread[o]
      BY <2>2 DEF Moved
    <3> QED
      BY <3>1 DEF Typed, Programmed, Busy
  <2> QED
    BY <2>1, <2>2
<1> QED
  BY <1>1, <1>2, <1>3 DEF Moved, Programmed

\* A thread that is done is at rest, and has forgotten its request.
LEMMA StoppedThread ==
  ASSUME Typed, NEW t \in Thread, thread' = [thread EXCEPT ![t] = Idle]
  PROVE  Stopped(t) /\ Programmed' /\ ~Busy(t)'
<1>1. Stopped(t)
  BY ThreadTyped, IdleTyped DEF Stopped
<1>2. ASSUME NEW o \in Thread
      PROVE  IF Busy(o)' THEN Left(thread'[o].kind, thread'[o].todo) ELSE thread'[o] = Idle
  <2>1. CASE o = t
    BY <1>1, <2>1, IdleTyped DEF Stopped, Busy
  <2>2. CASE o # t
    BY <1>1, <2>2 DEF Stopped, Typed, Programmed, Busy
  <2> QED
    BY <2>1, <2>2
<1> QED
  BY <1>1, <1>2, IdleTyped DEF Programmed, Busy, Stopped

-----------------------------------------------------------------------------
(* What each step does to its thread.                                      *)

\* What is stored of a document, if anything.
LEMMA Documents ==
  ASSUME NEW kind \in Kinds
  PROVE  /\ Request[kind].doc \in Cached <=>
              kind \in Readers \cup Putting \cup {"setFixtureUniverse", "deleteFixture"}
         /\ Request[kind].doc = "animation" <=> kind \in Animating \cup {"deleteAnimation"}
         /\ Request[kind].doc = "stage" <=> kind \in {"createStage", "updateStage", "deleteStage"}
         /\ kind \in {"setFixtureUniverse", "deleteFixture", "upsertFixture", "upsertFixtureKeeping"} =>
              Request[kind].doc = "fixture"
         /\ (Request[kind].doc = "fixture" /\ kind \notin Readers) =>
              kind \in {"setFixtureUniverse", "deleteFixture", "upsertFixture", "upsertFixtureKeeping"}
         /\ kind = "finalizeAdHocExchange" => Request[kind].doc = "exchange"
         /\ kind \in {"updateStoryboard", "deleteStoryboard"} => Request[kind].doc = "storyboard"
BY DEF Kinds, Request, Cached, Readers, Putting, Animating

\* The document a request is about.
LEMMA AboutThread ==
  ASSUME Typed, NEW t \in Thread, Busy(t)
  PROVE  /\ thread[t].kind \in Kinds /\ About(t) \in Doc
         /\ About(t) \in Cached <=>
              thread[t].kind \in Readers \cup Putting \cup {"setFixtureUniverse", "deleteFixture"}
         /\ About(t) = "animation" <=> thread[t].kind \in Animating \cup {"deleteAnimation"}
         /\ About(t) = "stage" <=> thread[t].kind \in {"createStage", "updateStage", "deleteStage"}
         /\ thread[t].kind \in {"setFixtureUniverse", "deleteFixture", "upsertFixture", "upsertFixtureKeeping"} =>
              About(t) = "fixture"
         /\ (About(t) = "fixture" /\ Writing(t)) =>
              thread[t].kind \in {"setFixtureUniverse", "deleteFixture", "upsertFixture", "upsertFixtureKeeping"}
         /\ thread[t].kind = "finalizeAdHocExchange" => About(t) = "exchange"
         /\ thread[t].kind \in {"updateStoryboard", "deleteStoryboard"} => About(t) = "storyboard"
BY ThreadTyped, Documents DEF About, Writing

\* What exists is a document.
LEMMA StoredIsDocument ==
  ASSUME Typed, NEW d \in Doc, Exists(d)
  PROVE  library[d] \in Document
BY DEF Typed, TypeOK, Exists

\* One lemma per step: where it leaves its thread, and what it writes.
LEMMA FindStep ==
  ASSUME Typed, NEW t \in Thread, Find(t)
  PROVE  /\ Busy(t) /\ Place(t) = "find" /\ Exists(About(t))
         /\ \/ /\ thread[t].kind \in Readers \cup {"setFixtureUniverse"} /\ About(t) \in Cached
               /\ Moved(t, library[About(t)], "cache")
            \/ /\ thread[t].kind \in {"saveAnimation", "lipSyncAnimation"} /\ About(t) = "animation"
               /\ Moved(t, library["animation"], "carry")
            \/ /\ thread[t].kind = "saveAnimationBare" /\ About(t) = "animation"
               /\ Moved(t, [library["animation"] EXCEPT !.stamp = 0], "carry")
            \/ /\ thread[t].kind = "rerenderAnimation" /\ About(t) = "animation"
               /\ Moved(t, library["animation"], "readStage")
<1> DEFINE kind == thread[t].kind
           stored == library[About(t)]
           copy == IF kind = "saveAnimationBare" THEN [stored EXCEPT !.stamp = 0] ELSE stored
<1>1. Due(t, "find") /\ Exists(About(t)) /\ GoesOn(t, copy)
  BY DEF Find
<1>2. Busy(t)
  BY <1>1 DEF Due
<1>3. stored \in Document
  BY <1>1, <1>2, AboutThread, StoredIsDocument
<1>4. [stored EXCEPT !.stamp = 0] \in Document
  BY <1>3, LibraryAssumption DEF Document, Number
<1>5. copy \in Document
  BY <1>3, <1>4
<1>6. PICK b \in Steps \cup {"end"} : Place(t) = "find" /\ Fits(kind, "find", b) /\ Moved(t, copy, b)
  BY <1>1, <1>5, Moves
<1>7. \/ b = "cache" /\ kind \in Readers \cup {"setFixtureUniverse"}
      \/ b = "carry" /\ kind \in {"saveAnimation", "saveAnimationBare", "lipSyncAnimation"}
      \/ b = "readStage" /\ kind = "rerenderAnimation"
  BY <1>6 DEF Fits
<1>8. kind \in Readers \cup {"setFixtureUniverse"} => kind # "saveAnimationBare" /\ About(t) \in Cached
  BY <1>2, AboutThread DEF Readers
<1>9. kind \in {"saveAnimation", "saveAnimationBare", "lipSyncAnimation", "rerenderAnimation"} => About(t) = "animation"
  BY <1>2, AboutThread DEF Animating
<1> QED
  BY <1>1, <1>2, <1>6, <1>7, <1>8, <1>9

LEMMA CopyTyped ==
  ASSUME Typed, NEW t \in Thread
  PROVE  thread[t].copy \in Document /\ thread[t].number \in Number
BY ThreadTyped DEF ThreadState

LEMMA CheckStep ==
  ASSUME Typed, NEW t \in Thread, Check(t)
  PROVE  /\ Busy(t) /\ Place(t) = "check" /\ Exists(About(t))
         /\ \/ /\ thread[t].kind \in {"updateStage", "updateStoryboard"}
               /\ About(t) \in {"stage", "storyboard"} /\ Moved(t, thread[t].copy, "replace")
            \/ /\ thread[t].kind = "deleteAnimation" /\ About(t) = "animation"
               /\ Moved(t, thread[t].copy, "delete")
<1>1. Due(t, "check") /\ Exists(About(t)) /\ GoesOn(t, thread[t].copy)
  BY DEF Check, Continues
<1>2. Busy(t)
  BY <1>1 DEF Due
<1>3. PICK b \in Steps \cup {"end"} :
        Place(t) = "check" /\ Fits(thread[t].kind, "check", b) /\ Moved(t, thread[t].copy, b)
  BY <1>1, CopyTyped, Moves
<1>4. \/ b = "replace" /\ thread[t].kind \in {"updateStage", "updateStoryboard"}
      \/ b = "delete" /\ thread[t].kind = "deleteAnimation"
  BY <1>3 DEF Fits
<1> QED
  BY <1>1, <1>2, <1>3, <1>4, AboutThread

LEMMA BackfillStep ==
  ASSUME Typed, NEW t \in Thread, Backfill(t)
  PROVE  /\ Busy(t) /\ Place(t) = "backfill" /\ thread[t].kind = "upsertFixtureKeeping" /\ About(t) = "fixture"
         /\ \E copy \in Document : Moved(t, copy, "replace")
<1> DEFINE copy == [thread[t].copy EXCEPT !.universe = UniverseInDatabase]
<1>1. Due(t, "backfill") /\ GoesOn(t, copy)
  BY DEF Backfill
<1>2. Busy(t)
  BY <1>1 DEF Due
<1>3. UniverseInDatabase \in Universe \cup {None}
  <2>1. "fixture" \in Doc
    BY DEF Doc
  <2>2. CASE Exists("fixture")
    <3>1. library["fixture"] \in Document
      BY <2>1, <2>2, StoredIsDocument
    <3> QED
      BY <2>2, <3>1 DEF UniverseInDatabase, Document
  <2> QED
    BY <2>2 DEF UniverseInDatabase
<1>4. copy \in Document
  BY <1>3, CopyTyped DEF Document
<1>5. PICK b \in Steps \cup {"end"} :
        Place(t) = "backfill" /\ Fits(thread[t].kind, "backfill", b) /\ Moved(t, copy, b)
  BY <1>1, <1>4, Moves
<1>6. b = "replace" /\ thread[t].kind = "upsertFixtureKeeping"
  BY <1>5 DEF Fits
<1> QED
  BY <1>2, <1>4, <1>5, <1>6, AboutThread

LEMMA CarryStep ==
  ASSUME Typed, NEW t \in Thread, Carry(t)
  PROVE  /\ Busy(t) /\ Place(t) = "carry" /\ About(t) = "animation"
         /\ \E stamp \in Number :
              /\ Exists("animation") => stamp = library["animation"].stamp
              /\ Stamped(t, stamp) \in Document
              /\ Moved(t, Stamped(t, stamp), "replace")
<1> DEFINE stamp == IF Exists("animation") THEN library["animation"].stamp ELSE 0
<1>1. Due(t, "carry") /\ GoesOn(t, Stamped(t, stamp))
  BY DEF Carry
<1>2. Busy(t)
  BY <1>1 DEF Due
<1>3. stamp \in Number
  <2>1. "animation" \in Doc /\ 0 \in Number
    BY LibraryAssumption DEF Doc, Number
  <2>2. Exists("animation") => library["animation"] \in Document
    BY <2>1, StoredIsDocument
  <2> QED
    BY <2>1, <2>2 DEF Document
<1>4. Stamped(t, stamp) \in Document
  BY <1>3, CopyTyped DEF Document, Stamped
<1>5. PICK b \in Steps \cup {"end"} :
        Place(t) = "carry" /\ Fits(thread[t].kind, "carry", b) /\ Moved(t, Stamped(t, stamp), b)
  BY <1>1, <1>4, Moves
<1>6. b = "replace" /\ thread[t].kind \in Animating
  BY <1>5 DEF Fits
<1>7. Exists("animation") => stamp = library["animation"].stamp
  OBVIOUS
<1> HIDE DEF stamp
<1> QED
  BY <1>2, <1>3, <1>4, <1>5, <1>6, <1>7, AboutThread

LEMMA ReadStageStep ==
  ASSUME Typed, NEW t \in Thread, ReadStage(t)
  PROVE  /\ Busy(t) /\ Place(t) = "readStage" /\ About(t) = "animation" /\ Exists("stage")
         /\ thread[t].kind \in {"renderAnimation", "rerenderAnimation"}
         /\ \E copy \in Document :
              /\ copy.stamp = library["stage"].content /\ copy.rendered = library["stage"].content
              /\ copy.mixed = FALSE /\ Moved(t, copy, "carry")
<1> DEFINE copy == [thread[t].copy EXCEPT !.stamp = library["stage"].content,
                                          !.rendered = library["stage"].content,
                                          !.mixed = FALSE]
<1>1. Due(t, "readStage") /\ GoesOn(t, copy) /\ Exists("stage")
  BY DEF ReadStage
<1>2. Busy(t)
  BY <1>1 DEF Due
<1>3. library["stage"].content \in Number
  <2>1. "stage" \in Doc
    BY DEF Doc
  <2> QED
    BY <1>1, <2>1, StoredIsDocument DEF Document
<1>4. /\ copy \in Document /\ copy.stamp = library["stage"].content
      /\ copy.rendered = library["stage"].content /\ copy.mixed = FALSE
  BY <1>3, CopyTyped DEF Document
<1>5. PICK b \in Steps \cup {"end"} :
        Place(t) = "readStage" /\ Fits(thread[t].kind, "readStage", b) /\ Moved(t, copy, b)
  BY <1>1, <1>4, Moves
<1>6. b = "carry" /\ thread[t].kind \in {"renderAnimation", "rerenderAnimation"}
  BY <1>5 DEF Fits
<1>7. About(t) = "animation"
  BY <1>2, <1>6, AboutThread DEF Animating
<1> HIDE DEF copy
<1> QED
  BY <1>1, <1>2, <1>4, <1>5, <1>6, <1>7

LEMMA ReadNoStageStep ==
  ASSUME Typed, NEW t \in Thread, ReadNoStage(t)
  PROVE  /\ Busy(t) /\ Place(t) = "readStage" /\ About(t) = "animation"
         /\ thread[t].kind = "renderAnimation" /\ Moved(t, thread[t].copy, "carry")
<1>1. Due(t, "readStage") /\ GoesOn(t, thread[t].copy) /\ thread[t].kind = "renderAnimation"
  BY DEF ReadNoStage, Continues
<1>2. Busy(t)
  BY <1>1 DEF Due
<1>3. PICK b \in Steps \cup {"end"} :
        Place(t) = "readStage" /\ Fits(thread[t].kind, "readStage", b) /\ Moved(t, thread[t].copy, b)
  BY <1>1, CopyTyped, Moves
<1>4. b = "carry"
  BY <1>3 DEF Fits
<1>5. About(t) = "animation"
  BY <1>1, <1>2, AboutThread DEF Animating
<1> QED
  BY <1>1, <1>2, <1>3, <1>4, <1>5

LEMMA ReplaceStep ==
  ASSUME Typed, NEW t \in Thread, Replace(t)
  PROVE  /\ Busy(t) /\ Place(t) = "replace" /\ About(t) \in Doc
         /\ library' = [library EXCEPT ![About(t)] = [thread[t].copy EXCEPT !.content = thread[t].number]]
         /\ library'[About(t)] \in Document
         /\ library'[About(t)] = [thread[t].copy EXCEPT !.content = thread[t].number]
         /\ \/ thread[t].kind \in Putting /\ About(t) \in Cached /\ Moved(t, library'[About(t)], "cache")
            \/ thread[t].kind \in Replacing /\ About(t) \notin Cached /\ Moved(t, library'[About(t)], "announce")
<1> DEFINE written == [thread[t].copy EXCEPT !.content = thread[t].number]
<1>1. /\ Due(t, "replace") /\ GoesOn(t, library'[About(t)])
      /\ library' = [library EXCEPT ![About(t)] = written]
  BY DEF Replace
<1>2. Busy(t)
  BY <1>1 DEF Due
<1>3. About(t) \in Doc
  BY <1>2, AboutThread
<1>4. written \in Document
  BY CopyTyped DEF Document
<1>5. library'[About(t)] = written
  BY <1>1, <1>3 DEF Typed, TypeOK
<1>6. PICK b \in Steps \cup {"end"} :
        Place(t) = "replace" /\ Fits(thread[t].kind, "replace", b) /\ Moved(t, library'[About(t)], b)
  <2>1. GoesOn(t, written)
    <3> DEFINE rest == Tail(thread[t].todo)
    <3>1. thread' = [thread EXCEPT ![t] =
                       IF rest = <<>> THEN Idle
                       ELSE [thread[t] EXCEPT !.todo = rest, !.copy = library'[About(t)]]]
      BY <1>1 DEF GoesOn, Went
    <3>2. thread' = [thread EXCEPT ![t] =
                       IF rest = <<>> THEN Idle
                       ELSE [thread[t] EXCEPT !.todo = rest, !.copy = written]]
      <4> HIDE DEF rest, written
      <4> QED
        BY <1>5, <3>1
    <3> QED
      BY <3>2 DEF GoesOn, Went
  <2>2. PICK b \in Steps \cup {"end"} :
          Place(t) = "replace" /\ Fits(thread[t].kind, "replace", b) /\ Moved(t, written, b)
    BY <1>1, <1>4, <2>1, Moves
  <2> HIDE DEF written
  <2> QED
    BY <1>5, <2>2
<1>7. \/ b = "cache" /\ thread[t].kind \in Putting
      \/ b = "announce" /\ thread[t].kind \in Replacing
  BY <1>6 DEF Fits
<1>8. thread[t].kind \in Putting => About(t) \in Cached
  BY <1>2, AboutThread
<1>9. thread[t].kind \in Replacing => About(t) \notin Cached
  BY <1>2, AboutThread DEF Replacing, Animating, Putting, Readers
<1> QED
  BY <1>1, <1>2, <1>3, <1>4, <1>5, <1>6, <1>7, <1>8, <1>9

LEMMA UpdateStep ==
  ASSUME Typed, NEW t \in Thread, Update(t)
  PROVE  /\ Busy(t) /\ Place(t) = "update" /\ Exists(About(t)) /\ Moved(t, thread[t].copy, "announce")
         /\ \/ /\ thread[t].kind = "setFixtureUniverse" /\ About(t) = "fixture"
               /\ library' = [library EXCEPT !["fixture"].universe = thread[t].copy.universe]
               /\ library'["fixture"] \in Document /\ library'["fixture"].universe = thread[t].copy.universe
            \/ /\ thread[t].kind = "finalizeAdHocExchange" /\ About(t) = "exchange"
               /\ library' = [library EXCEPT !["exchange"].content = thread[t].number]
               /\ library'["exchange"] \in Document
<1>1. /\ Due(t, "update") /\ Exists(About(t)) /\ GoesOn(t, thread[t].copy)
      /\ library' = [library EXCEPT ![About(t)] =
           IF About(t) = "fixture" THEN [@ EXCEPT !.universe = thread[t].copy.universe]
           ELSE [@ EXCEPT !.content = thread[t].number]]
  BY DEF Update, Continues
<1>2. Busy(t)
  BY <1>1 DEF Due
<1>3. PICK b \in Steps \cup {"end"} :
        Place(t) = "update" /\ Fits(thread[t].kind, "update", b) /\ Moved(t, thread[t].copy, b)
  BY <1>1, CopyTyped, Moves
<1>4. b = "announce" /\ thread[t].kind \in {"setFixtureUniverse", "finalizeAdHocExchange"}
  BY <1>3 DEF Fits
<1>5. /\ thread[t].kind = "setFixtureUniverse" => About(t) = "fixture"
      /\ thread[t].kind = "finalizeAdHocExchange" => About(t) = "exchange"
  BY <1>2, AboutThread
<1>6. /\ About(t) \in Doc /\ library[About(t)] \in Document
  BY <1>1, <1>2, AboutThread, StoredIsDocument
<1>7. /\ [library[About(t)] EXCEPT !.universe = thread[t].copy.universe] \in Document
      /\ [library[About(t)] EXCEPT !.universe = thread[t].copy.universe].universe = thread[t].copy.universe
      /\ [library[About(t)] EXCEPT !.content = thread[t].number] \in Document
  BY <1>6, CopyTyped DEF Document
<1>8. CASE thread[t].kind = "setFixtureUniverse"
  <2>1. library' = [library EXCEPT !["fixture"] = [library["fixture"] EXCEPT !.universe = thread[t].copy.universe]]
    BY <1>1, <1>5, <1>8
  <2>2. library'["fixture"] = [library["fixture"] EXCEPT !.universe = thread[t].copy.universe]
    BY <2>1, <1>5, <1>6, <1>8 DEF Typed, TypeOK
  <2> QED
    BY <1>1, <1>2, <1>3, <1>4, <1>5, <1>7, <1>8, <2>1, <2>2
<1>9. CASE thread[t].kind = "finalizeAdHocExchange"
  <2>1. library' = [library EXCEPT !["exchange"] = [library["exchange"] EXCEPT !.content = thread[t].number]]
    BY <1>1, <1>5, <1>9
  <2>2. library'["exchange"] = [library["exchange"] EXCEPT !.content = thread[t].number]
    BY <2>1, <1>5, <1>6, <1>9 DEF Typed, TypeOK
  <2> QED
    BY <1>1, <1>2, <1>3, <1>4, <1>5, <1>7, <1>9, <2>1, <2>2
<1> QED
  BY <1>4, <1>8, <1>9

LEMMA DeleteStep ==
  ASSUME Typed, NEW t \in Thread, Delete(t)
  PROVE  /\ Busy(t) /\ Place(t) = "delete" /\ About(t) \in Doc /\ Exists(About(t))
         /\ library' = [library EXCEPT ![About(t)] = Deleted] /\ library'[About(t)] = Deleted
         /\ \/ thread[t].kind = "deleteFixture" /\ About(t) = "fixture" /\ Moved(t, thread[t].copy, "uncache")
            \/ /\ thread[t].kind \in {"deleteStage", "deleteAnimation", "deleteStoryboard"}
               /\ About(t) \in {"stage", "animation", "storyboard"} /\ Moved(t, thread[t].copy, "announce")
<1>1. /\ Due(t, "delete") /\ Exists(About(t)) /\ GoesOn(t, thread[t].copy)
      /\ library' = [library EXCEPT ![About(t)] = Deleted]
  BY DEF Delete, Continues
<1>2. Busy(t)
  BY <1>1 DEF Due
<1>3. PICK b \in Steps \cup {"end"} :
        Place(t) = "delete" /\ Fits(thread[t].kind, "delete", b) /\ Moved(t, thread[t].copy, b)
  BY <1>1, CopyTyped, Moves
<1>4. \/ b = "uncache" /\ thread[t].kind = "deleteFixture"
      \/ b = "announce" /\ thread[t].kind \in {"deleteStage", "deleteAnimation", "deleteStoryboard"}
  BY <1>3 DEF Fits
<1>5. About(t) \in Doc /\ library'[About(t)] = Deleted
  BY <1>1, <1>2, AboutThread DEF Typed, TypeOK
<1> QED
  BY <1>1, <1>2, <1>3, <1>4, <1>5, AboutThread

LEMMA LookupStep ==
  ASSUME Typed, NEW t \in Thread, Lookup(t)
  PROVE  /\ Busy(t) /\ Place(t) = "lookup" /\ thread[t].kind \in {"useCreature", "useFixture"}
         /\ Moved(t, thread[t].copy, "find") \/ thread' = [thread EXCEPT ![t] = Idle]
<1>1. Due(t, "lookup") /\ (GoesOn(t, thread[t].copy) \/ thread' = [thread EXCEPT ![t] = Idle])
  BY DEF Lookup, Continues
<1>2. Busy(t) /\ Place(t) = "lookup"
  BY <1>1 DEF Due, Place
<1>3. Left(thread[t].kind, thread[t].todo)
  BY <1>2, ThreadTyped
<1>4. thread[t].kind \in {"useCreature", "useFixture"}
  <2>1. \E b : Fits(thread[t].kind, "lookup", b)
    BY <1>2, <1>3, TailOfLeft DEF Place
  <2> QED
    BY <2>1 DEF Fits
<1>5. CASE GoesOn(t, thread[t].copy)
  <2>1. PICK b \in Steps \cup {"end"} : Fits(thread[t].kind, "lookup", b) /\ Moved(t, thread[t].copy, b)
    BY <1>1, <1>5, CopyTyped, Moves
  <2>2. b = "find"
    BY <2>1 DEF Fits
  <2> QED
    BY <1>2, <1>4, <2>1, <2>2
<1> QED
  BY <1>1, <1>2, <1>4, <1>5

LEMMA CacheStep ==
  ASSUME Typed, NEW t \in Thread, Cache(t)
  PROVE  /\ Busy(t) /\ Place(t) = "cache" /\ About(t) \in Cached
         /\ objectCache' = [objectCache EXCEPT ![About(t)] = thread[t].copy]
         /\ Doubt(About(t), Accompanied(t))
         /\ \/ thread[t].kind \in Putting /\ Moved(t, thread[t].copy, "announce")
            \/ thread[t].kind \in Readers /\ Moved(t, thread[t].copy, "cache")
            \/ thread[t].kind \in Readers /\ Moved(t, thread[t].copy, "end")
            \/ thread[t].kind = "setFixtureUniverse" /\ Moved(t, thread[t].copy, "unlock")
<1>1. /\ Due(t, "cache") /\ GoesOn(t, thread[t].copy) /\ Doubt(About(t), Accompanied(t))
      /\ objectCache' = [objectCache EXCEPT ![About(t)] = thread[t].copy]
  BY DEF Cache, Continues
<1>2. Busy(t)
  BY <1>1 DEF Due
<1>3. PICK b \in Steps \cup {"end"} :
        Place(t) = "cache" /\ Fits(thread[t].kind, "cache", b) /\ Moved(t, thread[t].copy, b)
  BY <1>1, CopyTyped, Moves
<1>4. \/ b = "announce" /\ thread[t].kind \in Putting
      \/ b = "cache" /\ thread[t].kind \in {"useCreature", "useFixture"}
      \/ b = "end" /\ thread[t].kind \in Readers
      \/ b = "unlock" /\ thread[t].kind = "setFixtureUniverse"
  BY <1>3 DEF Fits
<1>5. {"useCreature", "useFixture"} \subseteq Readers
  BY DEF Readers
<1>6. About(t) \in Cached
  BY <1>2, <1>4, <1>5, AboutThread
<1> QED
  BY <1>1, <1>2, <1>3, <1>4, <1>5, <1>6

LEMMA UncacheStep ==
  ASSUME Typed, NEW t \in Thread, Uncache(t)
  PROVE  /\ Busy(t) /\ Place(t) = "uncache" /\ thread[t].kind = "deleteFixture" /\ About(t) = "fixture"
         /\ Moved(t, thread[t].copy, "announce")
<1>1. Due(t, "uncache") /\ GoesOn(t, thread[t].copy)
  BY DEF Uncache, Continues
<1>2. Busy(t)
  BY <1>1 DEF Due
<1>3. PICK b \in Steps \cup {"end"} :
        Place(t) = "uncache" /\ Fits(thread[t].kind, "uncache", b) /\ Moved(t, thread[t].copy, b)
  BY <1>1, CopyTyped, Moves
<1>4. b = "announce" /\ thread[t].kind = "deleteFixture"
  BY <1>3 DEF Fits
<1> QED
  BY <1>2, <1>3, <1>4, AboutThread

LEMMA AssignStep ==
  ASSUME Typed, NEW t \in Thread, Assign(t)
  PROVE  /\ Busy(t) /\ Place(t) = "assign" /\ About(t) \in Cached /\ thread[t].kind \in Assigning
         /\ \/ thread[t].kind = "setFixtureUniverse" /\ Moved(t, thread[t].copy, "find")
            \/ thread[t].kind # "setFixtureUniverse" /\ Moved(t, thread[t].copy, "end")
<1>1. Due(t, "assign") /\ GoesOn(t, thread[t].copy)
  BY DEF Assign, Continues
<1>2. Busy(t)
  BY <1>1 DEF Due
<1>3. PICK b \in Steps \cup {"end"} :
        Place(t) = "assign" /\ Fits(thread[t].kind, "assign", b) /\ Moved(t, thread[t].copy, b)
  BY <1>1, CopyTyped, Moves
<1>4. \/ b = "find" /\ thread[t].kind = "setFixtureUniverse"
      \/ b = "end" /\ thread[t].kind \in Assigning \ {"setFixtureUniverse"}
  BY <1>3 DEF Fits
<1>5. thread[t].kind \in Assigning /\ Assigning \subseteq Putting \cup {"setFixtureUniverse", "deleteFixture"}
  BY <1>4 DEF Assigning, Putting
<1> QED
  BY <1>2, <1>3, <1>4, <1>5, AboutThread

LEMMA LockStep ==
  ASSUME Typed, NEW t \in Thread, Lock(t)
  PROVE  /\ Busy(t) /\ Place(t) = "lock" /\ thread[t].kind = "setFixtureUniverse"
         /\ Moved(t, thread[t].copy, "update")
<1>1. Due(t, "lock") /\ GoesOn(t, thread[t].copy)
  BY DEF Lock, Continues
<1>2. PICK b \in Steps \cup {"end"} :
        Busy(t) /\ Place(t) = "lock" /\ Fits(thread[t].kind, "lock", b) /\ Moved(t, thread[t].copy, b)
  BY <1>1, CopyTyped, Moves
<1>3. b = "update" /\ thread[t].kind = "setFixtureUniverse"
  BY <1>2 DEF Fits
<1> QED
  BY <1>2, <1>3

LEMMA UnlockStep ==
  ASSUME Typed, NEW t \in Thread, Unlock(t)
  PROVE  /\ Busy(t) /\ Place(t) = "unlock" /\ thread[t].kind = "setFixtureUniverse"
         /\ Moved(t, thread[t].copy, "end")
<1>1. Due(t, "unlock") /\ GoesOn(t, thread[t].copy)
  BY DEF Unlock, Continues
<1>2. PICK b \in Steps \cup {"end"} :
        Busy(t) /\ Place(t) = "unlock" /\ Fits(thread[t].kind, "unlock", b) /\ Moved(t, thread[t].copy, b)
  BY <1>1, CopyTyped, Moves
<1>3. b = "end" /\ thread[t].kind = "setFixtureUniverse"
  BY <1>2 DEF Fits
<1> QED
  BY <1>2, <1>3

LEMMA AnnounceStep ==
  ASSUME Typed, NEW t \in Thread, Announce(t)
  PROVE  /\ Busy(t) /\ Place(t) = "announce" /\ thread[t].kind \notin Readers
         /\ \/ thread[t].kind \in Assigning /\ Moved(t, thread[t].copy, "assign")
            \/ thread[t].kind = "deleteAnimation" /\ Moved(t, thread[t].copy, "announce")
            \/ thread[t].kind \notin Assigning /\ Moved(t, thread[t].copy, "end")
<1>1. Due(t, "announce") /\ GoesOn(t, thread[t].copy)
  BY DEF Announce, Continues
<1>2. PICK b \in Steps \cup {"end"} :
        Busy(t) /\ Place(t) = "announce" /\ Fits(thread[t].kind, "announce", b) /\ Moved(t, thread[t].copy, b)
  BY <1>1, CopyTyped, Moves
<1>3. \/ b = "assign" /\ thread[t].kind \in Assigning
      \/ b = "announce" /\ thread[t].kind = "deleteAnimation"
      \/ b = "end" /\ thread[t].kind \notin Assigning \cup Readers
  BY <1>2 DEF Fits
<1>4. Assigning \cap Readers = {} /\ "deleteAnimation" \notin Readers
  BY DEF Assigning, Readers
<1> QED
  BY <1>2, <1>3, <1>4

\* An error or an early return.
LEMMA EndsStep ==
  ASSUME Typed, NEW t \in Thread, DatabaseFails(t) \/ NotFound(t)
  PROVE  /\ Busy(t) /\ Ends(t) /\ Stopped(t)
         /\ Place(t) \in {"find", "check", "backfill", "carry", "readStage", "replace", "update", "delete"}
<1>1. Ends(t)
  BY DEF DatabaseFails, NotFound
<1>2. \E step \in {"find", "check", "backfill", "carry", "readStage", "replace", "update", "delete"} : Due(t, step)
  BY DEF DatabaseFails, NotFound
<1>3. thread' = [thread EXCEPT ![t] = Idle]
  BY <1>1 DEF Ends
<1> QED
  BY <1>1, <1>2, <1>3, StoppedThread DEF Due, Place

LEMMA BeginStep ==
  ASSUME Typed, NEW t \in Thread, NEW kind \in Kinds, Begin(t, kind)
  PROVE  /\ ~Busy(t) /\ requests < workload.requests /\ requests' = requests + 1
         /\ UNCHANGED <<library, memory, workload, messages, suspect>>
         /\ thread' \in [Thread -> ThreadState] /\ Programmed'
         /\ Busy(t)' /\ thread'[t].kind = kind /\ thread'[t].number = requests + 2
         /\ thread'[t].copy \in Bodies(kind) /\ thread'[t].tells \in Announcements(kind)
         /\ \A o \in Others(kind) : Role(thread[o].kind) \in thread'[t].company
         /\ Opens(kind, Place(t)') /\ About(t)' = Request[kind].doc
         /\ \A o \in Thread \ {t} :
              /\ thread'[o].kind = thread[o].kind /\ thread'[o].number = thread[o].number
              /\ thread'[o].copy = thread[o].copy /\ thread'[o].todo = thread[o].todo
              /\ thread'[o].tells = thread[o].tells
              /\ thread[o].company \subseteq thread'[o].company
              /\ o \in Others(kind) => Role(kind) \in thread'[o].company
<1>1. PICK body \in Bodies(kind), tells \in Announcements(kind) :
        thread' = [u \in Thread |->
          IF u = t
          THEN [kind |-> kind, number |-> requests + 2,
                copy |-> body, todo |-> Request[kind].steps, tells |-> tells,
                company |-> {Role(thread[o].kind) : o \in Others(kind)}]
          ELSE IF u \in Others(kind)
          THEN [thread[u] EXCEPT !.company = @ \cup {Role(kind)}]
          ELSE thread[u]]
  BY DEF Begin
<1>2. /\ ~Busy(t) /\ requests < workload.requests /\ requests' = requests + 1
      /\ UNCHANGED <<library, memory, workload, messages, suspect>>
  BY DEF Begin
<1>3. body \in Document
  <2>1. Blank \in Document
    BY IdleTyped
  <2>2. \A u \in Universe \cup {None} : [Blank EXCEPT !.universe = u] \in Document
    BY <2>1 DEF Document
  <2> QED
    BY <2>1, <2>2 DEF Bodies
<1>4. tells \in SUBSET CacheType
  BY DEF Announcements, CacheType, Request, ListOf, Kinds
<1>5. requests + 2 \in Number
  <2>1. /\ requests \in 0 .. workload.requests /\ workload.requests \in 0 .. MaxRequests
    BY WorkloadsAssumption DEF Typed, TypeOK
  <2> QED
    BY <1>2, <2>1, LibraryAssumption DEF Number
<1>6. Left(kind, Request[kind].steps) /\ Opens(kind, Head(Request[kind].steps))
  BY Programs
<1>7. {Role(thread[o].kind) : o \in Others(kind)} \in SUBSET {"reader", "writer"} /\ Role(kind) \in {"reader", "writer"}
  BY DEF Role
<1>8. kind # None
  BY ValuesAssumption
<1>9. thread \in [Thread -> ThreadState]
  BY ThreadTyped
<1>10. thread' \in [Thread -> ThreadState]
  <2>1. [kind |-> kind, number |-> requests + 2, copy |-> body, todo |-> Request[kind].steps, tells |-> tells,
         company |-> {Role(thread[o].kind) : o \in Others(kind)}] \in ThreadState
    BY <1>3, <1>4, <1>5, <1>6, <1>7 DEF ThreadState, Left
  <2>2. ASSUME NEW u \in Thread
        PROVE  [thread[u] EXCEPT !.company = @ \cup {Role(kind)}] \in ThreadState
    BY <1>7, <1>9 DEF ThreadState
  <2> QED
    BY <1>1, <1>9, <2>1, <2>2
<1>11. thread'[t] = [kind |-> kind, number |-> requests + 2,
                copy |-> body, todo |-> Request[kind].steps, tells |-> tells,
                company |-> {Role(thread[o].kind) : o \in Others(kind)}]
  BY <1>1
<1>12. ASSUME NEW o \in Thread \ {t}
       PROVE  /\ thread'[o].kind = thread[o].kind /\ thread'[o].number = thread[o].number
              /\ thread'[o].copy = thread[o].copy /\ thread'[o].todo = thread[o].todo
              /\ thread'[o].tells = thread[o].tells
              /\ thread[o].company \subseteq thread'[o].company
              /\ o \in Others(kind) => Role(kind) \in thread'[o].company
              /\ o \notin Others(kind) => thread'[o] = thread[o]
  <2>1. thread'[o] = IF o \in Others(kind) THEN [thread[o] EXCEPT !.company = @ \cup {Role(kind)}] ELSE thread[o]
    BY <1>1
  <2> QED
    BY <2>1, <1>9 DEF ThreadState
<1>13. Busy(t)' /\ Place(t)' = Head(Request[kind].steps) /\ About(t)' = Request[kind].doc
  BY <1>8, <1>11 DEF Busy, Place, About
<1>14. ASSUME NEW o \in Thread
       PROVE  IF Busy(o)' THEN Left(thread'[o].kind, thread'[o].todo) ELSE thread'[o] = Idle
  <2>1. CASE o = t
    BY <1>6, <1>11, <1>13, <2>1
  <2>2. CASE o # t
    <3>1. ~Busy(o) => o \notin Others(kind)
      BY DEF Others, Works
    <3> QED
      BY <1>12, <2>2, <3>1 DEF Typed, Programmed, Busy
  <2> QED
    BY <2>1, <2>2
<1> QED
  BY <1>1, <1>2, <1>6, <1>10, <1>11, <1>12, <1>13, <1>14 DEF Programmed

-----------------------------------------------------------------------------
(* Types.                                                                  *)

\* A thread that went on is at the next step of its program, or done.
LEMMA ThreadKept ==
  ASSUME Typed, NEW t \in Thread,
         Find(t) \/ Check(t) \/ Backfill(t) \/ Carry(t) \/ ReadStage(t) \/ ReadNoStage(t)
           \/ Replace(t) \/ Update(t) \/ Delete(t) \/ Lookup(t) \/ Cache(t) \/ Uncache(t)
           \/ Assign(t) \/ Lock(t) \/ Unlock(t) \/ Announce(t)
  PROVE  thread' \in [Thread -> ThreadState] /\ Programmed'
<1>1. CASE Find(t)
  BY <1>1, FindStep, MovedThread
<1>2. CASE Check(t)
  BY <1>2, CheckStep, MovedThread
<1>3. CASE Backfill(t)
  BY <1>3, BackfillStep, MovedThread
<1>4. CASE Carry(t)
  BY <1>4, CarryStep, MovedThread
<1>5. CASE ReadStage(t)
  BY <1>5, ReadStageStep, MovedThread
<1>6. CASE ReadNoStage(t)
  BY <1>6, ReadNoStageStep, MovedThread
<1>7. CASE Replace(t)
  BY <1>7, ReplaceStep, MovedThread
<1>8. CASE Update(t)
  BY <1>8, UpdateStep, MovedThread
<1>9. CASE Delete(t)
  BY <1>9, DeleteStep, MovedThread
<1>10. CASE Lookup(t)
  BY <1>10, LookupStep, MovedThread, StoppedThread DEF Stopped
<1>11. CASE Cache(t)
  BY <1>11, CacheStep, MovedThread
<1>12. CASE Uncache(t)
  BY <1>12, UncacheStep, MovedThread
<1>13. CASE Assign(t)
  BY <1>13, AssignStep, MovedThread
<1>14. CASE Lock(t)
  BY <1>14, LockStep, MovedThread
<1>15. CASE Unlock(t)
  BY <1>15, UnlockStep, MovedThread
<1>16. CASE Announce(t)
  BY <1>16, AnnounceStep, MovedThread
<1> QED
  BY <1>1, <1>2, <1>3, <1>4, <1>5, <1>6, <1>7, <1>8,
     <1>9, <1>10, <1>11, <1>12, <1>13, <1>14, <1>15, <1>16

\* What is kept in memory and in the database is of its type.
StateOK ==
  /\ library \in [Doc -> Document \cup {Unborn, Deleted}]
  /\ objectCache \in [Cached -> Document \cup {None}]
  /\ universeOf \in [Cached -> Universe \cup {None}]
  /\ opMutex \in Thread \cup {None}
  /\ workload \in Workloads /\ requests \in 0 .. workload.requests
  /\ pending \subseteq CacheType
  /\ client \in [joined : BOOLEAN, inbox : SUBSET CacheType, stale : SUBSET CacheType]
  /\ suspect \subseteq {"creature", "fixture", "map", "stage"}

\* The types of the parts of the state.
LEMMA TypedIs ==
  Typed <=> StateOK /\ thread \in [Thread -> ThreadState] /\ Programmed
BY DEF Typed, TypeOK, StateOK, ThreadState

\* The same of the state after a step.
LEMMA TypedAfter ==
  ASSUME StateOK', thread' \in [Thread -> ThreadState], Programmed'
  PROVE  Typed'
BY DEF Typed, TypeOK, StateOK, ThreadState

LEMMA ListIsCacheType ==
  ASSUME NEW d \in Doc
  PROVE  ListOf[d] \in CacheType
BY DEF Doc, ListOf, CacheType

LEMMA ChangedTyped ==
  ASSUME StateOK, NEW d \in Doc, Changed(d)
  PROVE  /\ client' \in [joined : BOOLEAN, inbox : SUBSET CacheType, stale : SUBSET CacheType]
         /\ client'.joined = client.joined /\ client'.inbox = client.inbox
         /\ client'.stale = IF client.joined THEN client.stale \cup {ListOf[d]} ELSE client.stale
<1>1. ListOf[d] \in CacheType
  BY ListIsCacheType
<1>2. client \in [joined : BOOLEAN, inbox : SUBSET CacheType, stale : SUBSET CacheType]
  BY DEF StateOK
<1>3. CASE client.joined
  <2>1. client' = [client EXCEPT !.stale = client.stale \cup {ListOf[d]}]
    BY <1>3 DEF Changed
  <2> QED
    BY <1>1, <1>2, <1>3, <2>1
<1>4. CASE ~client.joined
  BY <1>2, <1>4 DEF Changed
<1> QED
  BY <1>3, <1>4

LEMMA HydratedTyped ==
  ASSUME Typed, NEW d \in Cached
  PROVE  Hydrated(d) \in Document \cup {None} /\ Hydrated(d) \in {None} \cup Stored(d)
<1>1. d \in Doc
  BY DEF Cached, Doc
<1> QED
  BY <1>1, StoredIsDocument DEF Hydrated, Stored

LEMMA UniverseTyped ==
  ASSUME Typed
  PROVE  UniverseInDatabase \in Universe \cup {None}
<1>1. "fixture" \in Doc
  BY DEF Doc
<1>2. CASE Exists("fixture")
  <2>1. library["fixture"] \in Document
    BY <1>1, <1>2, StoredIsDocument
  <2> QED
    BY <1>2, <2>1 DEF UniverseInDatabase, Document
<1> QED
  BY <1>2 DEF UniverseInDatabase

\* Steps that write nothing but the thread, and the mutex.
Quiet(t) ==
  Find(t) \/ Check(t) \/ Backfill(t) \/ Carry(t) \/ ReadStage(t) \/ ReadNoStage(t)
    \/ Lookup(t) \/ Lock(t) \/ Unlock(t)

LEMMA QuietKeeps ==
  ASSUME NEW t \in Thread, Quiet(t)
  PROVE  /\ UNCHANGED <<library, objectCache, universeOf, workload, requests, pending, client, suspect>>
         /\ opMutex' \in {opMutex, t, None}
BY DEF Quiet, Find, Check, Backfill, Carry, ReadStage, ReadNoStage, Lookup, Lock, Unlock, memory, bound, messages

\* One step of a thread keeps every type.
LEMMA TypedStep ==
  ASSUME Typed, NEW t \in Thread, Step(t)
  PROVE  Typed'
<1> USE TypedIs, TypedAfter
<1>1. CASE \E kind \in Kinds : Begin(t, kind)
  <2>1. PICK kind \in Kinds : Begin(t, kind)
    BY <1>1
  <2>2. /\ requests < workload.requests /\ requests' = requests + 1
        /\ UNCHANGED <<library, objectCache, universeOf, opMutex, workload, pending, client, suspect>>
        /\ thread' \in [Thread -> ThreadState] /\ Programmed'
    BY <2>1, BeginStep DEF memory, messages
  <2>3. workload.requests \in Nat
    BY WorkloadsAssumption, LibraryAssumption DEF StateOK
  <2>4. requests' \in 0 .. workload'.requests
    BY <2>2, <2>3 DEF StateOK
  <2> QED
    BY <2>2, <2>4 DEF StateOK
<1>2. CASE DatabaseFails(t) \/ NotFound(t)
  <2>1. /\ Ends(t) /\ thread' = [thread EXCEPT ![t] = Idle]
    BY <1>2, EndsStep DEF Ends
  <2>2. thread' \in [Thread -> ThreadState] /\ Programmed'
    BY <2>1, StoppedThread DEF Stopped
  <2>3. LeftBehind(t) \subseteq {"creature", "fixture", "map", "stage"}
    BY DEF LeftBehind
  <2> QED
    BY <2>1, <2>2, <2>3 DEF StateOK, Ends, bound, messages
<1>3. CASE Quiet(t)
  <2>1. thread' \in [Thread -> ThreadState] /\ Programmed'
    BY <1>3, ThreadKept DEF Quiet
  <2> QED
    BY <1>3, <2>1, QuietKeeps DEF StateOK
<1>4. CASE Replace(t)
  <2>1. thread' \in [Thread -> ThreadState] /\ Programmed'
    BY <1>4, ThreadKept
  <2>2. /\ About(t) \in Doc /\ library'[About(t)] \in Document
        /\ library' = [library EXCEPT ![About(t)] = library'[About(t)]]
    BY <1>4, ReplaceStep
  <2>3. library' \in [Doc -> Document \cup {Unborn, Deleted}]
    BY <2>2 DEF StateOK
  <2>4. client' \in [joined : BOOLEAN, inbox : SUBSET CacheType, stale : SUBSET CacheType]
    BY <1>4, <2>2, ChangedTyped DEF Replace
  <2>5. /\ suspect' \in {suspect, suspect \cup {"stage"}, suspect \ {"stage"}}
        /\ UNCHANGED <<objectCache, universeOf, opMutex, workload, requests, pending>>
    BY <1>4 DEF Replace, Doubt, memory, bound
  <2> QED
    BY <2>1, <2>3, <2>4, <2>5 DEF StateOK
<1>5. CASE Update(t)
  <2>1. thread' \in [Thread -> ThreadState] /\ Programmed'
    BY <1>5, ThreadKept
  <2>2. /\ About(t) \in {"fixture", "exchange"} /\ library'[About(t)] \in Document
        /\ library' = [library EXCEPT ![About(t)] = library'[About(t)]]
    BY <1>5, UpdateStep DEF StateOK, Doc
  <2>3. library' \in [Doc -> Document \cup {Unborn, Deleted}] /\ About(t) \in Doc
    BY <2>2 DEF StateOK, Doc
  <2>4. client' \in [joined : BOOLEAN, inbox : SUBSET CacheType, stale : SUBSET CacheType]
    BY <1>5, <2>3, ChangedTyped DEF Update
  <2>5. UNCHANGED <<objectCache, universeOf, opMutex, workload, requests, pending, suspect>>
    BY <1>5 DEF Update, memory, bound
  <2> QED
    BY <2>1, <2>3, <2>4, <2>5 DEF StateOK
<1>6. CASE Delete(t)
  <2>1. thread' \in [Thread -> ThreadState] /\ Programmed'
    BY <1>6, ThreadKept
  <2>2. About(t) \in Doc /\ library' = [library EXCEPT ![About(t)] = Deleted]
    BY <1>6, DeleteStep
  <2>3. library' \in [Doc -> Document \cup {Unborn, Deleted}]
    BY <2>2 DEF StateOK
  <2>4. client' \in [joined : BOOLEAN, inbox : SUBSET CacheType, stale : SUBSET CacheType]
    BY <1>6, <2>2, ChangedTyped DEF Delete
  <2>5. UNCHANGED <<objectCache, universeOf, opMutex, workload, requests, pending, suspect>>
    BY <1>6 DEF Delete, memory, bound
  <2> QED
    BY <2>1, <2>3, <2>4, <2>5 DEF StateOK
<1>7. CASE Cache(t)
  <2>1. thread' \in [Thread -> ThreadState] /\ Programmed'
    BY <1>7, ThreadKept
  <2>2. /\ About(t) \in Cached /\ objectCache' = [objectCache EXCEPT ![About(t)] = thread[t].copy]
        /\ Doubt(About(t), Accompanied(t))
    BY <1>7, CacheStep
  <2>3. UNCHANGED <<library, universeOf, opMutex, workload, requests, pending, client>>
    BY <1>7 DEF Cache, bound, messages
  <2>4. objectCache' \in [Cached -> Document \cup {None}]
    BY <2>2, CopyTyped DEF StateOK
  <2>5. suspect' \subseteq {"creature", "fixture", "map", "stage"}
    BY <2>2 DEF Doubt, Cached, StateOK
  <2> QED
    BY <2>1, <2>3, <2>4, <2>5 DEF StateOK
<1>8. CASE Uncache(t)
  <2>1. thread' \in [Thread -> ThreadState] /\ Programmed'
    BY <1>8, ThreadKept
  <2>2. /\ About(t) \in Cached /\ objectCache' = [objectCache EXCEPT ![About(t)] = None]
        /\ Doubt(About(t), Accompanied(t))
        /\ UNCHANGED <<library, universeOf, opMutex, workload, requests, pending, client>>
    BY <1>8, UncacheStep DEF Uncache, Cached, bound, messages
  <2>3. suspect' \subseteq {"creature", "fixture", "map", "stage"}
    BY <2>2 DEF Doubt, Cached, StateOK
  <2> QED
    BY <2>1, <2>2, <2>3 DEF StateOK
<1>9. CASE Assign(t)
  <2>1. thread' \in [Thread -> ThreadState] /\ Programmed'
    BY <1>9, ThreadKept
  <2>2. /\ About(t) \in Cached
        /\ universeOf' = [universeOf EXCEPT ![About(t)] = thread[t].copy.universe]
        /\ suspect' \in {suspect, suspect \cup {"map"}, suspect \ {"map"}}
        /\ UNCHANGED <<library, objectCache, opMutex, workload, requests, pending, client>>
    BY <1>9, AssignStep DEF Assign, Doubt, bound, messages
  <2>3. thread[t].copy.universe \in Universe \cup {None}
    BY CopyTyped DEF Document
  <2> QED
    BY <2>1, <2>2, <2>3 DEF StateOK
<1>10. CASE Announce(t)
  <2>1. thread' \in [Thread -> ThreadState] /\ Programmed'
    BY <1>10, ThreadKept
  <2>2. /\ pending' = pending \cup thread[t].tells
        /\ UNCHANGED <<library, objectCache, universeOf, opMutex, workload, requests, client, suspect>>
    BY <1>10 DEF Announce, memory, bound
  <2>3. thread[t].tells \subseteq CacheType
    BY DEF ThreadState
  <2> QED
    BY <2>1, <2>2, <2>3 DEF StateOK
<1> QED
  BY <1>1, <1>2, <1>3, <1>4, <1>5, <1>6, <1>7, <1>8, <1>9, <1>10 DEF Step, Quiet

\* Every step keeps the types.
LEMMA TypedNext ==
  ASSUME Typed, [Next]_vars
  PROVE  Typed'
<1> USE TypedIs, TypedAfter
<1>1. CASE \E t \in Thread : Step(t)
  BY <1>1, TypedStep
<1>2. CASE \E type \in CacheType : Broadcast(type)
  <2>1. PICK type \in CacheType : Broadcast(type)
    BY <1>2
  <2>2. /\ pending' \subseteq pending
        /\ UNCHANGED <<library, objectCache, universeOf, opMutex, thread, workload, requests, suspect>>
    BY <2>1 DEF Broadcast, memory, bound
  <2>3. client' \in [joined : BOOLEAN, inbox : SUBSET CacheType, stale : SUBSET CacheType]
    <3>1. client \in [joined : BOOLEAN, inbox : SUBSET CacheType, stale : SUBSET CacheType]
      BY DEF StateOK
    <3>2. client' = client \/ client' = [client EXCEPT !.inbox = client.inbox \cup {type}]
      BY <2>1 DEF Broadcast
    <3> QED
      BY <3>1, <3>2
  <2> QED
    BY <2>2, <2>3 DEF StateOK, Programmed, Busy
<1>3. CASE \E type \in CacheType : Fetch(type)
  <2>1. PICK type \in CacheType : Fetch(type)
    BY <1>3
  <2>2. UNCHANGED <<library, objectCache, universeOf, opMutex, thread, workload, requests, pending, suspect>>
    BY <2>1 DEF Fetch, memory, bound
  <2>3. client' \in [joined : BOOLEAN, inbox : SUBSET CacheType, stale : SUBSET CacheType]
    <3>1. client \in [joined : BOOLEAN, inbox : SUBSET CacheType, stale : SUBSET CacheType]
      BY DEF StateOK
    <3>2. client' = [client EXCEPT !.inbox = client.inbox \ {type}, !.stale = client.stale \ {type}]
      BY <2>1 DEF Fetch
    <3> QED
      BY <3>1, <3>2
  <2> QED
    BY <2>2, <2>3 DEF StateOK, Programmed, Busy
<1>4. CASE \E d \in Doc : Expire(d)
  <2>1. PICK d \in Doc : Expire(d)
    BY <1>4
  <2>2. library' \in [Doc -> Document \cup {Unborn, Deleted}]
    BY <2>1 DEF Expire, StateOK
  <2>3. UNCHANGED <<objectCache, universeOf, opMutex, thread, workload, requests, pending, client, suspect>>
    BY <2>1 DEF Expire, memory, bound, messages
  <2>4. StateOK'
    BY <2>2, <2>3 DEF StateOK
  <2>5. Programmed'
    BY <2>3 DEF Programmed, Busy
  <2> QED
    BY <2>3, <2>4, <2>5
<1>5. CASE Join \/ Leave
  <2>1. UNCHANGED <<library, objectCache, universeOf, opMutex, thread, workload, requests, pending, suspect>>
    BY <1>5 DEF Join, Leave, memory, bound
  <2>2. client' \in [joined : BOOLEAN, inbox : SUBSET CacheType, stale : SUBSET CacheType]
    <3>1. /\ [joined |-> TRUE, inbox |-> {}, stale |-> {}] \in [joined : BOOLEAN, inbox : SUBSET CacheType, stale : SUBSET CacheType]
          /\ [joined |-> FALSE, inbox |-> {}, stale |-> {}] \in [joined : BOOLEAN, inbox : SUBSET CacheType, stale : SUBSET CacheType]
      OBVIOUS
    <3>2. \/ client' = [joined |-> TRUE, inbox |-> {}, stale |-> {}]
          \/ client' = [joined |-> FALSE, inbox |-> {}, stale |-> {}]
      BY <1>5 DEF Join, Leave, Away
    <3> QED
      BY <3>1, <3>2
  <2> QED
    BY <2>1, <2>2 DEF StateOK, Programmed, Busy
<1>6. CASE Restart
  <2>1. /\ thread' = [t \in Thread |-> Idle] /\ opMutex' = None
        /\ objectCache' = [d \in Cached |-> Hydrated(d)]
        /\ universeOf' = [creature |-> None, fixture |-> UniverseInDatabase]
        /\ pending' = {} /\ client' = Away
        /\ suspect' \subseteq suspect
        /\ UNCHANGED <<library, workload, requests>>
    BY <1>6 DEF Restart, bound
  <2>2. objectCache' \in [Cached -> Document \cup {None}]
    BY <2>1, HydratedTyped
  <2>3. universeOf' \in [Cached -> Universe \cup {None}]
    BY <2>1, UniverseTyped DEF Cached
  <2>4. client' \in [joined : BOOLEAN, inbox : SUBSET CacheType, stale : SUBSET CacheType]
    BY <2>1 DEF Away
  <2>5. thread' \in [Thread -> ThreadState] /\ Programmed'
    BY <2>1, IdleTyped DEF Programmed, Busy
  <2> QED
    BY <2>1, <2>2, <2>3, <2>4, <2>5 DEF StateOK
<1>7. CASE UNCHANGED vars
  BY <1>7 DEF vars, memory, bound, messages, StateOK, Programmed, Busy
<1> QED
  BY <1>1, <1>2, <1>3, <1>4, <1>5, <1>6, <1>7 DEF Next, Tell

-----------------------------------------------------------------------------
(* The mutex, and who knows of whom.                                       *)

\* The mutex stays with who holds it as long as nobody takes or leaves it.
LEMMA MutexKept ==
  ASSUME Typed, MutexInv, NEW t \in Thread, NEW copy, NEW b, Busy(t), Moved(t, copy, b),
         thread[t].kind = "setFixtureUniverse" => Place(t) # "lock" /\ b \notin {"lock", "end"},
         opMutex' = opMutex
  PROVE  MutexInv'
<1>1. ASSUME NEW o \in Thread
      PROVE  opMutex' = o <=> Past(o)'
  <2>1. opMutex = o <=> Past(o)
    BY DEF MutexInv
  <2>2. CASE o # t
    BY <2>1, <2>2 DEF Moved, Past, Busy, Place
  <2>3. CASE o = t
    <3>1. CASE thread[t].kind = "setFixtureUniverse"
      <4>1. Busy(t)' /\ Place(t)' = b /\ thread'[t].kind = thread[t].kind
        BY <3>1, MovedThread DEF Moved
      <4> QED
        BY <2>1, <2>3, <3>1, <4>1 DEF Past
    <3>2. CASE thread[t].kind # "setFixtureUniverse"
      <4>1. ~Past(t)'
        BY <3>2, MovedThread DEF Moved, Past
      <4> QED
        BY <2>1, <2>3, <3>2, <4>1 DEF Past
    <3> QED
      BY <3>1, <3>2
  <2> QED
    BY <2>2, <2>3
<1> QED
  BY <1>1 DEF MutexInv

\* The steps of a request that are not its end, nor about the mutex.
Advances(t) ==
  Find(t) \/ Check(t) \/ Backfill(t) \/ Carry(t) \/ ReadStage(t) \/ ReadNoStage(t)
    \/ Replace(t) \/ Update(t) \/ Delete(t) \/ Cache(t) \/ Uncache(t) \/ Assign(t) \/ Announce(t)

\* A step that advances its thread leaves the mutex, and comes to no lock.
LEMMA AdvancesMoves ==
  ASSUME Typed, NEW t \in Thread, Advances(t)
  PROVE  /\ Busy(t) /\ Place(t) # "lock" /\ opMutex' = opMutex
         /\ \E copy, b :
              /\ Moved(t, copy, b) /\ b # "lock"
              /\ thread[t].kind = "setFixtureUniverse" => b # "end"
<1>1. CASE Find(t)
  <2>1. opMutex' = opMutex
    BY <1>1 DEF Find, memory
  <2> QED
    BY <1>1, <2>1, FindStep DEF Readers, Assigning
<1>2. CASE Check(t)
  <2>1. opMutex' = opMutex
    BY <1>2 DEF Check, memory
  <2> QED
    BY <1>2, <2>1, CheckStep DEF Readers, Assigning
<1>3. CASE Backfill(t)
  <2>1. opMutex' = opMutex
    BY <1>3 DEF Backfill, memory
  <2> QED
    BY <1>3, <2>1, BackfillStep DEF Readers, Assigning
<1>4. CASE Carry(t)
  <2>1. opMutex' = opMutex
    BY <1>4 DEF Carry, memory
  <2> QED
    BY <1>4, <2>1, CarryStep DEF Readers, Assigning
<1>5. CASE ReadStage(t)
  <2>1. opMutex' = opMutex
    BY <1>5 DEF ReadStage, memory
  <2> QED
    BY <1>5, <2>1, ReadStageStep DEF Readers, Assigning
<1>6. CASE ReadNoStage(t)
  <2>1. opMutex' = opMutex
    BY <1>6 DEF ReadNoStage, memory
  <2> QED
    BY <1>6, <2>1, ReadNoStageStep DEF Readers, Assigning
<1>7. CASE Replace(t)
  <2>1. opMutex' = opMutex
    BY <1>7 DEF Replace, memory
  <2>2. Busy(t) /\ Place(t) = "replace"
    BY <1>7, ReplaceStep
  <2>3. \E copy : Moved(t, copy, "cache") \/ Moved(t, copy, "announce")
    BY <1>7, ReplaceStep, Zenon
  <2> QED
    BY <2>1, <2>2, <2>3
<1>8. CASE Update(t)
  <2>1. opMutex' = opMutex
    BY <1>8 DEF Update, memory
  <2> QED
    BY <1>8, <2>1, UpdateStep DEF Readers, Assigning
<1>9. CASE Delete(t)
  <2>1. opMutex' = opMutex
    BY <1>9 DEF Delete, memory
  <2> QED
    BY <1>9, <2>1, DeleteStep DEF Readers, Assigning
<1>10. CASE Cache(t)
  <2>1. opMutex' = opMutex
    BY <1>10 DEF Cache, memory
  <2> QED
    BY <1>10, <2>1, CacheStep DEF Readers, Assigning
<1>11. CASE Uncache(t)
  <2>1. opMutex' = opMutex
    BY <1>11 DEF Uncache, memory
  <2> QED
    BY <1>11, <2>1, UncacheStep DEF Readers, Assigning
<1>12. CASE Assign(t)
  <2>1. opMutex' = opMutex
    BY <1>12 DEF Assign, memory
  <2> QED
    BY <1>12, <2>1, AssignStep DEF Readers, Assigning
<1>13. CASE Announce(t)
  <2>1. opMutex' = opMutex
    BY <1>13 DEF Announce, memory
  <2> QED
    BY <1>13, <2>1, AnnounceStep DEF Readers, Assigning
<1> QED
  BY <1>1, <1>2, <1>3, <1>4, <1>5, <1>6, <1>7,
     <1>8, <1>9, <1>10, <1>11, <1>12, <1>13 DEF Advances

\* Every step of a thread keeps the mutex with who is past its lock.
LEMMA MutexStep ==
  ASSUME Typed, MutexInv, NEW t \in Thread, Step(t)
  PROVE  MutexInv'
<1>1. CASE \E kind \in Kinds : Begin(t, kind)
  <2>1. PICK kind \in Kinds : Begin(t, kind)
    BY <1>1
  <2>2. /\ ~Busy(t) /\ opMutex' = opMutex /\ Opens(kind, Place(t)') /\ thread'[t].kind = kind
        /\ \A o \in Thread \ {t} : thread'[o].kind = thread[o].kind /\ thread'[o].todo = thread[o].todo
    BY <2>1, BeginStep DEF memory
  <2>3. ~Past(t) /\ ~Past(t)'
    BY <2>2 DEF Past, Opens
  <2>4. \A o \in Thread \ {t} : Past(o)' <=> Past(o)
    BY <2>2 DEF Past, Busy, Place
  <2> QED
    BY <2>2, <2>3, <2>4 DEF MutexInv
<1>2. CASE DatabaseFails(t) \/ NotFound(t)
  <2>1. Stopped(t) /\ opMutex' = IF opMutex = t THEN None ELSE opMutex
    BY <1>2, EndsStep DEF Ends
  <2>2. ~Past(t)'
    BY <2>1, IdleTyped DEF Stopped, Past, Busy
  <2>3. \A o \in Thread \ {t} : Past(o)' <=> Past(o)
    BY <2>1 DEF Stopped, Past, Busy, Place
  <2> QED
    BY <2>1, <2>2, <2>3, LibraryAssumption DEF MutexInv
<1>3. CASE Lookup(t)
  <2>1. /\ Busy(t) /\ thread[t].kind \in {"useCreature", "useFixture"}
        /\ Moved(t, thread[t].copy, "find") \/ thread' = [thread EXCEPT ![t] = Idle]
        /\ opMutex' = opMutex
    BY <1>3, LookupStep DEF Lookup, memory
  <2>2. ~Past(t)
    BY <2>1 DEF Past
  <2>3. ~Past(t)' /\ \A o \in Thread \ {t} : thread'[o] = thread[o]
    BY <2>1, IdleTyped, StoppedThread DEF Moved, Stopped, Past, Busy
  <2>4. \A o \in Thread \ {t} : Past(o)' <=> Past(o)
    BY <2>3 DEF Past, Busy, Place
  <2> QED
    BY <2>1, <2>2, <2>3, <2>4 DEF MutexInv
<1>4. CASE Lock(t)
  <2>1. /\ Busy(t) /\ thread[t].kind = "setFixtureUniverse" /\ Moved(t, thread[t].copy, "update")
        /\ opMutex = None /\ opMutex' = t
    BY <1>4, LockStep DEF Lock
  <2>2. Past(t)'
    BY <2>1, MovedThread DEF Past, Moved
  <2>3. \A o \in Thread : ~Past(o)
    BY <2>1, LibraryAssumption DEF MutexInv
  <2>4. \A o \in Thread \ {t} : ~Past(o)'
    BY <2>1, <2>3 DEF Moved, Past, Busy, Place
  <2> QED
    BY <2>1, <2>2, <2>4 DEF MutexInv
<1>5. CASE Unlock(t)
  <2>1. /\ Busy(t) /\ Place(t) = "unlock" /\ thread[t].kind = "setFixtureUniverse"
        /\ Moved(t, thread[t].copy, "end") /\ opMutex' = None
    BY <1>5, UnlockStep DEF Unlock
  <2>2. opMutex = t
    BY <2>1 DEF MutexInv, Past
  <2>3. \A o \in Thread \ {t} : ~Past(o)
    BY <2>2 DEF MutexInv
  <2>4. \A o \in Thread \ {t} : ~Past(o)'
    BY <2>1, <2>3 DEF Moved, Past, Busy, Place
  <2>5. ~Past(t)'
    BY <2>1, MovedThread DEF Past
  <2> QED
    BY <2>1, <2>4, <2>5, LibraryAssumption DEF MutexInv
<1>6. CASE Advances(t)
  <2>1. Busy(t) /\ Place(t) # "lock" /\ opMutex' = opMutex
    BY <1>6, AdvancesMoves
  <2>2. PICK copy, b : /\ Moved(t, copy, b) /\ b # "lock"
                       /\ thread[t].kind = "setFixtureUniverse" => b # "end"
    BY <1>6, AdvancesMoves
  <2>3. thread[t].kind = "setFixtureUniverse" => Place(t) # "lock" /\ b \notin {"lock", "end"}
    BY <2>1, <2>2
  <2> QED
    BY <2>1, <2>2, <2>3, MutexKept
<1> QED
  BY <1>1, <1>2, <1>3, <1>4, <1>5, <1>6 DEF Step, Advances

\* Nobody begins, and who goes on forgets nobody it knows of.
LEMMA CompanyKept ==
  ASSUME CompanyInv,
         \A o \in Thread : Busy(o)' =>
           /\ Busy(o) /\ thread'[o].kind = thread[o].kind
           /\ thread[o].company \subseteq thread'[o].company
  PROVE  CompanyInv'
BY DEF CompanyInv, About, Role, Busy

\* Who begins knows of everybody under way, and they of it.
LEMMA CompanyBegin ==
  ASSUME Typed, CompanyInv, NEW t \in Thread, NEW kind \in Kinds, Begin(t, kind)
  PROVE  CompanyInv'
<1>1. /\ ~Busy(t) /\ Busy(t)' /\ thread'[t].kind = kind /\ About(t)' = Request[kind].doc
      /\ \A o \in Others(kind) : Role(thread[o].kind) \in thread'[t].company
      /\ \A o \in Thread \ {t} :
           /\ thread'[o].kind = thread[o].kind
           /\ thread[o].company \subseteq thread'[o].company
           /\ o \in Others(kind) => Role(kind) \in thread'[o].company
  BY BeginStep
<1>2. ASSUME NEW o \in Thread \ {t}
      PROVE  /\ Busy(o)' <=> Busy(o)
             /\ About(o)' = About(o)
             /\ (/\ Busy(o) /\ About(o) = Request[kind].doc
                 /\ ~(kind = "setFixtureUniverse" /\ thread[o].kind = "setFixtureUniverse")) => o \in Others(kind)
  BY <1>1 DEF Busy, About, Others, Works, Serialized
<1>3. ASSUME NEW u \in Thread, NEW o \in Thread, u # o, Busy(u)', Busy(o)', About(u)' = About(o)',
             ~(thread'[u].kind = "setFixtureUniverse" /\ thread'[o].kind = "setFixtureUniverse")
      PROVE  Role(thread'[o].kind) \in thread'[u].company
  <2>1. CASE u = t
    <3>1. o \in Others(kind) /\ thread'[o].kind = thread[o].kind
      BY <1>1, <1>2, <1>3, <2>1
    <3> QED
      BY <1>1, <2>1, <3>1
  <2>2. CASE o = t
    <3>1. u \in Others(kind)
      BY <1>1, <1>2, <1>3, <2>2
    <3> QED
      BY <1>1, <1>3, <2>2, <3>1
  <2>3. CASE u # t /\ o # t
    <3>1. Role(thread[o].kind) \in thread[u].company
      BY <1>1, <1>2, <1>3, <2>3 DEF CompanyInv
    <3> QED
      BY <1>1, <2>3, <3>1
  <2> QED
    BY <2>1, <2>2, <2>3
<1> QED
  BY <1>3 DEF CompanyInv

\* Every step of a thread keeps company as it is.
LEMMA CompanyStep ==
  ASSUME Typed, CompanyInv, NEW t \in Thread, Step(t)
  PROVE  CompanyInv'
<1>1. CASE \E kind \in Kinds : Begin(t, kind)
  BY <1>1, CompanyBegin
<1>2. CASE Stopped(t)
  <2>1. \A o \in Thread : Busy(o)' => o # t /\ thread'[o] = thread[o]
    BY <1>2, IdleTyped DEF Stopped, Busy
  <2> QED
    BY <2>1, CompanyKept DEF Busy
<1>3. CASE \E copy, b : Busy(t) /\ Moved(t, copy, b)
  <2>1. PICK copy, b : Busy(t) /\ Moved(t, copy, b)
    BY <1>3
  <2>2. \A o \in Thread : Busy(o)' =>
          /\ Busy(o) /\ thread'[o].kind = thread[o].kind
          /\ thread'[o].company = thread[o].company
    BY <2>1, IdleTyped DEF Moved, Busy
  <2> QED
    BY <2>2, CompanyKept
<1>4. CASE DatabaseFails(t) \/ NotFound(t) \/ Lookup(t)
  BY <1>2, <1>3, <1>4, EndsStep, LookupStep, StoppedThread
<1>5. CASE Advances(t)
  <2>1. Busy(t) /\ \E copy, b : Moved(t, copy, b)
    BY <1>5, AdvancesMoves
  <2> QED
    BY <1>3, <2>1
<1>6. CASE Lock(t) \/ Unlock(t)
  BY <1>3, <1>6, LockStep, UnlockStep
<1> QED
  BY <1>1, <1>4, <1>5, <1>6 DEF Step, Advances

-----------------------------------------------------------------------------
(* What the clients are told.                                              *)

\* What a request announces is the list its write outdates.
LEMMA AnnouncesItsList ==
  ASSUME NEW kind \in Kinds \ {"invalidate"}, NEW tells \in Announcements(kind)
  PROVE  ListOf[Request[kind].doc] \in tells
<1>1. CASE kind \in {"renderAnimation", "rerenderAnimation", "saveAnimation", "saveAnimationBare"}
  <2>1. tells = {"Animation", "SoundList"}
    BY <1>1 DEF Announcements
  <2>2. Request[kind].doc = "animation"
    BY <1>1 DEF Request
  <2>3. ListOf["animation"] = "Animation"
    BY DEF ListOf
  <2> QED
    BY <2>1, <2>2, <2>3
<1>2. CASE kind = "publishAdHocAnimation"
  <2>1. tells = {"AdHocAnimationList", "AdHocSoundList"}
    BY <1>2 DEF Announcements
  <2>2. Request[kind].doc = "adHocAnimation"
    BY <1>2 DEF Request
  <2>3. ListOf["adHocAnimation"] = "AdHocAnimationList"
    BY DEF ListOf
  <2> QED
    BY <2>1, <2>2, <2>3
<1>3. CASE kind \notin {"renderAnimation", "rerenderAnimation", "saveAnimation", "saveAnimationBare",
                        "publishAdHocAnimation", "invalidate"}
  <2>1. tells \in {{ListOf[Request[kind].doc]}}
    BY <1>3 DEF Announcements
  <2> QED
    BY <2>1
<1> QED
  BY <1>1, <1>2, <1>3

\* Who has something to tell still has it, and nothing changes for the client.
LEMMA ToldKept ==
  ASSUME ToldInv, NEW t \in Thread,
         \A o \in Thread \ {t} : thread'[o] = thread[o],
         Busy(t)' => Busy(t) /\ thread'[t].kind = thread[t].kind /\ thread'[t].tells = thread[t].tells,
         \A type : Tells(t, type) => Tells(t, type)',
         pending' = pending, client' = client
  PROVE  ToldInv'
<1>1. ASSUME NEW o \in Thread, Busy(o)', thread'[o].kind # "invalidate"
      PROVE  ListOf[About(o)'] \in thread'[o].tells
  <2>1. Busy(o) /\ thread'[o].kind = thread[o].kind /\ thread'[o].tells = thread[o].tells
    BY <1>1 DEF Busy
  <2>2. About(o)' = About(o)
    BY <2>1 DEF About
  <2> QED
    BY <1>1, <2>1, <2>2 DEF ToldInv
<1>2. ASSUME NEW type, \E o \in Thread : Tells(o, type)
      PROVE  \E o \in Thread : Tells(o, type)'
  <2>1. PICK o \in Thread : Tells(o, type)
    BY <1>2
  <2>2. CASE o = t
    BY <2>1, <2>2
  <2>3. CASE o # t
    BY <2>1, <2>3 DEF Tells, Wrote, Busy, Writing, Place
  <2> QED
    BY <2>2, <2>3
<1> QED
  BY <1>1, <1>2 DEF ToldInv

\* Between its last write and its announcement a request cannot end.
LEMMA ToldAdvance ==
  ASSUME Typed, ToldInv, NEW t \in Thread, NEW copy, NEW b, Busy(t), Moved(t, copy, b),
         \A type : Tells(t, type) => b = "announce",
         pending' = pending, client' = client
  PROVE  ToldInv'
<1>1. \A o \in Thread \ {t} : thread'[o] = thread[o]
  BY DEF Moved
<1>2. Busy(t)' => thread'[t].kind = thread[t].kind /\ thread'[t].tells = thread[t].tells
  BY MovedThread DEF Moved
<1>3. ASSUME NEW type, Tells(t, type)
      PROVE  Tells(t, type)'
  <2>1. /\ b = "announce" /\ Busy(t)' /\ Place(t)' = b
        /\ thread'[t].kind = thread[t].kind /\ thread'[t].tells = thread[t].tells
    BY <1>2, <1>3, MovedThread
  <2> QED
    BY <1>3, <2>1 DEF Tells, Wrote, Writing
<1> QED
  BY <1>1, <1>2, <1>3, ToldKept

\* A write makes a list stale, and its request is about to say so.
LEMMA ToldWrite ==
  ASSUME Typed, ToldInv, NEW t \in Thread, NEW copy, NEW b, Busy(t), Moved(t, copy, b),
         Place(t) \notin {"cache", "uncache", "announce", "assign"},
         Writing(t), thread[t].kind # "invalidate", b \in {"cache", "uncache", "announce"},
         thread[t].kind = "setFixtureUniverse" => b # "cache",
         Changed(About(t)), pending' = pending
  PROVE  ToldInv'
<1>1. \A o \in Thread \ {t} : thread'[o] = thread[o]
  BY DEF Moved
<1>2. /\ Busy(t)' /\ Place(t)' = b /\ About(t)' = About(t)
      /\ thread'[t].kind = thread[t].kind /\ thread'[t].tells = thread[t].tells
  BY MovedThread DEF Moved
<1>3. /\ client'.joined = client.joined /\ client'.inbox = client.inbox
      /\ client'.stale = IF client.joined THEN client.stale \cup {ListOf[About(t)]} ELSE client.stale
  BY TypedIs, AboutThread, ChangedTyped
<1>4. ListOf[About(t)] \in thread[t].tells
  BY DEF ToldInv
<1>5. Tells(t, ListOf[About(t)])'
  BY <1>2, <1>4 DEF Tells, Wrote, Writing
<1>6. \A o \in Thread : \A type : Tells(o, type) => o # t /\ Tells(o, type)'
  BY <1>1 DEF Tells, Wrote, Busy, Writing, Place
<1>7. ASSUME NEW o \in Thread, Busy(o)', thread'[o].kind # "invalidate"
      PROVE  ListOf[About(o)'] \in thread'[o].tells
  <2>1. CASE o = t
    BY <1>2, <1>4, <2>1
  <2>2. CASE o # t
    <3>1. Busy(o) /\ thread'[o] = thread[o] /\ About(o)' = About(o)
      BY <1>1, <1>7, <2>2 DEF Busy, About
    <3> QED
      BY <1>7, <3>1 DEF ToldInv
  <2> QED
    BY <2>1, <2>2
<1>8. ASSUME NEW type \in client'.stale
      PROVE  type \in client'.inbox \cup pending' \/ \E o \in Thread : Tells(o, type)'
  <2>1. CASE type = ListOf[About(t)]
    BY <1>2, <1>5, <2>1 DEF Tells
  <2>2. CASE type \in client.stale
    <3>1. type \in client.inbox \cup pending \/ \E o \in Thread : Tells(o, type)
      BY <2>2 DEF ToldInv
    <3> QED
      BY <1>3, <1>6, <3>1
  <2> QED
    BY <1>3, <2>1, <2>2
<1>9. ~client'.joined => client' = Away
  BY <1>3 DEF ToldInv, Changed
<1> QED
  BY <1>7, <1>8, <1>9 DEF ToldInv

\* Every step of a thread keeps what is to be told.
LEMMA ToldStep ==
  ASSUME Typed, ToldInv, NEW t \in Thread, Step(t)
  PROVE  ToldInv'
<1>1. CASE \E kind \in Kinds : Begin(t, kind)
  <2>1. PICK kind \in Kinds : Begin(t, kind)
    BY <1>1
  <2>2. /\ ~Busy(t) /\ pending' = pending /\ client' = client /\ thread'[t].kind = kind
        /\ thread'[t].tells \in Announcements(kind) /\ About(t)' = Request[kind].doc
        /\ \A o \in Thread \ {t} :
             thread'[o].kind = thread[o].kind /\ thread'[o].todo = thread[o].todo /\ thread'[o].tells = thread[o].tells
    BY <2>1, BeginStep DEF messages
  <2>3. \A o \in Thread : \A type : Tells(o, type) => Tells(o, type)'
    BY <2>2 DEF Tells, Wrote, Busy, Writing, Place
  <2>4. ASSUME NEW o \in Thread, Busy(o)', thread'[o].kind # "invalidate"
        PROVE  ListOf[About(o)'] \in thread'[o].tells
    <3>1. CASE o = t
      BY <2>2, <2>4, <3>1, AnnouncesItsList
    <3>2. CASE o # t
      <4>1. Busy(o) /\ About(o)' = About(o) /\ thread'[o].tells = thread[o].tells /\ thread'[o].kind = thread[o].kind
        BY <2>2, <2>4, <3>2 DEF Busy, About
      <4> QED
        BY <2>4, <4>1 DEF ToldInv
    <3> QED
      BY <3>1, <3>2
  <2> QED
    BY <2>2, <2>3, <2>4 DEF ToldInv
<1>2. CASE DatabaseFails(t) \/ NotFound(t)
  <2>1. /\ Stopped(t) /\ pending' = pending /\ client' = client
        /\ Place(t) \in {"find", "check", "backfill", "carry", "readStage", "replace", "update", "delete"}
    BY <1>2, EndsStep DEF Ends, messages
  <2>2. ~Busy(t)' /\ \A o \in Thread \ {t} : thread'[o] = thread[o]
    BY <2>1, IdleTyped DEF Stopped, Busy
  <2>3. \A type : ~Tells(t, type)
    BY <2>1 DEF Tells, Wrote
  <2> QED
    BY <2>1, <2>2, <2>3, ToldKept
<1>3. CASE Quiet(t)
  <2>1. pending' = pending /\ client' = client
    BY <1>3, QuietKeeps
  <2>2. Busy(t) /\ Place(t) \in {"find", "check", "backfill", "carry", "readStage", "lookup", "lock", "unlock"}
    BY <1>3, FindStep, CheckStep, BackfillStep, CarryStep, ReadStageStep, ReadNoStageStep, LookupStep, LockStep, UnlockStep
       DEF Quiet
  <2>3. \A type : ~Tells(t, type)
    BY <2>2 DEF Tells, Wrote
  <2>4. CASE Lookup(t)
    <3>1. Moved(t, thread[t].copy, "find") \/ Stopped(t)
      BY <2>4, LookupStep, StoppedThread
    <3>2. Stopped(t) => ~Busy(t)' /\ \A o \in Thread \ {t} : thread'[o] = thread[o]
      BY IdleTyped DEF Stopped, Busy
    <3> QED
      BY <2>1, <2>2, <2>3, <3>1, <3>2, ToldAdvance, ToldKept
  <2>5. CASE Lock(t) \/ Unlock(t)
    BY <2>1, <2>2, <2>3, <2>5, LockStep, UnlockStep, ToldAdvance
  <2>6. CASE Find(t) \/ Check(t) \/ Backfill(t) \/ Carry(t) \/ ReadStage(t) \/ ReadNoStage(t)
    <3>1. PICK copy, b : Moved(t, copy, b)
      BY <2>6, AdvancesMoves DEF Advances
    <3> QED
      BY <2>1, <2>2, <2>3, <3>1, ToldAdvance
  <2> QED
    BY <1>3, <2>4, <2>5, <2>6 DEF Quiet
<1>4. CASE Replace(t)
  <2>1. /\ Busy(t) /\ Place(t) = "replace" /\ Changed(About(t)) /\ pending' = pending
        /\ thread[t].kind \in Putting \cup Replacing
    BY <1>4, ReplaceStep DEF Replace
  <2>2. PICK copy, b : Moved(t, copy, b) /\ b \in {"cache", "announce"}
    BY <1>4, ReplaceStep, Zenon
  <2>3. Writing(t) /\ thread[t].kind \notin {"invalidate", "setFixtureUniverse"}
    BY <2>1 DEF Putting, Replacing, Animating, Readers, Writing
  <2> QED
    BY <2>1, <2>2, <2>3, ToldWrite
<1>5. CASE Update(t)
  <2>1. /\ Busy(t) /\ Place(t) = "update" /\ Changed(About(t)) /\ pending' = pending
        /\ Moved(t, thread[t].copy, "announce")
        /\ thread[t].kind \in {"setFixtureUniverse", "finalizeAdHocExchange"}
    BY <1>5, UpdateStep DEF Update
  <2>2. Writing(t)
    BY <2>1 DEF Readers, Writing
  <2> QED
    BY <2>1, <2>2, ToldWrite
<1>6. CASE Delete(t)
  <2>1. /\ Busy(t) /\ Place(t) = "delete" /\ Changed(About(t)) /\ pending' = pending
        /\ thread[t].kind \in {"deleteFixture", "deleteStage", "deleteAnimation", "deleteStoryboard"}
    BY <1>6, DeleteStep DEF Delete
  <2>2. Moved(t, thread[t].copy, "uncache") \/ Moved(t, thread[t].copy, "announce")
    BY <1>6, DeleteStep
  <2>3. Writing(t)
    BY <2>1 DEF Readers, Writing
  <2> QED
    BY <2>1, <2>2, <2>3, ToldWrite
<1>7. CASE Cache(t)
  <2>1. Busy(t) /\ Place(t) = "cache" /\ pending' = pending /\ client' = client
    BY <1>7, CacheStep DEF Cache, messages
  <2>2. \/ Moved(t, thread[t].copy, "announce")
        \/ thread[t].kind \in Readers \cup {"setFixtureUniverse"} /\ \E b : Moved(t, thread[t].copy, b)
    BY <1>7, CacheStep
  <2>3. thread[t].kind \in Readers \cup {"setFixtureUniverse"} => \A type : ~Tells(t, type)
    BY <2>1 DEF Tells, Wrote, Writing
  <2> QED
    BY <2>1, <2>2, <2>3, ToldAdvance
<1>8. CASE Uncache(t)
  BY <1>8, UncacheStep, ToldAdvance DEF Uncache, messages
<1>9. CASE Assign(t)
  <2>1. /\ Busy(t) /\ Place(t) = "assign" /\ pending' = pending /\ client' = client
        /\ \E b : Moved(t, thread[t].copy, b)
    BY <1>9, AssignStep DEF Assign, messages
  <2>2. \A type : ~Tells(t, type)
    BY <2>1 DEF Tells
  <2> QED
    BY <2>1, <2>2, ToldAdvance
<1>10. CASE Announce(t)
  <2>1. /\ pending' = pending \cup thread[t].tells /\ client' = client
    BY <1>10 DEF Announce
  <2>2. PICK b : Busy(t) /\ Moved(t, thread[t].copy, b)
    BY <1>10, AnnounceStep
  <2>3. /\ \A o \in Thread \ {t} : thread'[o] = thread[o]
        /\ Busy(t)' => thread'[t].kind = thread[t].kind /\ thread'[t].tells = thread[t].tells /\ About(t)' = About(t)
    BY <2>2, MovedThread DEF Moved
  <2>4. \A o \in Thread : \A type : Tells(o, type) => Tells(o, type)' \/ type \in thread[t].tells
    BY <2>3 DEF Tells, Wrote, Busy, Writing, Place
  <2>5. ASSUME NEW o \in Thread, Busy(o)', thread'[o].kind # "invalidate"
        PROVE  ListOf[About(o)'] \in thread'[o].tells
    <3>1. CASE o = t
      BY <2>2, <2>3, <2>5, <3>1 DEF ToldInv
    <3>2. CASE o # t
      BY <2>3, <2>5, <3>2 DEF ToldInv, Busy, About
    <3> QED
      BY <3>1, <3>2
  <2> QED
    BY <2>1, <2>4, <2>5 DEF ToldInv
<1> QED
  BY <1>1, <1>2, <1>3, <1>4, <1>5, <1>6, <1>7, <1>8, <1>9, <1>10 DEF Step, Quiet

\* So do a delivery, a client that comes or goes, and a restart.
LEMMA ToldNext ==
  ASSUME Typed, ToldInv, [Next]_vars
  PROVE  ToldInv'
<1> DEFINE Client == [joined : BOOLEAN, inbox : SUBSET CacheType, stale : SUBSET CacheType]
<1>1. client \in Client
  BY DEF Typed, TypeOK
<1>2. CASE \E t \in Thread : Step(t)
  BY <1>2, ToldStep
<1>3. ASSUME thread' = thread, ~client'.joined => client' = Away,
             \A type \in client'.stale : type \in client.stale /\ (type \in client.inbox \cup pending => type \in client'.inbox \cup pending')
      PROVE  ToldInv'
  <2>1. \A o \in Thread : Busy(o)' = Busy(o) /\ About(o)' = About(o) /\ \A type : Tells(o, type)' = Tells(o, type)
    BY <1>3 DEF Tells, Wrote, Busy, Writing, Place, About
  <2> QED
    BY <1>3, <2>1 DEF ToldInv
<1>4. CASE \E type \in CacheType : Broadcast(type)
  <2>1. PICK type \in CacheType : Broadcast(type)
    BY <1>4
  <2>2. thread' = thread /\ pending' = pending \ {type}
    BY <2>1 DEF Broadcast
  <2>3. CASE client.joined
    <3>1. client' = [client EXCEPT !.inbox = client.inbox \cup {type}]
      BY <2>1, <2>3 DEF Broadcast
    <3>2. client'.joined /\ client'.stale = client.stale /\ client'.inbox = client.inbox \cup {type}
      BY <1>1, <2>3, <3>1
    <3> QED
      BY <1>3, <2>2, <3>2
  <2>4. CASE ~client.joined
    <3>1. client' = client /\ client.stale = {}
      BY <2>1, <2>4 DEF Broadcast, ToldInv, Away
    <3> QED
      BY <1>3, <2>2, <2>4, <3>1 DEF ToldInv
  <2> QED
    BY <2>3, <2>4
<1>5. CASE \E type \in CacheType : Fetch(type)
  <2>1. PICK type \in CacheType : Fetch(type)
    BY <1>5
  <2>2. thread' = thread /\ pending' = pending /\ type \in client.inbox
        /\ client' = [client EXCEPT !.inbox = client.inbox \ {type}, !.stale = client.stale \ {type}]
    BY <2>1 DEF Fetch
  <2>3. /\ client'.joined = client.joined /\ client'.inbox = client.inbox \ {type}
        /\ client'.stale = client.stale \ {type}
    BY <1>1, <2>2
  <2>4. client.joined
    BY <2>2 DEF ToldInv, Away
  <2> QED
    BY <1>3, <2>2, <2>3, <2>4
<1>6. CASE \E d \in Doc : Expire(d)
  <2>1. thread' = thread /\ pending' = pending /\ client' = client
    BY <1>6 DEF Expire, messages
  <2> QED
    BY <1>3, <2>1 DEF ToldInv
<1>7. CASE Join \/ Leave
  <2>1. thread' = thread /\ pending' = pending
    BY <1>7 DEF Join, Leave
  <2>2. client'.stale = {} /\ (~client'.joined => client' = Away)
    BY <1>7 DEF Join, Leave, Away
  <2> QED
    BY <1>3, <2>1, <2>2
<1>8. CASE Restart
  <2>1. thread' = [t \in Thread |-> Idle] /\ client' = Away
    BY <1>8 DEF Restart
  <2>2. \A o \in Thread : ~Busy(o)'
    BY <2>1, IdleTyped DEF Busy
  <2>3. client'.stale = {}
    BY <2>1 DEF Away
  <2> QED
    BY <2>1, <2>2, <2>3 DEF ToldInv
<1>9. CASE UNCHANGED vars
  <2>1. thread' = thread /\ pending' = pending /\ client' = client
    BY <1>9 DEF vars, messages
  <2> QED
    BY <1>3, <2>1 DEF ToldInv
<1> QED
  BY <1>2, <1>4, <1>5, <1>6, <1>7, <1>8, <1>9 DEF Next, Tell

-----------------------------------------------------------------------------
(* The universe of the fixture.                                            *)

\* The map and the fixture stay as they are, and whose turn it is to assign.
LEMMA UniverseKept ==
  ASSUME UniverseInv, NEW t \in Thread,
         \A o \in Thread \ {t} : thread'[o] = thread[o],
         library'["fixture"] = library["fixture"], universeOf'["fixture"] = universeOf["fixture"],
         "map" \in suspect => "map" \in suspect',
         Assigns(t) => Assigns(t)',
         Assigns(t)' => Assigns(t) /\ thread'[t].copy = thread[t].copy /\ thread'[t].company = thread[t].company,
         thread'[t].kind = "deleteFixture" => thread[t].kind = "deleteFixture" /\ thread'[t].copy = thread[t].copy
  PROVE  UniverseInv'
<1>1. UniverseInDatabase' = UniverseInDatabase
  BY DEF UniverseInDatabase, Exists
<1>2. \A o \in Thread \ {t} : Assigns(o)' <=> Assigns(o)
  BY DEF Assigns, Wrote, Busy, Writing, Place, About
<1>3. "map" \in suspect' \/ universeOf'["fixture"] = UniverseInDatabase' \/ \E o \in Thread : Assigns(o)'
  BY <1>1, <1>2 DEF UniverseInv
<1>4. ASSUME NEW o \in Thread, Assigns(o)', "writer" \notin thread'[o].company
      PROVE  thread'[o].copy.universe = UniverseInDatabase'
  <2>1. Assigns(o) /\ thread'[o].copy = thread[o].copy /\ thread'[o].company = thread[o].company
    BY <1>2, <1>4
  <2> QED
    BY <1>1, <1>4, <2>1 DEF UniverseInv
<1>5. \A o \in Thread : thread'[o].kind = "deleteFixture" => thread'[o].copy = Blank
  BY DEF UniverseInv
<1> QED
  BY <1>3, <1>4, <1>5 DEF UniverseInv

\* Who writes the fixture knows of whoever else has written it: the mutex
\* keeps the others apart.
LEMMA AssignersKnow ==
  ASSUME Typed, MutexInv, CompanyInv, NEW t \in Thread, NEW o \in Thread, o # t,
         Busy(t), Writing(t), About(t) = "fixture", Place(t) # "lock", Assigns(o)
  PROVE  "writer" \in thread[o].company
<1>1. /\ Busy(o) /\ Writing(o) /\ About(o) = "fixture"
      /\ Place(o) \in {"cache", "uncache", "announce", "assign"}
  BY DEF Assigns, Wrote
<1>2. ~(thread[t].kind = "setFixtureUniverse" /\ thread[o].kind = "setFixtureUniverse")
  BY <1>1 DEF MutexInv, Past
<1> QED
  BY <1>1, <1>2 DEF CompanyInv, Role, Writing

\* A write of the fixture is followed by the assignment of what it wrote.
LEMMA UniverseWrite ==
  ASSUME Typed, MutexInv, CompanyInv, UniverseInv, NEW t \in Thread, NEW copy, NEW b,
         Busy(t), Moved(t, copy, b), Writing(t), About(t) = "fixture",
         Place(t) \in {"replace", "update", "delete"},
         b \in {"cache", "uncache", "announce"}, thread[t].kind = "setFixtureUniverse" => b # "cache",
         copy.universe = UniverseInDatabase', thread[t].kind = "deleteFixture" => copy = Blank
  PROVE  UniverseInv'
<1>1. /\ Busy(t)' /\ Place(t)' = b /\ About(t)' = "fixture" /\ thread'[t].copy = copy
      /\ thread'[t].kind = thread[t].kind
  BY MovedThread DEF Moved
<1>2. Assigns(t)'
  BY <1>1 DEF Assigns, Wrote, Writing
<1>3. \A o \in Thread \ {t} : thread'[o] = thread[o] /\ (Assigns(o)' => Assigns(o))
  BY DEF Moved, Assigns, Wrote, Busy, Writing, Place, About
<1>4. \A o \in Thread \ {t} : Assigns(o)' => "writer" \in thread'[o].company
  BY <1>3, AssignersKnow
<1>5. \A o \in Thread : thread'[o].kind = "deleteFixture" => thread'[o].copy = Blank
  BY <1>1, <1>3 DEF UniverseInv
<1> QED
  BY <1>1, <1>2, <1>4, <1>5 DEF UniverseInv

\* A step that neither writes the fixture nor assigns a universe.
LEMMA UniverseQuiet ==
  ASSUME Typed, UniverseInv, NEW t \in Thread, Quiet(t)
  PROVE  UniverseInv'
<1>1. UNCHANGED <<library, universeOf, suspect>>
  BY QuietKeeps
<1>2. ASSUME NEW copy, NEW b, Busy(t), Moved(t, copy, b), ~Assigns(t),
             b \in {"cache", "uncache", "announce", "assign"} =>
               b = "cache" /\ (~Writing(t) \/ thread[t].kind = "setFixtureUniverse"),
             thread[t].kind = "deleteFixture" => b = "end"
      PROVE  UniverseInv'
  <2>1. ~Assigns(t)'
    BY <1>2, MovedThread DEF Assigns, Wrote, Writing, Moved
  <2>2. thread'[t].kind # "deleteFixture"
    BY <1>2, IdleTyped, ValuesAssumption DEF Moved, Kinds, Request
  <2>3. \A o \in Thread \ {t} : thread'[o] = thread[o]
    BY <1>2 DEF Moved
  <2> QED
    BY <1>1, <1>2, <2>1, <2>2, <2>3, UniverseKept
<1>3. CASE Find(t)
  <2>1. Busy(t) /\ Place(t) = "find"
    BY <1>3, FindStep
  <2>2. PICK copy, b : /\ Moved(t, copy, b) /\ b \in {"cache", "carry", "readStage"}
                       /\ b = "cache" => thread[t].kind \in Readers \cup {"setFixtureUniverse"}
                       /\ thread[t].kind # "deleteFixture"
    BY <1>3, FindStep, Zenon DEF Readers
  <2> QED
    BY <1>2, <2>1, <2>2 DEF Assigns, Wrote, Writing
<1>4. CASE Check(t)
  BY <1>2, <1>4, CheckStep DEF Assigns, Wrote
<1>5. CASE Backfill(t)
  BY <1>2, <1>5, BackfillStep DEF Assigns, Wrote
<1>6. CASE Carry(t)
  <2>1. About(t) = "animation" /\ Busy(t) /\ Place(t) = "carry" /\ \E copy : Moved(t, copy, "replace")
    BY <1>6, CarryStep
  <2>2. thread[t].kind # "deleteFixture"
    BY <2>1, AboutThread
  <2> QED
    BY <1>2, <2>1, <2>2 DEF Assigns, Wrote
<1>7. CASE ReadStage(t) \/ ReadNoStage(t)
  <2>1. Busy(t) /\ Place(t) = "readStage" /\ thread[t].kind # "deleteFixture" /\ \E copy : Moved(t, copy, "carry")
    BY <1>7, ReadStageStep, ReadNoStageStep
  <2> QED
    BY <1>2, <2>1 DEF Assigns, Wrote
<1>8. CASE Lookup(t)
  <2>1. /\ Busy(t) /\ Place(t) = "lookup" /\ thread[t].kind \in {"useCreature", "useFixture"}
        /\ Moved(t, thread[t].copy, "find") \/ thread' = [thread EXCEPT ![t] = Idle]
    BY <1>8, LookupStep
  <2>2. ~Assigns(t)
    BY <2>1 DEF Assigns, Wrote
  <2>3. CASE thread' = [thread EXCEPT ![t] = Idle]
    <3>1. Stopped(t) /\ ~Busy(t)'
      BY <2>3, StoppedThread
    <3>2. ~Assigns(t)' /\ thread'[t].kind # "deleteFixture"
      BY <3>1, IdleTyped, ValuesAssumption DEF Stopped, Assigns, Wrote, Kinds, Request
    <3> QED
      BY <1>1, <2>2, <3>1, <3>2, UniverseKept DEF Stopped
  <2> QED
    BY <1>2, <2>1, <2>2, <2>3
<1>9. CASE Lock(t)
  BY <1>2, <1>9, LockStep DEF Assigns, Wrote
<1>10. CASE Unlock(t)
  BY <1>2, <1>10, UnlockStep DEF Assigns, Wrote
<1> QED
  BY <1>3, <1>4, <1>5, <1>6, <1>7, <1>8, <1>9, <1>10 DEF Quiet

\* A request that begins.
LEMMA UniverseBegin ==
  ASSUME Typed, UniverseInv, NEW t \in Thread, NEW kind \in Kinds, Begin(t, kind)
  PROVE  UniverseInv'
<1>1. /\ ~Busy(t) /\ UNCHANGED <<library, universeOf, suspect>> /\ thread'[t].kind = kind
      /\ thread'[t].copy \in Bodies(kind) /\ Opens(kind, Place(t)') /\ About(t)' = Request[kind].doc
      /\ \A o \in Thread \ {t} :
              /\ thread'[o].kind = thread[o].kind
              /\ thread'[o].copy = thread[o].copy /\ thread'[o].todo = thread[o].todo
              /\ thread[o].company \subseteq thread'[o].company
  BY BeginStep DEF memory
<1>2. UniverseInDatabase' = UniverseInDatabase
  BY <1>1 DEF UniverseInDatabase, Exists
<1>3. ~Assigns(t)'
  <2>1. Request["invalidate"].doc # "fixture"
    BY DEF Request
  <2> QED
    BY <1>1, <2>1 DEF Assigns, Wrote, Opens
<1>4. ~Assigns(t)
  BY <1>1 DEF Assigns, Wrote
<1>5. \A o \in Thread \ {t} : Assigns(o)' <=> Assigns(o)
  BY <1>1 DEF Assigns, Wrote, Busy, Writing, Place, About
<1>6. kind = "deleteFixture" => thread'[t].copy = Blank
  BY <1>1 DEF Bodies
<1> QED
  BY <1>1, <1>2, <1>3, <1>4, <1>5, <1>6 DEF UniverseInv

LEMMA FixtureTyped ==
  ASSUME Typed
  PROVE  /\ "fixture" \in Doc /\ "fixture" \in Cached /\ DOMAIN library = Doc /\ DOMAIN universeOf = Cached
         /\ \A document \in Document : document \notin {Unborn, Deleted} /\ document # None
         /\ Blank \in Document /\ Blank.universe = None
<1>1. Blank \in Document
  BY IdleTyped
<1>2. Blank.universe = None
  BY DEF Blank
<1> QED
  BY <1>1, <1>2, ValuesAssumption DEF Doc, Cached, Typed, TypeOK

\* Every step of a thread keeps the map in agreement with the fixture.
LEMMA UniverseStep ==
  ASSUME Typed, MutexInv, CompanyInv, UniverseInv, NEW t \in Thread, Step(t)
  PROVE  UniverseInv'
<1> USE FixtureTyped
<1>1. CASE \E kind \in Kinds : Begin(t, kind)
  BY <1>1, UniverseBegin
<1>2. CASE DatabaseFails(t) \/ NotFound(t)
  <2>1. /\ Stopped(t) /\ library' = library /\ universeOf' = universeOf /\ suspect \subseteq suspect'
        /\ Place(t) \in {"find", "check", "backfill", "carry", "readStage", "replace", "update", "delete"}
    BY <1>2, EndsStep DEF Ends
  <2>2. ~Assigns(t)
    BY <2>1 DEF Assigns, Wrote
  <2>3. ~Assigns(t)' /\ thread'[t].kind # "deleteFixture"
    BY <2>1, IdleTyped, ValuesAssumption DEF Stopped, Assigns, Wrote, Busy, Kinds, Request
  <2> QED
    BY <2>1, <2>2, <2>3, UniverseKept DEF Stopped
<1>3. CASE Quiet(t)
  BY <1>3, UniverseQuiet
<1>4. CASE Replace(t)
  <2>1. /\ Busy(t) /\ Place(t) = "replace" /\ About(t) \in Doc /\ library'[About(t)] \in Document
        /\ universeOf' = universeOf /\ thread[t].kind \in Putting \cup Replacing
        /\ \A d \in Doc \ {About(t)} : library'[d] = library[d]
    <3>1. library' = [library EXCEPT ![About(t)] = library'[About(t)]]
      BY <1>4, ReplaceStep
    <3> QED
      BY <1>4, <3>1, ReplaceStep DEF Replace, memory
  <2>2. PICK b : /\ b \in {"cache", "announce"} /\ Moved(t, library'[About(t)], b)
    BY <1>4, ReplaceStep, Zenon
  <2>3. Writing(t) /\ thread[t].kind \notin {"setFixtureUniverse", "deleteFixture"}
    BY <2>1 DEF Putting, Replacing, Animating, Readers, Writing
  <2>4. CASE About(t) = "fixture"
    <3>1. library'["fixture"].universe = UniverseInDatabase'
      BY <2>1, <2>4 DEF UniverseInDatabase, Exists
    <3> QED
      BY <2>1, <2>2, <2>3, <2>4, <3>1, UniverseWrite
  <2>5. CASE About(t) # "fixture"
    <3>1. "map" \in suspect => "map" \in suspect'
      BY <1>4 DEF Replace, Doubt
    <3>2. ~Assigns(t) /\ ~Assigns(t)' /\ thread'[t].kind # "deleteFixture"
      BY <2>1, <2>2, <2>3, <2>5, MovedThread DEF Assigns, Moved
    <3> QED
      BY <2>1, <2>2, <2>5, <3>1, <3>2, UniverseKept DEF Moved
  <2> QED
    BY <2>4, <2>5
<1>5. CASE Update(t)
  <2>1. /\ Busy(t) /\ Place(t) = "update" /\ Moved(t, thread[t].copy, "announce")
        /\ universeOf' = universeOf /\ suspect' = suspect
    BY <1>5, UpdateStep DEF Update, memory
  <2>2. CASE thread[t].kind = "setFixtureUniverse" /\ About(t) = "fixture"
    <3>1. library'["fixture"] \in Document /\ library'["fixture"].universe = thread[t].copy.universe
      BY <1>5, <2>2, UpdateStep
    <3>2. thread[t].copy.universe = UniverseInDatabase'
      BY <3>1 DEF UniverseInDatabase, Exists
    <3>3. Writing(t)
      BY <2>2 DEF Writing, Readers
    <3> QED
      BY <2>1, <2>2, <3>2, <3>3, UniverseWrite
  <2>3. CASE thread[t].kind = "finalizeAdHocExchange" /\ About(t) = "exchange"
    <3>1. library'["fixture"] = library["fixture"]
      <4>1. \E document : library' = [library EXCEPT !["exchange"] = document]
        BY <1>5, <2>3, UpdateStep
      <4> QED
        BY <4>1
    <3>2. ~Assigns(t) /\ ~Assigns(t)' /\ thread'[t].kind # "deleteFixture"
      BY <2>1, <2>3, MovedThread DEF Assigns, Moved
    <3> QED
      BY <2>1, <3>1, <3>2, UniverseKept DEF Moved
  <2> QED
    BY <1>5, <2>2, <2>3, UpdateStep
<1>6. CASE Delete(t)
  <2>1. /\ Busy(t) /\ Place(t) = "delete" /\ universeOf' = universeOf /\ suspect' = suspect
        /\ library' = [library EXCEPT ![About(t)] = Deleted] /\ About(t) \in Doc
    BY <1>6, DeleteStep DEF Delete, memory
  <2>2. CASE thread[t].kind = "deleteFixture" /\ About(t) = "fixture" /\ Moved(t, thread[t].copy, "uncache")
    <3>1. thread[t].copy = Blank
      BY <2>2 DEF UniverseInv
    <3>2. UniverseInDatabase' = None
      BY <2>1, <2>2 DEF UniverseInDatabase, Exists
    <3>3. Writing(t)
      BY <2>2 DEF Writing, Readers
    <3> QED
      BY <2>1, <2>2, <3>1, <3>2, <3>3, UniverseWrite
  <2>3. CASE /\ thread[t].kind \in {"deleteStage", "deleteAnimation", "deleteStoryboard"}
             /\ About(t) \in {"stage", "animation", "storyboard"} /\ Moved(t, thread[t].copy, "announce")
    <3>1. library'["fixture"] = library["fixture"]
      BY <2>1, <2>3
    <3>2. ~Assigns(t) /\ ~Assigns(t)' /\ thread'[t].kind # "deleteFixture"
      BY <2>1, <2>3, MovedThread DEF Assigns, Moved
    <3> QED
      BY <2>1, <2>3, <3>1, <3>2, UniverseKept DEF Moved
  <2> QED
    BY <1>6, <2>2, <2>3, DeleteStep
<1>7. ASSUME NEW copy, NEW b, Busy(t), Moved(t, copy, b), copy = thread[t].copy,
             library' = library, universeOf' = universeOf, "map" \in suspect => "map" \in suspect',
             Assigns(t) => b \in {"announce", "assign"},
             b = "announce" /\ About(t) = "fixture" /\ Writing(t) => Assigns(t),
             b = "assign" /\ About(t) = "fixture" /\ Writing(t) => Assigns(t),
             b = "cache" => ~Writing(t) \/ thread[t].kind = "setFixtureUniverse",
             b # "uncache"
      PROVE  UniverseInv'
  <2>1. b # "end" => /\ Busy(t)' /\ Place(t)' = b /\ About(t)' = About(t) /\ thread'[t].kind = thread[t].kind
                     /\ thread'[t].copy = thread[t].copy /\ thread'[t].company = thread[t].company
    BY <1>7, MovedThread DEF Moved
  <2>2. b = "end" => ~Busy(t)' /\ thread'[t] = Idle
    BY <1>7, MovedThread DEF Moved
  <2>3. Assigns(t) => Assigns(t)'
    BY <1>7, <2>1 DEF Assigns, Wrote, Writing
  <2>4. Assigns(t)' => Assigns(t) /\ thread'[t].copy = thread[t].copy /\ thread'[t].company = thread[t].company
    BY <1>7, <2>1, <2>2 DEF Assigns, Wrote, Writing
  <2>5. thread'[t].kind = "deleteFixture" => thread[t].kind = "deleteFixture" /\ thread'[t].copy = thread[t].copy
    BY <2>1, <2>2, IdleTyped, ValuesAssumption DEF Kinds, Request
  <2> QED
    BY <1>7, <2>3, <2>4, <2>5, UniverseKept DEF Moved
<1>8. CASE Cache(t)
  <2>1. /\ Busy(t) /\ Place(t) = "cache" /\ library' = library /\ universeOf' = universeOf
        /\ About(t) \in Cached /\ Doubt(About(t), Accompanied(t))
    BY <1>8, CacheStep DEF Cache
  <2>2. "map" \in suspect => "map" \in suspect'
    BY <2>1 DEF Doubt, Cached
  <2>3. CASE thread[t].kind \in Putting /\ Moved(t, thread[t].copy, "announce")
    <3>1. About(t) = "fixture" /\ Writing(t) => Assigns(t)
      BY <2>1, <2>3 DEF Assigns, Wrote, Putting
    <3> QED
      BY <1>7, <2>1, <2>2, <2>3, <3>1
  <2>4. CASE /\ thread[t].kind \in Readers \cup {"setFixtureUniverse"}
             /\ \E b \in {"cache", "end", "unlock"} : Moved(t, thread[t].copy, b)
    <3>1. ~Assigns(t) /\ (~Writing(t) \/ thread[t].kind = "setFixtureUniverse")
      BY <2>1, <2>4 DEF Assigns, Wrote, Writing
    <3> QED
      BY <1>7, <2>1, <2>2, <2>4, <3>1
  <2> QED
    BY <1>8, <2>3, <2>4, CacheStep
<1>9. CASE Uncache(t)
  <2>1. /\ Busy(t) /\ Place(t) = "uncache" /\ library' = library /\ universeOf' = universeOf
        /\ About(t) = "fixture" /\ Doubt(About(t), Accompanied(t)) /\ Moved(t, thread[t].copy, "announce")
        /\ thread[t].kind = "deleteFixture"
    BY <1>9, UncacheStep DEF Uncache
  <2>2. "map" \in suspect => "map" \in suspect'
    BY <2>1 DEF Doubt
  <2>3. Writing(t) => Assigns(t)
    BY <2>1 DEF Assigns, Wrote
  <2> QED
    BY <1>7, <2>1, <2>2, <2>3
<1>10. CASE Announce(t)
  <2>1. /\ Busy(t) /\ Place(t) = "announce" /\ library' = library /\ universeOf' = universeOf /\ suspect' = suspect
        /\ thread[t].kind \notin Readers
    BY <1>10, AnnounceStep DEF Announce, memory
  <2>2. CASE thread[t].kind \in Assigning /\ Moved(t, thread[t].copy, "assign")
    <3>1. About(t) = "fixture" /\ Writing(t) => Assigns(t)
      BY <2>1 DEF Assigns, Wrote
    <3> QED
      BY <1>7, <2>1, <2>2, <3>1
  <2>3. CASE /\ thread[t].kind \notin Assigning \/ thread[t].kind = "deleteAnimation"
             /\ \E b \in {"announce", "end"} : Moved(t, thread[t].copy, b)
    <3>1. ~(About(t) = "fixture" /\ Writing(t))
      BY <2>1, <2>3, AboutThread DEF Assigning
    <3>2. ~Assigns(t)
      BY <3>1 DEF Assigns, Wrote
    <3> QED
      BY <1>7, <2>1, <2>3, <3>1, <3>2
  <2> QED
    BY <1>10, <2>2, <2>3, AnnounceStep
<1>11. CASE Assign(t)
  <2>1. /\ Busy(t) /\ Place(t) = "assign" /\ About(t) \in Cached /\ library' = library
        /\ universeOf' = [universeOf EXCEPT ![About(t)] = thread[t].copy.universe]
        /\ thread[t].kind \in Assigning
    BY <1>11, AssignStep DEF Assign
  <2>2. PICK b : /\ Moved(t, thread[t].copy, b) /\ b \in {"find", "end"}
    BY <1>11, AssignStep
  <2>3. ~Assigns(t)'
    BY <2>1, <2>2, MovedThread DEF Assigns, Wrote
  <2>4. /\ thread'[t].kind = "deleteFixture" => thread[t].kind = "deleteFixture" /\ thread'[t].copy = thread[t].copy
        /\ \A o \in Thread \ {t} : thread'[o] = thread[o]
    BY <2>2, IdleTyped, ValuesAssumption DEF Moved, Kinds, Request
  <2>5. CASE About(t) # "fixture"
    <3>1. ~Assigns(t) /\ suspect' = suspect /\ universeOf'["fixture"] = universeOf["fixture"]
      BY <1>11, <2>1, <2>5 DEF Assign, Assigns
    <3> QED
      BY <2>1, <2>3, <2>4, <3>1, UniverseKept
  <2>6. CASE About(t) = "fixture"
    <3>1. /\ universeOf'["fixture"] = thread[t].copy.universe
          /\ UniverseInDatabase' = UniverseInDatabase
          /\ "writer" \in thread[t].company => "map" \in suspect'
      BY <1>11, <2>1, <2>6 DEF Assign, Doubt, UniverseInDatabase, Exists
    <3>2. Assigns(t)
      BY <2>1, <2>6 DEF Assigns, Wrote, Writing, Assigning, Readers
    <3>3. "map" \in suspect' \/ universeOf'["fixture"] = UniverseInDatabase'
      BY <3>1, <3>2 DEF UniverseInv
    <3>4. \A o \in Thread \ {t} : Assigns(o)' <=> Assigns(o)
      BY <2>4 DEF Assigns, Wrote, Busy, Writing, Place, About
    <3> QED
      BY <2>3, <2>4, <3>1, <3>3, <3>4 DEF UniverseInv
  <2> QED
    BY <2>5, <2>6
<1> QED
  BY <1>1, <1>2, <1>3, <1>4, <1>5, <1>6, <1>8, <1>9, <1>10, <1>11 DEF Step, Quiet

\* So do the steps that are no thread's.
LEMMA UniverseNext ==
  ASSUME Typed, MutexInv, CompanyInv, UniverseInv, [Next]_vars
  PROVE  UniverseInv'
<1>1. CASE \E t \in Thread : Step(t)
  BY <1>1, UniverseStep
<1>2. ASSUME thread' = thread, library'["fixture"] = library["fixture"], universeOf' = universeOf, suspect' = suspect
      PROVE  UniverseInv'
  <2>1. UniverseInDatabase' = UniverseInDatabase
    BY <1>2 DEF UniverseInDatabase, Exists
  <2>2. \A o \in Thread : Assigns(o)' <=> Assigns(o)
    BY <1>2 DEF Assigns, Wrote, Busy, Writing, Place, About
  <2> QED
    BY <1>2, <2>1, <2>2 DEF UniverseInv
<1>3. CASE \/ \E type \in CacheType : Tell(type)
           \/ Join \/ Leave \/ UNCHANGED vars
  BY <1>2, <1>3 DEF Tell, Broadcast, Fetch, Join, Leave, vars, memory
<1>4. CASE \E d \in Doc : Expire(d)
  <2>1. PICK d \in Mortal : library' = [library EXCEPT ![d] = Deleted]
    BY <1>4 DEF Expire
  <2>2. library'["fixture"] = library["fixture"]
    BY <2>1 DEF Mortal
  <2> QED
    BY <1>2, <1>4, <2>2 DEF Expire, memory
<1>5. CASE Restart
  <2>1. /\ thread' = [t \in Thread |-> Idle] /\ library' = library
        /\ universeOf' = [creature |-> None, fixture |-> UniverseInDatabase]
    BY <1>5 DEF Restart
  <2>2. UniverseInDatabase' = UniverseInDatabase /\ universeOf'["fixture"] = UniverseInDatabase
    BY <2>1 DEF UniverseInDatabase, Exists
  <2>3. \A o \in Thread : ~Assigns(o)' /\ thread'[o].kind # "deleteFixture"
    BY <2>1, IdleTyped, ValuesAssumption DEF Assigns, Wrote, Busy, Kinds, Request
  <2> QED
    BY <2>2, <2>3 DEF UniverseInv
<1> QED
  BY <1>1, <1>3, <1>4, <1>5 DEF Next

-----------------------------------------------------------------------------
(* The object caches.                                                      *)

\* What is kept of documents that do not change, by a thread that has nothing
\* to put or still has it.
LEMMA CacheKept ==
  ASSUME CacheInv, NEW t \in Thread,
         \A o \in Thread \ {t} : thread'[o] = thread[o],
         \A d \in Cached : library'[d] = library[d],
         objectCache' = objectCache,
         \A d \in Cached : d \in suspect => d \in suspect',
         \A d \in Cached : Puts(t, d) => Puts(t, d)' \/ d \in suspect',
         \A d \in Cached :
           (Works(t, d)' /\ Place(t)' = "cache" /\ thread'[t].company = {}) => thread'[t].copy \in Stored(d)
  PROVE  CacheInv'
<1>1. \A d \in Cached : Stored(d)' = Stored(d)
  BY DEF Stored, Exists
<1>2. ASSUME NEW o \in Thread \ {t}, NEW d \in Cached
      PROVE  /\ Puts(o, d)' <=> Puts(o, d)
             /\ Works(o, d)' <=> Works(o, d)
             /\ Place(o)' = Place(o)
  BY <1>2 DEF Puts, Works, Busy, Writing, Place, About
<1>3. ASSUME NEW d \in Cached \ suspect'
      PROVE  objectCache'[d] \in {None} \cup Stored(d)' \/ \E o \in Thread : Puts(o, d)'
  <2>1. objectCache[d] \in {None} \cup Stored(d) \/ \E o \in Thread : Puts(o, d)
    BY <1>3 DEF CacheInv
  <2>2. CASE \E o \in Thread : Puts(o, d)
    BY <1>2, <1>3, <2>2
  <2> QED
    BY <1>1, <1>3, <2>1, <2>2
<1>4. ASSUME NEW o \in Thread, NEW d \in Cached, Works(o, d)', Place(o)' = "cache", thread'[o].company = {}
      PROVE  thread'[o].copy \in Stored(d)'
  <2>1. CASE o = t
    BY <1>1, <1>4, <2>1
  <2>2. CASE o # t
    <3>1. thread[o].copy \in Stored(d)
      BY <1>2, <1>4, <2>2 DEF CacheInv
    <3> QED
      BY <1>1, <2>2, <3>1
  <2> QED
    BY <2>1, <2>2
<1> QED
  BY <1>3, <1>4 DEF CacheInv

\* A step of a thread that is not at a put of its own, nor comes to one.
LEMMA CacheIdle ==
  ASSUME CacheInv, NEW t \in Thread, NEW copy, NEW b, Busy(t), Moved(t, copy, b), Typed,
         \A d \in Cached : library'[d] = library[d],
         objectCache' = objectCache,
         \A d \in Cached : d \in suspect => d \in suspect',
         \A d \in Cached : ~Puts(t, d), b # "cache"
  PROVE  CacheInv'
<1>1. \A d \in Cached : ~(Works(t, d)' /\ Place(t)' = "cache")
  BY MovedThread DEF Works
<1> QED
  BY <1>1, CacheKept DEF Moved

\* A write of a document that has a cache is followed by its put.
LEMMA CacheWrite ==
  ASSUME Typed, MutexInv, CompanyInv, CacheInv, NEW t \in Thread, NEW copy, NEW b,
         Busy(t), Moved(t, copy, b), Writing(t), About(t) \in Cached, Place(t) # "lock",
         \/ b \in {"cache", "uncache"}
         \/ b = "announce" /\ thread[t].kind = "setFixtureUniverse",
         b = "cache" => library'[About(t)] = copy /\ copy \in Document,
         \A d \in Doc \ {About(t)} : library'[d] = library[d],
         objectCache' = objectCache, suspect' = suspect
  PROVE  CacheInv'
<1>1. /\ Busy(t)' /\ Place(t)' = b /\ About(t)' = About(t) /\ thread'[t].copy = copy
      /\ thread'[t].kind = thread[t].kind
  BY MovedThread DEF Moved
<1>2. Puts(t, About(t))'
  BY <1>1 DEF Puts, Works, Writing
<1>3. ASSUME NEW o \in Thread \ {t}, NEW d \in Cached
      PROVE  /\ Puts(o, d)' <=> Puts(o, d)
             /\ Works(o, d)' <=> Works(o, d)
             /\ Place(o)' = Place(o) /\ thread'[o] = thread[o]
  BY <1>3 DEF Puts, Works, Busy, Writing, Place, About, Moved
<1>4. \A d \in Cached \ {About(t)} : Stored(d)' = Stored(d)
  BY DEF Stored, Exists, Cached, Doc
<1>5. ASSUME NEW d \in Cached \ suspect'
      PROVE  objectCache'[d] \in {None} \cup Stored(d)' \/ \E o \in Thread : Puts(o, d)'
  <2>1. CASE d = About(t)
    BY <1>1, <1>2, <2>1 DEF Puts, Works
  <2>2. CASE d # About(t)
    <3>1. \A o \in Thread : Puts(o, d) => o # t
      BY <2>2 DEF Puts, Works
    <3> QED
      BY <1>3, <1>4, <1>5, <2>2, <3>1 DEF CacheInv
  <2> QED
    BY <2>1, <2>2
<1>6. ASSUME NEW o \in Thread, NEW d \in Cached, Works(o, d)', Place(o)' = "cache", thread'[o].company = {}
      PROVE  thread'[o].copy \in Stored(d)'
  <2>1. CASE o = t
    <3>1. b = "cache" /\ d = About(t)
      BY <1>1, <1>6, <2>1 DEF Works
    <3>2. library'[d] = copy /\ Exists(d)'
      BY <3>1, ValuesAssumption DEF Exists
    <3> QED
      BY <1>1, <2>1, <3>2 DEF Stored
  <2>2. CASE o # t
    <3>1. Works(o, d) /\ Place(o) = "cache" /\ thread[o].company = {} /\ thread'[o] = thread[o]
      BY <1>3, <1>6, <2>2
    <3>2. CASE d = About(t)
      <4>1. Busy(o) /\ About(o) = About(t)
        BY <3>1, <3>2 DEF Works
      <4>2. thread[t].kind = "setFixtureUniverse" /\ thread[o].kind = "setFixtureUniverse"
        BY <2>2, <3>1, <4>1 DEF CompanyInv
      <4>3. Past(t) /\ Past(o)
        BY <3>1, <4>1, <4>2 DEF Past
      <4> QED
        BY <2>2, <4>3 DEF MutexInv
    <3>3. CASE d # About(t)
      BY <1>4, <3>1, <3>3 DEF CacheInv
    <3> QED
      BY <3>2, <3>3
  <2> QED
    BY <2>1, <2>2
<1> QED
  BY <1>5, <1>6 DEF CacheInv

\* What a put leaves is what is stored, unless it was not alone.
LEMMA CachePut ==
  ASSUME Typed, CacheInv, NEW t \in Thread, NEW copy, NEW b, NEW value,
         Busy(t), Moved(t, copy, b), About(t) \in Cached, UNCHANGED library,
         objectCache' = [objectCache EXCEPT ![About(t)] = value], Doubt(About(t), Accompanied(t)),
         thread[t].company = {} => value \in {None} \cup Stored(About(t)),
         b = "cache" => Place(t) = "cache" /\ copy = thread[t].copy
  PROVE  CacheInv'
<1>1. \A d \in Cached : Stored(d)' = Stored(d)
  BY DEF Stored, Exists
<1>2. ASSUME NEW o \in Thread \ {t}, NEW d \in Cached
      PROVE  /\ Puts(o, d)' <=> Puts(o, d)
             /\ Works(o, d)' <=> Works(o, d)
             /\ Place(o)' = Place(o) /\ thread'[o] = thread[o]
  BY <1>2 DEF Puts, Works, Busy, Writing, Place, About, Moved
<1>3. ASSUME NEW d \in Cached \ suspect'
      PROVE  objectCache'[d] \in {None} \cup Stored(d)' \/ \E o \in Thread : Puts(o, d)'
  <2>1. CASE d = About(t)
    <3>1. thread[t].company = {}
      BY <1>3, <2>1 DEF Doubt, Accompanied
    <3>2. objectCache'[d] = value
      BY <2>1 DEF Typed, TypeOK
    <3> QED
      BY <1>1, <2>1, <3>1, <3>2
  <2>2. CASE d # About(t)
    <3>1. objectCache'[d] = objectCache[d] /\ d \notin suspect
      BY <1>3, <2>2 DEF Doubt, Typed, TypeOK
    <3>2. \A o \in Thread : Puts(o, d) => o # t
      BY <2>2 DEF Puts, Works
    <3> QED
      BY <1>1, <1>2, <1>3, <3>1, <3>2 DEF CacheInv
  <2> QED
    BY <2>1, <2>2
<1>4. ASSUME NEW o \in Thread, NEW d \in Cached, Works(o, d)', Place(o)' = "cache", thread'[o].company = {}
      PROVE  thread'[o].copy \in Stored(d)'
  <2>1. CASE o = t
    <3>1. /\ b = "cache" /\ Works(t, d) /\ thread'[t].copy = copy /\ thread[t].company = {}
      BY <1>4, <2>1, MovedThread DEF Works, Moved
    <3> QED
      BY <1>1, <2>1, <3>1 DEF CacheInv
  <2>2. CASE o # t
    BY <1>1, <1>2, <1>4, <2>2 DEF CacheInv
  <2> QED
    BY <2>1, <2>2
<1> QED
  BY <1>3, <1>4 DEF CacheInv

LEMMA CacheQuiet ==
  ASSUME Typed, CacheInv, NEW t \in Thread, Quiet(t)
  PROVE  CacheInv'
<1>1. UNCHANGED <<library, objectCache, suspect>>
  BY QuietKeeps
<1>2. CASE Find(t)
  <2>1. Busy(t) /\ Place(t) = "find" /\ Exists(About(t))
    BY <1>2, FindStep
  <2>2. CASE /\ thread[t].kind \in Readers \cup {"setFixtureUniverse"} /\ About(t) \in Cached
             /\ Moved(t, library[About(t)], "cache")
    <3>1. /\ Busy(t)' /\ Place(t)' = "cache" /\ About(t)' = About(t) /\ thread'[t].copy = library[About(t)]
          /\ thread'[t].kind = thread[t].kind
      BY <2>1, <2>2, MovedThread DEF Moved
    <3>2. \A d \in Cached : Puts(t, d) => Puts(t, d)'
      BY <2>1, <3>1 DEF Puts, Works, Writing
    <3>3. \A d \in Cached : Works(t, d)' => thread'[t].copy \in Stored(d)
      BY <2>1, <3>1 DEF Works, Stored
    <3> QED
      BY <1>1, <2>2, <3>2, <3>3, CacheKept DEF Moved
  <2>3. CASE /\ thread[t].kind \in {"saveAnimation", "lipSyncAnimation", "saveAnimationBare", "rerenderAnimation"}
             /\ \E copy, b : Moved(t, copy, b) /\ b \in {"carry", "readStage"}
    <3>1. \A d \in Cached : ~Puts(t, d)
      BY <2>1, <2>3 DEF Puts
    <3> QED
      BY <1>1, <2>1, <2>3, <3>1, CacheIdle
  <2>4. \/ /\ thread[t].kind \in Readers \cup {"setFixtureUniverse"} /\ About(t) \in Cached
           /\ Moved(t, library[About(t)], "cache")
        \/ /\ thread[t].kind \in {"saveAnimation", "lipSyncAnimation", "saveAnimationBare", "rerenderAnimation"}
           /\ \E copy, b : Moved(t, copy, b) /\ b \in {"carry", "readStage"}
    BY <1>2, FindStep, Zenon
  <2> QED
    BY <2>2, <2>3, <2>4
<1>3. CASE Check(t) \/ Backfill(t) \/ Carry(t) \/ ReadStage(t) \/ ReadNoStage(t)
  <2>1. Busy(t) /\ Place(t) \in {"check", "backfill", "carry", "readStage"}
    BY <1>3, CheckStep, BackfillStep, CarryStep, ReadStageStep, ReadNoStageStep
  <2>2. \E copy, b : Moved(t, copy, b) /\ b \in {"replace", "delete", "carry"}
    <3>1. CASE Check(t)
      BY <3>1, CheckStep
    <3>2. CASE Backfill(t)
      BY <3>2, BackfillStep
    <3>3. CASE Carry(t)
      BY <3>3, CarryStep
    <3>4. CASE ReadStage(t)
      BY <3>4, ReadStageStep
    <3>5. CASE ReadNoStage(t)
      BY <3>5, ReadNoStageStep
    <3> QED
      BY <1>3, <3>1, <3>2, <3>3, <3>4, <3>5
  <2>3. \A d \in Cached : ~Puts(t, d)
    BY <2>1 DEF Puts
  <2> QED
    BY <1>1, <2>1, <2>2, <2>3, CacheIdle
<1>4. CASE Lookup(t)
  <2>1. Busy(t) /\ Place(t) = "lookup" /\ (Moved(t, thread[t].copy, "find") \/ Stopped(t))
    BY <1>4, LookupStep, StoppedThread
  <2>2. \A d \in Cached : ~Puts(t, d)
    BY <1>4, LookupStep DEF Puts, Writing, Readers
  <2>3. CASE Stopped(t)
    <3>1. \A d \in Cached : ~Works(t, d)'
      BY <2>3, IdleTyped DEF Stopped, Works, Busy
    <3> QED
      BY <1>1, <2>2, <2>3, <3>1, CacheKept DEF Stopped
  <2> QED
    BY <1>1, <2>1, <2>2, <2>3, CacheIdle
<1>5. CASE Lock(t) \/ Unlock(t)
  <2>1. Busy(t) /\ Place(t) \in {"lock", "unlock"} /\ \E b \in {"update", "end"} : Moved(t, thread[t].copy, b)
    BY <1>5, LockStep, UnlockStep
  <2>2. \A d \in Cached : ~Puts(t, d)
    BY <2>1 DEF Puts
  <2> QED
    BY <1>1, <2>1, <2>2, CacheIdle
<1> QED
  BY <1>2, <1>3, <1>4, <1>5 DEF Quiet

\* A request that begins.
LEMMA CacheBegin ==
  ASSUME Typed, CacheInv, NEW t \in Thread, NEW kind \in Kinds, Begin(t, kind)
  PROVE  CacheInv'
<1>1. /\ ~Busy(t) /\ UNCHANGED <<library, objectCache, suspect>> /\ thread'[t].kind = kind
      /\ Busy(t)' /\ Opens(kind, Place(t)') /\ About(t)' = Request[kind].doc
      /\ \A o \in Thread \ {t} :
              /\ thread'[o].kind = thread[o].kind
              /\ thread'[o].copy = thread[o].copy /\ thread'[o].todo = thread[o].todo
              /\ thread[o].company \subseteq thread'[o].company
  BY BeginStep DEF memory
<1>2. \A d : Stored(d)' = Stored(d)
  BY <1>1 DEF Stored, Exists
<1>3. \A d \in Cached : ~(Works(t, d)' /\ Place(t)' = "cache") /\ ~Puts(t, d)
  <2>1. Request["invalidate"].doc \notin Cached
    BY DEF Request, Cached
  <2> QED
    BY <1>1, <2>1 DEF Puts, Works, Opens
<1>4. ASSUME NEW o \in Thread \ {t}, NEW d \in Cached
      PROVE  /\ Puts(o, d) => Puts(o, d)'
             /\ Works(o, d)' => Works(o, d)
             /\ Place(o)' = Place(o)
  BY <1>1 DEF Puts, Works, Busy, Writing, Place, About
<1>5. ASSUME NEW d \in Cached \ suspect'
      PROVE  objectCache'[d] \in {None} \cup Stored(d)' \/ \E o \in Thread : Puts(o, d)'
  BY <1>1, <1>2, <1>3, <1>4, <1>5 DEF CacheInv
<1>6. ASSUME NEW o \in Thread, NEW d \in Cached, Works(o, d)', Place(o)' = "cache", thread'[o].company = {}
      PROVE  thread'[o].copy \in Stored(d)'
  <2>1. o # t
    BY <1>3, <1>6
  <2>2. Works(o, d) /\ Place(o) = "cache" /\ thread[o].company = {} /\ thread'[o].copy = thread[o].copy
    BY <1>1, <1>4, <1>6, <2>1
  <2> QED
    BY <1>2, <2>2 DEF CacheInv
<1> QED
  BY <1>5, <1>6 DEF CacheInv

\* Every step of a thread keeps the caches in agreement with the database.
LEMMA CachesStep ==
  ASSUME Typed, MutexInv, CompanyInv, CacheInv, NEW t \in Thread, Step(t)
  PROVE  CacheInv'
<1>1. CASE \E kind \in Kinds : Begin(t, kind)
  BY <1>1, CacheBegin
<1>2. CASE DatabaseFails(t) \/ NotFound(t)
  <2>1. /\ Busy(t) /\ Stopped(t) /\ library' = library /\ objectCache' = objectCache
        /\ suspect' = suspect \cup LeftBehind(t)
        /\ Place(t) \in {"find", "check", "backfill", "carry", "readStage", "replace", "update", "delete"}
    BY <1>2, EndsStep DEF Ends
  <2>2. \A d \in Cached : Puts(t, d) => d \in suspect'
    <3>1. ASSUME NEW d \in Cached, Puts(t, d)
          PROVE  d \in suspect'
      <4>1. thread[t].kind = "setFixtureUniverse" /\ Place(t) = "find" /\ About(t) = d
        BY <2>1, <3>1 DEF Puts, Works
      <4>2. d = "fixture"
        BY <2>1, <4>1, AboutThread
      <4> QED
        BY <2>1, <4>1, <4>2 DEF LeftBehind, Due, Place
    <3> QED
      BY <3>1
  <2>3. \A d \in Cached : ~Works(t, d)'
    BY <2>1, IdleTyped DEF Stopped, Works, Busy
  <2> QED
    BY <2>1, <2>2, <2>3, CacheKept DEF Stopped
<1>3. CASE Quiet(t)
  BY <1>3, CacheQuiet
<1>4. CASE Replace(t)
  <2>1. /\ Busy(t) /\ Place(t) = "replace" /\ About(t) \in Doc /\ library'[About(t)] \in Document
        /\ objectCache' = objectCache
        /\ \A d \in Doc \ {About(t)} : library'[d] = library[d]
    <3>1. library' = [library EXCEPT ![About(t)] = library'[About(t)]]
      BY <1>4, ReplaceStep
    <3> QED
      BY <1>4, <3>1, ReplaceStep DEF Replace, memory, Typed, TypeOK
  <2>2. CASE thread[t].kind \in Putting /\ About(t) \in Cached /\ Moved(t, library'[About(t)], "cache")
    <3>1. Writing(t)
      BY <2>2 DEF Putting, Readers, Writing
    <3>2. suspect' = suspect
      BY <1>4, <2>2 DEF Replace, Cached
    <3> QED
      BY <2>1, <2>2, <3>1, <3>2, CacheWrite
  <2>3. CASE /\ thread[t].kind \in Replacing /\ About(t) \notin Cached
             /\ Moved(t, library'[About(t)], "announce")
    <3>1. \A d \in Cached : ~Puts(t, d) /\ d \in Doc \ {About(t)} /\ d # "stage"
      BY <2>3 DEF Puts, Works, Cached, Doc
    <3>2. \A d \in Cached : library'[d] = library[d] /\ (d \in suspect => d \in suspect')
      BY <1>4, <2>1, <3>1 DEF Replace, Doubt
    <3> QED
      BY <2>1, <2>3, <3>1, <3>2, CacheIdle
  <2> QED
    BY <1>4, <2>2, <2>3, ReplaceStep, Zenon
<1>5. CASE Update(t)
  <2>1. /\ Busy(t) /\ Place(t) = "update" /\ Moved(t, thread[t].copy, "announce")
        /\ objectCache' = objectCache /\ suspect' = suspect
    BY <1>5, UpdateStep DEF Update, memory
  <2>2. CASE thread[t].kind = "setFixtureUniverse" /\ About(t) = "fixture"
    <3>1. \E document : library' = [library EXCEPT !["fixture"] = document]
      BY <1>5, <2>2, UpdateStep
    <3>2. \A d \in Doc \ {"fixture"} : library'[d] = library[d]
      BY <3>1
    <3>3. Writing(t) /\ "fixture" \in Cached
      BY <2>2 DEF Writing, Readers, Cached
    <3> QED
      BY <2>1, <2>2, <3>2, <3>3, CacheWrite
  <2>3. CASE thread[t].kind = "finalizeAdHocExchange" /\ About(t) = "exchange"
    <3>1. \E document : library' = [library EXCEPT !["exchange"] = document]
      BY <1>5, <2>3, UpdateStep
    <3>2. \A d \in Cached : library'[d] = library[d] /\ ~Puts(t, d)
      BY <2>3, <3>1 DEF Cached, Puts, Works
    <3> QED
      BY <2>1, <3>2, CacheIdle
  <2> QED
    BY <1>5, <2>2, <2>3, UpdateStep
<1>6. CASE Delete(t)
  <2>1. /\ Busy(t) /\ Place(t) = "delete" /\ objectCache' = objectCache /\ suspect' = suspect
        /\ library' = [library EXCEPT ![About(t)] = Deleted] /\ About(t) \in Doc
    BY <1>6, DeleteStep DEF Delete, memory
  <2>2. \A d \in Doc \ {About(t)} : library'[d] = library[d]
    BY <2>1
  <2>3. CASE thread[t].kind = "deleteFixture" /\ About(t) = "fixture" /\ Moved(t, thread[t].copy, "uncache")
    <3>1. Writing(t) /\ "fixture" \in Cached
      BY <2>3 DEF Writing, Readers, Cached
    <3> QED
      BY <2>1, <2>2, <2>3, <3>1, CacheWrite
  <2>4. CASE /\ thread[t].kind \in {"deleteStage", "deleteAnimation", "deleteStoryboard"}
             /\ About(t) \in {"stage", "animation", "storyboard"} /\ Moved(t, thread[t].copy, "announce")
    <3>1. \A d \in Cached : library'[d] = library[d] /\ ~Puts(t, d)
      BY <2>2, <2>4 DEF Cached, Doc, Puts, Works
    <3> QED
      BY <2>1, <2>4, <3>1, CacheIdle
  <2> QED
    BY <1>6, <2>3, <2>4, DeleteStep
<1>7. CASE Cache(t)
  <2>1. /\ Busy(t) /\ Place(t) = "cache" /\ library' = library /\ About(t) \in Cached
        /\ objectCache' = [objectCache EXCEPT ![About(t)] = thread[t].copy]
        /\ Doubt(About(t), Accompanied(t))
        /\ \E b : Moved(t, thread[t].copy, b)
    BY <1>7, CacheStep DEF Cache
  <2>2. thread[t].company = {} => thread[t].copy \in Stored(About(t))
    BY <2>1 DEF CacheInv, Works
  <2> QED
    BY <2>1, <2>2, CachePut
<1>8. CASE Uncache(t)
  <2>1. /\ Busy(t) /\ Place(t) = "uncache" /\ library' = library /\ About(t) \in Cached
        /\ objectCache' = [objectCache EXCEPT ![About(t)] = None]
        /\ Doubt(About(t), Accompanied(t))
        /\ Moved(t, thread[t].copy, "announce")
    BY <1>8, UncacheStep DEF Uncache, Cached
  <2> QED
    BY <2>1, CachePut
<1>9. CASE Assign(t)
  <2>1. /\ Busy(t) /\ Place(t) = "assign" /\ library' = library /\ objectCache' = objectCache
    BY <1>9, AssignStep DEF Assign
  <2>2. \A d \in Cached : d \in suspect => d \in suspect'
    BY <1>9 DEF Assign, Doubt, Cached
  <2>3. CASE thread[t].kind = "setFixtureUniverse" /\ Moved(t, thread[t].copy, "find")
    <3>1. /\ Busy(t)' /\ Place(t)' = "find" /\ About(t)' = About(t) /\ thread'[t].kind = thread[t].kind
      BY <2>1, <2>3, MovedThread DEF Moved
    <3>2. \A d \in Cached : Puts(t, d) => Puts(t, d)'
      BY <2>3, <3>1 DEF Puts, Works, Writing
    <3> QED
      BY <2>1, <2>2, <2>3, <3>1, <3>2, CacheKept DEF Moved
  <2>4. CASE thread[t].kind # "setFixtureUniverse" /\ Moved(t, thread[t].copy, "end")
    <3>1. \A d \in Cached : ~Puts(t, d)
      BY <2>1, <2>4 DEF Puts
    <3> QED
      BY <2>1, <2>2, <2>4, <3>1, CacheIdle
  <2> QED
    BY <1>9, <2>3, <2>4, AssignStep
<1>10. CASE Announce(t)
  <2>1. /\ Busy(t) /\ Place(t) = "announce" /\ library' = library /\ objectCache' = objectCache
        /\ suspect' = suspect
    BY <1>10, AnnounceStep DEF Announce, memory
  <2>2. PICK b \in {"assign", "announce", "end"} :
          /\ Moved(t, thread[t].copy, b)
          /\ thread[t].kind = "setFixtureUniverse" => b = "assign"
    BY <1>10, AnnounceStep DEF Assigning
  <2>3. CASE thread[t].kind = "setFixtureUniverse"
    <3>1. /\ Busy(t)' /\ Place(t)' = "assign" /\ About(t)' = About(t) /\ thread'[t].kind = thread[t].kind
      BY <2>1, <2>2, <2>3, MovedThread DEF Moved
    <3>2. \A d \in Cached : Puts(t, d) => Puts(t, d)'
      BY <2>3, <3>1 DEF Puts, Works, Writing
    <3> QED
      BY <2>1, <2>2, <3>1, <3>2, CacheKept DEF Moved
  <2>4. CASE thread[t].kind # "setFixtureUniverse"
    <3>1. \A d \in Cached : ~Puts(t, d)
      BY <2>1, <2>4 DEF Puts
    <3> QED
      BY <2>1, <2>2, <3>1, CacheIdle
  <2> QED
    BY <2>3, <2>4
<1> QED
  BY <1>1, <1>2, <1>3, <1>4, <1>5, <1>6, <1>7, <1>8, <1>9, <1>10 DEF Step, Quiet

\* So do the steps that are no thread's.
LEMMA CachesNext ==
  ASSUME Typed, MutexInv, CompanyInv, CacheInv, [Next]_vars
  PROVE  CacheInv'
<1>1. CASE \E t \in Thread : Step(t)
  BY <1>1, CachesStep
<1>2. ASSUME thread' = thread, \A d \in Cached : library'[d] = library[d], objectCache' = objectCache, suspect' = suspect
      PROVE  CacheInv'
  <2>1. \A d \in Cached : Stored(d)' = Stored(d)
    BY <1>2 DEF Stored, Exists
  <2>2. \A o \in Thread, d \in Cached :
          (Puts(o, d)' <=> Puts(o, d)) /\ (Works(o, d)' <=> Works(o, d)) /\ Place(o)' = Place(o)
    BY <1>2 DEF Puts, Works, Busy, Writing, Place, About
  <2> QED
    BY <1>2, <2>1, <2>2 DEF CacheInv
<1>3. CASE \/ \E type \in CacheType : Tell(type)
           \/ Join \/ Leave \/ UNCHANGED vars
  BY <1>2, <1>3 DEF Tell, Broadcast, Fetch, Join, Leave, vars, memory
<1>4. CASE \E d \in Doc : Expire(d)
  <2>1. PICK d \in Mortal : library' = [library EXCEPT ![d] = Deleted]
    BY <1>4 DEF Expire
  <2>2. \A e \in Cached : library'[e] = library[e]
    BY <2>1 DEF Mortal, Cached
  <2> QED
    BY <1>2, <1>4, <2>2 DEF Expire, memory
<1>5. CASE Restart
  <2>1. /\ thread' = [t \in Thread |-> Idle] /\ library' = library
        /\ objectCache' = [d \in Cached |-> Hydrated(d)]
    BY <1>5 DEF Restart
  <2>2. \A d \in Cached : Stored(d)' = Stored(d) /\ objectCache'[d] \in {None} \cup Stored(d)
    BY <2>1, HydratedTyped DEF Stored, Exists
  <2>3. \A o \in Thread, d \in Cached : ~Works(o, d)'
    BY <2>1, IdleTyped DEF Works, Busy
  <2> QED
    BY <2>2, <2>3 DEF CacheInv
<1> QED
  BY <1>1, <1>3, <1>4, <1>5 DEF Next

-----------------------------------------------------------------------------
(* The stamp of an animation.                                              *)

\* A thread that keeps its copy, and an animation that is not written.
LEMMA StampKept ==
  ASSUME StampInv, NEW t \in Thread,
         \A o \in Thread \ {t} : thread'[o] = thread[o],
         library'["animation"] = library["animation"],
         Works(t, "animation")' =>
           \/ ~Bare(t)' /\ Honest(thread'[t].copy)
           \/ /\ Bare(t)' /\ Exists("animation")
              /\ thread'[t].copy = [library["animation"] EXCEPT !.stamp = 0] /\ thread'[t].copy.stamp = 0
  PROVE  StampInv'
<1>1. Exists("animation")' = Exists("animation")
  BY DEF Exists
<1>2. ASSUME NEW o \in Thread \ {t}
      PROVE  /\ Works(o, "animation")' <=> Works(o, "animation")
             /\ Bare(o)' <=> Bare(o)
  BY DEF Works, Busy, About, Bare, Place
<1>3. Exists("animation")' => Honest(library["animation"])
  BY <1>1 DEF StampInv
<1>4. ASSUME NEW o \in Thread, Works(o, "animation")'
      PROVE  IF Bare(o)'
             THEN /\ thread'[o].copy.stamp = 0
                  /\ thread'[o].company = {} =>
                       /\ Exists("animation")
                       /\ thread'[o].copy = [library["animation"] EXCEPT !.stamp = 0]
             ELSE Honest(thread'[o].copy)
  <2>1. CASE o = t
    BY <1>4, <2>1
  <2>2. CASE o # t
    BY <1>2, <1>4, <2>2 DEF StampInv
  <2> QED
    BY <2>1, <2>2
<1> QED
  BY <1>1, <1>3, <1>4 DEF StampInv, Honest

\* A step that leaves the copy and the animation as they are.
LEMMA StampStays ==
  ASSUME Typed, StampInv, NEW t \in Thread, NEW b, Busy(t), Moved(t, thread[t].copy, b),
         library'["animation"] = library["animation"],
         ~Bare(t), b = "carry" => thread[t].kind # "saveAnimationBare"
  PROVE  StampInv'
<1>1. b # "end" => /\ Busy(t)' /\ Place(t)' = b /\ About(t)' = About(t) /\ thread'[t].kind = thread[t].kind
                   /\ thread'[t].copy = thread[t].copy
  BY MovedThread DEF Moved
<1>2. b = "end" => ~Busy(t)'
  BY MovedThread
<1>3. Works(t, "animation")' => ~Bare(t)' /\ Honest(thread'[t].copy)
  BY <1>1, <1>2 DEF Works, Bare, StampInv
<1> QED
  BY <1>3, StampKept DEF Moved

\* Every other save under way knows that the animation was written.
LEMMA StampWrite ==
  ASSUME Typed, CompanyInv, StampInv, NEW t \in Thread, NEW copy, NEW b,
         Busy(t), About(t) = "animation", Moved(t, copy, b), b # "carry",
         Exists("animation")' => Honest(library'["animation"]),
         Honest(copy)
  PROVE  StampInv'
<1>1. /\ b # "end" => /\ Busy(t)' /\ Place(t)' = b /\ thread'[t].copy = copy
      /\ b = "end" => ~Busy(t)'
  BY MovedThread DEF Moved
<1>2. Works(t, "animation")' => ~Bare(t)' /\ Honest(thread'[t].copy)
  BY <1>1 DEF Works, Bare, Honest
<1>3. ASSUME NEW o \in Thread \ {t}
      PROVE  /\ Works(o, "animation")' <=> Works(o, "animation")
             /\ Bare(o)' <=> Bare(o)
             /\ thread'[o] = thread[o]
  BY DEF Works, Busy, About, Bare, Place, Moved
<1>4. ASSUME NEW o \in Thread \ {t}, Works(o, "animation"), Bare(o)
      PROVE  thread[o].company # {}
  BY <1>4 DEF Works, Bare, CompanyInv
<1>5. ASSUME NEW o \in Thread, Works(o, "animation")', Bare(o)'
      PROVE  thread'[o].copy.stamp = 0 /\ thread'[o].company # {}
  <2>1. o # t
    BY <1>2, <1>5
  <2> QED
    BY <1>3, <1>4, <1>5, <2>1 DEF StampInv
<1>6. ASSUME NEW o \in Thread, Works(o, "animation")', ~Bare(o)'
      PROVE  Honest(thread'[o].copy)
  <2>1. CASE o = t
    BY <1>2, <1>6, <2>1
  <2>2. CASE o # t
    BY <1>3, <1>6, <2>2 DEF StampInv
  <2> QED
    BY <2>1, <2>2
<1> QED
  BY <1>5, <1>6 DEF StampInv, Honest

\* A save stamps what it has rendered.
LEMMA StampedHonest ==
  ASSUME Typed, StampInv, NEW t \in Thread, Works(t, "animation"), Place(t) = "carry", NEW stamp \in Number,
         Exists("animation") => stamp = library["animation"].stamp
  PROVE  Honest(Stamped(t, stamp))
<1> DEFINE copy == thread[t].copy
           stored == library["animation"]
<1>1. copy \in Document /\ (Exists("animation") => stored \in Document)
  BY CopyTyped, StoredIsDocument DEF Doc
<1>2. CASE copy.stamp # 0
  <2>1. ~Bare(t) /\ Stamped(t, stamp) = copy
    BY <1>2 DEF StampInv, Stamped
  <2> QED
    BY <2>1 DEF StampInv
<1>3. CASE copy.stamp = 0
  <2> SUFFICES ASSUME NEW new, new = Stamped(t, stamp)
               PROVE  Honest(new)
    OBVIOUS
  <2>1. new = [copy EXCEPT !.stamp = stamp, !.mixed = copy.mixed \/ thread[t].company # {}]
    BY <1>3 DEF Stamped
  <2>2. /\ new.stamp = stamp /\ new.rendered = copy.rendered
        /\ new.mixed <=> (copy.mixed \/ thread[t].company # {})
    BY <1>1, <2>1 DEF Document
  <2>3. CASE thread[t].company # {}
    BY <2>2, <2>3 DEF Honest
  <2>4. CASE thread[t].company = {} /\ Bare(t)
    <3>1. Exists("animation") /\ copy = [stored EXCEPT !.stamp = 0] /\ Honest(stored)
      BY <2>4 DEF StampInv
    <3>2. copy.rendered = stored.rendered /\ copy.mixed = stored.mixed /\ stamp = stored.stamp
      BY <1>1, <3>1 DEF Document
    <3> QED
      BY <2>2, <3>1, <3>2 DEF Honest
  <2>5. CASE thread[t].company = {} /\ ~Bare(t)
    <3>1. Honest(copy)
      BY <2>5 DEF StampInv
    <3>2. copy.mixed \/ copy.rendered = 0
      BY <1>3, <3>1 DEF Honest
    <3> QED
      BY <2>2, <3>2 DEF Honest
  <2> QED
    BY <2>3, <2>4, <2>5
<1> QED
  BY <1>2, <1>3

\* Every step of a thread keeps the stamps honest.
LEMMA StampStep ==
  ASSUME Typed, CompanyInv, StampInv, NEW t \in Thread, Step(t)
  PROVE  StampInv'
<1>1. CASE \E kind \in Kinds : Begin(t, kind)
  <2>1. PICK kind \in Kinds : Begin(t, kind)
    BY <1>1
  <2>2. /\ ~Busy(t) /\ library' = library /\ thread'[t].kind = kind
        /\ thread'[t].copy \in Bodies(kind) /\ Opens(kind, Place(t)') /\ About(t)' = Request[kind].doc
        /\ \A o \in Thread \ {t} :
              /\ thread'[o].kind = thread[o].kind
              /\ thread'[o].copy = thread[o].copy /\ thread'[o].todo = thread[o].todo
              /\ thread[o].company \subseteq thread'[o].company
    BY <2>1, BeginStep
  <2>3. ~Bare(t)'
    BY <2>2 DEF Bare, Opens
  <2>4. Works(t, "animation")' => Honest(thread'[t].copy)
    <3>1. ASSUME Request[kind].doc = "animation"
          PROVE  thread'[t].copy = Blank
      BY <2>2, <3>1, Documents DEF Bodies, Animating
    <3>2. Honest(Blank)
      BY DEF Honest, Blank
    <3> QED
      BY <2>2, <3>1, <3>2 DEF Works, Honest
  <2>5. ASSUME NEW o \in Thread \ {t}
        PROVE  (Works(o, "animation")' <=> Works(o, "animation")) /\ (Bare(o)' <=> Bare(o))
    BY <2>2 DEF Works, Busy, About, Bare, Place
  <2>6. ASSUME NEW o \in Thread, Works(o, "animation")'
        PROVE  IF Bare(o)'
               THEN /\ thread'[o].copy.stamp = 0
                    /\ thread'[o].company = {} =>
                         /\ Exists("animation")
                         /\ thread'[o].copy = [library["animation"] EXCEPT !.stamp = 0]
               ELSE Honest(thread'[o].copy)
    <3>1. CASE o = t
      BY <2>3, <2>4, <2>6, <3>1
    <3>2. CASE o # t
      <4>1. /\ Works(o, "animation") /\ (Bare(o)' <=> Bare(o)) /\ thread'[o].copy = thread[o].copy
            /\ thread[o].company \subseteq thread'[o].company
        BY <2>2, <2>5, <2>6, <3>2
      <4> QED
        BY <4>1 DEF StampInv
    <3> QED
      BY <3>1, <3>2
  <2>7. Exists("animation")' <=> Exists("animation")
    BY <2>2 DEF Exists
  <2> QED
    BY <2>2, <2>6, <2>7 DEF StampInv, Honest
<1>2. CASE Stopped(t) /\ library' = library
  <2>1. ~Works(t, "animation")'
    BY <1>2, IdleTyped DEF Stopped, Works, Busy
  <2> QED
    BY <1>2, <2>1, StampKept DEF Stopped
<1>3. CASE DatabaseFails(t) \/ NotFound(t)
  BY <1>2, <1>3, EndsStep DEF Ends
<1>4. CASE Find(t)
  <2>1. Busy(t) /\ Place(t) = "find" /\ Exists(About(t)) /\ library' = library
    BY <1>4, FindStep DEF Find
  <2>2. CASE /\ thread[t].kind \in Readers \cup {"setFixtureUniverse"} /\ About(t) \in Cached
             /\ Moved(t, library[About(t)], "cache")
    <3>1. ~Works(t, "animation")'
      BY <2>1, <2>2, MovedThread DEF Works, Cached
    <3> QED
      BY <2>1, <2>2, <3>1, StampKept DEF Moved
  <2>3. CASE /\ thread[t].kind \in {"saveAnimation", "lipSyncAnimation", "rerenderAnimation"}
             /\ About(t) = "animation" /\ \E b \in {"carry", "readStage"} : Moved(t, library["animation"], b)
    <3>1. PICK b \in {"carry", "readStage"} : Moved(t, library["animation"], b)
      BY <2>3
    <3>2. thread'[t].copy = library["animation"] /\ ~Bare(t)'
      BY <2>3, <3>1 DEF Moved, Bare
    <3>3. Honest(thread'[t].copy)
      BY <2>1, <2>3, <3>2 DEF StampInv
    <3> QED
      BY <2>1, <3>1, <3>2, <3>3, StampKept DEF Moved
  <2>4. CASE /\ thread[t].kind = "saveAnimationBare" /\ About(t) = "animation"
             /\ Moved(t, [library["animation"] EXCEPT !.stamp = 0], "carry")
    <3> DEFINE copy == [library["animation"] EXCEPT !.stamp = 0]
    <3>1. /\ thread'[t].copy = copy /\ Place(t)' = "carry"
          /\ thread'[t].kind = "saveAnimationBare"
      BY <2>1, <2>4, MovedThread DEF Moved
    <3>2. Bare(t)'
      BY <3>1 DEF Bare
    <3>3. copy.stamp = 0
      <4>1. library["animation"] \in Document
        BY <2>1, <2>4, StoredIsDocument DEF Doc
      <4> QED
        BY <4>1 DEF Document
    <3>4. Moved(t, copy, "carry")
      BY <2>4
    <3>5. \A o \in Thread \ {t} : thread'[o] = thread[o]
      BY <3>4 DEF Moved
    <3>6. library'["animation"] = library["animation"] /\ Exists("animation")
      BY <2>1, <2>4
    <3>7. thread'[t].copy.stamp = 0
      BY <3>1, <3>3
    <3> QED
      BY <3>1, <3>2, <3>5, <3>6, <3>7, StampKept
  <2> QED
    BY <1>4, <2>2, <2>3, <2>4, FindStep, Zenon
<1>5. CASE Check(t)
  <2>1. Busy(t) /\ Place(t) = "check" /\ library' = library
    BY <1>5, CheckStep DEF Check
  <2>2. Moved(t, thread[t].copy, "replace") \/ Moved(t, thread[t].copy, "delete")
    BY <1>5, CheckStep
  <2> QED
    BY <2>1, <2>2, StampStays DEF Bare
<1>6. CASE Backfill(t)
  <2>1. /\ Busy(t) /\ About(t) = "fixture" /\ library' = library
        /\ \E copy \in Document : Moved(t, copy, "replace")
    BY <1>6, BackfillStep DEF Backfill
  <2>2. ~Works(t, "animation")'
    BY <2>1, MovedThread DEF Works
  <2> QED
    BY <2>1, <2>2, StampKept DEF Moved
<1>7. CASE Carry(t)
  <2>1. Busy(t) /\ Place(t) = "carry" /\ About(t) = "animation" /\ library' = library
    BY <1>7, CarryStep DEF Carry
  <2>2. PICK stamp \in Number :
          /\ Exists("animation") => stamp = library["animation"].stamp
          /\ Moved(t, Stamped(t, stamp), "replace")
    BY <1>7, CarryStep, Zenon
  <2>3. Honest(Stamped(t, stamp))
    BY <2>1, <2>2, StampedHonest DEF Works
  <2>4. thread'[t].copy = Stamped(t, stamp) /\ Place(t)' = "replace"
    BY <2>1, <2>2, MovedThread DEF Moved
  <2>5. ~Bare(t)' /\ Honest(thread'[t].copy)
    BY <2>3, <2>4 DEF Bare
  <2> QED
    BY <2>1, <2>2, <2>5, StampKept DEF Moved
<1>8. CASE ReadStage(t)
  <2>1. /\ Busy(t) /\ Place(t) = "readStage" /\ About(t) = "animation" /\ library' = library
        /\ thread[t].kind \in {"renderAnimation", "rerenderAnimation"}
    BY <1>8, ReadStageStep DEF ReadStage
  <2>2. PICK copy \in Document : copy.stamp = copy.rendered /\ Moved(t, copy, "carry")
    BY <1>8, ReadStageStep
  <2>3. ~Bare(t)' /\ thread'[t].copy = copy
    BY <2>1, <2>2 DEF Moved, Bare
  <2>4. Honest(thread'[t].copy)
    BY <2>2, <2>3 DEF Honest
  <2> QED
    BY <2>1, <2>2, <2>3, <2>4, StampKept DEF Moved
<1>9. CASE ReadNoStage(t)
  <2>1. /\ Busy(t) /\ Place(t) = "readStage" /\ Moved(t, thread[t].copy, "carry") /\ library' = library
        /\ thread[t].kind = "renderAnimation"
    BY <1>9, ReadNoStageStep DEF ReadNoStage
  <2> QED
    BY <2>1, StampStays DEF Bare
<1>10. CASE Replace(t)
  <2>1. /\ Busy(t) /\ Place(t) = "replace" /\ About(t) \in Doc
        /\ \A d \in Doc \ {About(t)} : library'[d] = library[d]
    <3>1. library' = [library EXCEPT ![About(t)] = library'[About(t)]]
      BY <1>10, ReplaceStep
    <3> QED
      BY <1>10, <3>1, ReplaceStep DEF Typed, TypeOK
  <2>2. PICK b \in {"cache", "announce"} : Moved(t, library'[About(t)], b)
    BY <1>10, ReplaceStep, Zenon
  <2>3. CASE About(t) = "animation"
    <3>1. Honest(thread[t].copy)
      BY <2>1, <2>3 DEF StampInv, Works, Bare
    <3>2. library'["animation"] = [thread[t].copy EXCEPT !.content = thread[t].number]
      BY <1>10, <2>3, ReplaceStep
    <3>3. Honest(library'["animation"])
      BY <3>1, <3>2, CopyTyped DEF Honest, Document
    <3> QED
      BY <2>1, <2>2, <2>3, <3>3, StampWrite
  <2>4. CASE About(t) # "animation"
    <3>1. ~Works(t, "animation")'
      BY <2>1, <2>2, <2>4, MovedThread DEF Works
    <3>2. library'["animation"] = library["animation"]
      BY <2>1, <2>4 DEF Doc
    <3> QED
      BY <2>2, <3>1, <3>2, StampKept DEF Moved
  <2> QED
    BY <2>3, <2>4
<1>11. CASE Update(t)
  <2>1. Busy(t) /\ Moved(t, thread[t].copy, "announce") /\ Place(t) = "update"
    BY <1>11, UpdateStep
  <2>2. \E d \in {"fixture", "exchange"} : \E document : library' = [library EXCEPT ![d] = document]
    BY <1>11, UpdateStep
  <2> QED
    BY <2>1, <2>2, StampStays DEF Bare
<1>12. CASE Delete(t)
  <2>1. /\ Busy(t) /\ Place(t) = "delete" /\ About(t) \in Doc
        /\ library' = [library EXCEPT ![About(t)] = Deleted] /\ library'[About(t)] = Deleted
    BY <1>12, DeleteStep
  <2>2. PICK b \in {"uncache", "announce"} : Moved(t, thread[t].copy, b)
    BY <1>12, DeleteStep
  <2>3. CASE About(t) = "animation"
    <3>1. Honest(thread[t].copy)
      BY <2>1, <2>3 DEF StampInv, Works, Bare
    <3>2. ~Exists("animation")'
      BY <2>1, <2>3 DEF Exists
    <3> QED
      BY <2>1, <2>2, <2>3, <3>1, <3>2, StampWrite
  <2>4. CASE About(t) # "animation"
    <3>1. library'["animation"] = library["animation"]
      BY <2>1, <2>4
    <3> QED
      BY <2>1, <2>2, <3>1, StampStays DEF Bare
  <2> QED
    BY <2>3, <2>4
<1>13. CASE Lookup(t)
  <2>1. /\ Busy(t) /\ Place(t) = "lookup" /\ library' = library
        /\ Moved(t, thread[t].copy, "find") \/ Stopped(t)
    BY <1>13, LookupStep, StoppedThread DEF Lookup
  <2> QED
    BY <1>2, <2>1, StampStays DEF Bare
<1>14. CASE Cache(t) \/ Uncache(t) \/ Assign(t)
  <2>1. Busy(t) /\ Place(t) \in {"cache", "uncache", "assign"} /\ library' = library
    BY <1>14, CacheStep, UncacheStep, AssignStep DEF Cache, Uncache, Assign
  <2>2. \E b : Moved(t, thread[t].copy, b) /\ b # "carry"
    BY <1>14, CacheStep, UncacheStep, AssignStep
  <2> QED
    BY <2>1, <2>2, StampStays DEF Bare
<1>15. CASE Lock(t) \/ Unlock(t) \/ Announce(t)
  <2>1. Busy(t) /\ Place(t) \in {"lock", "unlock", "announce"} /\ library' = library
    BY <1>15, LockStep, UnlockStep, AnnounceStep DEF Lock, Unlock, Announce
  <2>2. \E b : Moved(t, thread[t].copy, b) /\ b # "carry"
    BY <1>15, LockStep, UnlockStep, AnnounceStep
  <2> QED
    BY <2>1, <2>2, StampStays DEF Bare
<1> QED
  BY <1>1, <1>3, <1>4, <1>5, <1>6, <1>7, <1>8, <1>9, <1>10, <1>11, <1>12, <1>13, <1>14, <1>15 DEF Step

\* So do the steps that are no thread's.
LEMMA StampNext ==
  ASSUME Typed, CompanyInv, StampInv, [Next]_vars
  PROVE  StampInv'
<1>1. CASE \E t \in Thread : Step(t)
  BY <1>1, StampStep
<1>2. ASSUME thread' = thread, library'["animation"] = library["animation"]
      PROVE  StampInv'
  <2>1. \A o \in Thread : (Works(o, "animation")' <=> Works(o, "animation")) /\ (Bare(o)' <=> Bare(o))
    BY <1>2 DEF Works, Busy, About, Bare, Place
  <2>2. Exists("animation")' <=> Exists("animation")
    BY <1>2 DEF Exists
  <2> QED
    BY <1>2, <2>1, <2>2 DEF StampInv, Honest
<1>3. CASE \/ \E type \in CacheType : Tell(type)
           \/ Join \/ Leave \/ UNCHANGED vars
  BY <1>2, <1>3 DEF Tell, Broadcast, Fetch, Join, Leave, vars
<1>4. CASE \E d \in Doc : Expire(d)
  <2>1. PICK d \in Mortal : library' = [library EXCEPT ![d] = Deleted]
    BY <1>4 DEF Expire
  <2>2. library'["animation"] = library["animation"]
    BY <2>1 DEF Mortal
  <2> QED
    BY <1>2, <1>4, <2>2 DEF Expire
<1>5. CASE Restart
  <2>1. thread' = [t \in Thread |-> Idle] /\ library' = library
    BY <1>5 DEF Restart
  <2>2. \A o \in Thread : ~Works(o, "animation")'
    BY <2>1, IdleTyped DEF Works, Busy
  <2>3. Exists("animation")' <=> Exists("animation")
    BY <2>1 DEF Exists
  <2> QED
    BY <2>1, <2>2, <2>3 DEF StampInv, Honest
<1> QED
  BY <1>1, <1>3, <1>4, <1>5 DEF Next

-----------------------------------------------------------------------------
(* The geometry an animation is made for.                                  *)

\* A geometry that an animation, a copy of one or the stage already has.
Known(r) ==
  \/ Exists("animation") /\ r = library["animation"].rendered
  \/ \E o \in Thread : Works(o, "animation") /\ r = thread[o].copy.rendered
  \/ Exists("stage") /\ r = library["stage"].content

\* Numbers can be compared.
LEMMA StageNumbers ==
  ASSUME Typed
  PROVE  /\ requests \in Nat
         /\ \A t \in Thread : thread[t].number \in Nat /\ thread[t].copy.rendered \in Nat
         /\ Exists("stage") => library["stage"].content \in Nat
         /\ Exists("animation") => library["animation"].rendered \in Nat
<1>1. Number \subseteq Nat
  BY LibraryAssumption DEF Number
<1>2. requests \in Nat
  BY WorkloadsAssumption, LibraryAssumption DEF Typed, TypeOK
<1>3. \A document \in Document : document.content \in Nat /\ document.rendered \in Nat
  BY <1>1 DEF Document
<1>4. "stage" \in Doc /\ "animation" \in Doc
  BY DEF Doc
<1> QED
  BY <1>1, <1>2, <1>3, <1>4, CopyTyped, StoredIsDocument

\* A step that brings no geometry nobody had.
LEMMA StageKept ==
  ASSUME Typed, StageInv, NEW t \in Thread,
         \A o \in Thread \ {t} : thread'[o] = thread[o],
         library'["stage"] = library["stage"], requests' = requests,
         "stage" \in suspect => "stage" \in suspect',
         Exists("animation")' => Known(library'["animation"].rendered),
         Works(t, "animation")' => Known(thread'[t].copy.rendered),
         Busy(t)' => Busy(t) /\ thread'[t].number = thread[t].number,
         (Works(t, "stage")' /\ Place(t)' \in {"check", "replace"} /\ thread'[t].company = {}) =>
            Works(t, "stage") /\ Place(t) \in {"check", "replace"} /\ thread[t].company = {}
  PROVE  StageInv'
<1>1. Exists("stage")' = Exists("stage")
  BY DEF Exists
<1>2. ASSUME NEW o \in Thread \ {t}
      PROVE  /\ Works(o, "animation")' <=> Works(o, "animation")
             /\ Works(o, "stage")' <=> Works(o, "stage")
             /\ Busy(o)' <=> Busy(o)
             /\ Place(o)' = Place(o)
  BY DEF Works, Busy, About, Place
<1>3. ASSUME NEW n \in Nat, RenderedBy(n), Exists("stage") => library["stage"].content <= n
      PROVE  RenderedBy(n)'
  <2>1. \A r : Known(r) => r <= n
    BY <1>3 DEF Known, RenderedBy
  <2>2. Exists("animation")' => library'["animation"].rendered <= n
    BY <2>1
  <2>3. ASSUME NEW o \in Thread, Works(o, "animation")'
        PROVE  thread'[o].copy.rendered <= n
    <3>1. CASE o = t
      BY <2>1, <2>3, <3>1
    <3>2. CASE o # t
      BY <1>2, <1>3, <2>3, <3>2 DEF RenderedBy
    <3> QED
      BY <3>1, <3>2
  <2> QED
    BY <2>2, <2>3 DEF RenderedBy
<1>4. RenderedBy(requests + 1)'
  BY <1>3, StageNumbers DEF StageInv, RenderedBy
<1>5. ASSUME "stage" \notin suspect', Exists("stage")'
      PROVE  RenderedBy(library["stage"].content)'
  <2>1. RenderedBy(library["stage"].content) /\ library["stage"].content \in Nat
    BY <1>1, <1>5, StageNumbers DEF StageInv
  <2>2. PICK n \in Nat : n = library["stage"].content
    BY <2>1
  <2>3. RenderedBy(n)'
    BY <1>3, <2>1, <2>2
  <2> QED
    BY <2>2, <2>3 DEF RenderedBy
<1>6. ASSUME NEW o \in Thread, Works(o, "stage")', Place(o)' \in {"check", "replace"}, thread'[o].company = {}
      PROVE  /\ Exists("stage")' => library'["stage"].content < thread'[o].number
             /\ RenderedBy(thread[o].number)'
  <2>1. /\ Works(o, "stage") /\ Place(o) \in {"check", "replace"} /\ thread[o].company = {}
        /\ thread'[o].number = thread[o].number
    <3>1. CASE o = t
      BY <1>6, <3>1 DEF Works
    <3>2. CASE o # t
      BY <1>2, <1>6, <3>2
    <3> QED
      BY <3>1, <3>2
  <2>2. (Exists("stage") => library["stage"].content < thread[o].number) /\ RenderedBy(thread[o].number)
    BY <2>1 DEF StageInv
  <2>3. PICK n \in Nat : n = thread[o].number
    BY StageNumbers
  <2>4. Exists("stage") => library["stage"].content <= n
    BY <2>2, <2>3, StageNumbers
  <2>5. RenderedBy(n)'
    BY <1>3, <2>2, <2>3, <2>4
  <2> QED
    BY <1>1, <2>1, <2>2, <2>3, <2>5 DEF RenderedBy
<1>7. \A o \in Thread : Busy(o)' => thread'[o].number <= requests + 1
  BY <1>2 DEF StageInv
<1> QED
  BY <1>1, <1>4, <1>5, <1>6, <1>7 DEF StageInv, RenderedBy

\* The same, for a thread that goes on with a copy of a known geometry.
LEMMA StageMoves ==
  ASSUME Typed, StageInv, NEW t \in Thread, NEW copy, NEW b, Busy(t), Moved(t, copy, b),
         library'["stage"] = library["stage"], requests' = requests,
         "stage" \in suspect => "stage" \in suspect',
         Exists("animation")' => Known(library'["animation"].rendered),
         About(t) = "animation" => Known(copy.rendered),
         About(t) = "stage" => b # "check" /\ (b = "replace" => Place(t) = "check")
  PROVE  StageInv'
<1>1. /\ b # "end" => /\ Busy(t)' /\ Place(t)' = b /\ About(t)' = About(t) /\ thread'[t].copy = copy
                      /\ thread'[t].number = thread[t].number /\ thread'[t].company = thread[t].company
      /\ b = "end" => ~Busy(t)'
  BY MovedThread DEF Moved
<1>2. Works(t, "animation")' => Known(thread'[t].copy.rendered)
  BY <1>1 DEF Works
<1>3. Busy(t)' => Busy(t) /\ thread'[t].number = thread[t].number
  BY <1>1
<1>4. (Works(t, "stage")' /\ Place(t)' \in {"check", "replace"} /\ thread'[t].company = {}) =>
        Works(t, "stage") /\ Place(t) \in {"check", "replace"} /\ thread[t].company = {}
  BY <1>1 DEF Works
<1>5. \A o \in Thread \ {t} : thread'[o] = thread[o]
  BY DEF Moved
<1> QED
  BY <1>2, <1>3, <1>4, <1>5, StageKept

\* A thread that is done leaves nothing of its copy behind.
LEMMA StageStops ==
  ASSUME Typed, StageInv, NEW t \in Thread, Stopped(t), library' = library, requests' = requests,
         "stage" \in suspect => "stage" \in suspect'
  PROVE  StageInv'
<1>1. ~Busy(t)' /\ ~Works(t, "animation")' /\ ~Works(t, "stage")'
  BY IdleTyped DEF Stopped, Works, Busy
<1>2. Exists("animation")' => Known(library'["animation"].rendered)
  BY DEF Exists, Known
<1> QED
  BY <1>1, <1>2, StageKept DEF Stopped

\* An edit of the stage outdates every animation, unless it is not alone.
LEMMA StageReplaced ==
  ASSUME Typed, CompanyInv, StageInv, NEW t \in Thread, Replace(t), About(t) = "stage"
  PROVE  StageInv'
<1>1. /\ Busy(t) /\ Place(t) = "replace" /\ requests' = requests /\ Doubt("stage", Accompanied(t))
  BY ReplaceStep DEF Replace, bound
<1>2. PICK b \in {"cache", "announce"} : Moved(t, library'[About(t)], b)
  BY ReplaceStep, Zenon
<1>3. library'["stage"].content = thread[t].number
  <2>1. library'["stage"] = [thread[t].copy EXCEPT !.content = thread[t].number]
    BY ReplaceStep
  <2> QED
    BY <2>1, CopyTyped DEF Document
<1>4. library'["animation"] = library["animation"]
  <2>1. PICK document : library' = [library EXCEPT !["stage"] = document]
    BY ReplaceStep
  <2> QED
    BY <2>1
<1>5. ASSUME NEW o \in Thread \ {t}
      PROVE  /\ Works(o, "animation")' <=> Works(o, "animation")
             /\ Works(o, "stage")' <=> Works(o, "stage")
             /\ Busy(o)' <=> Busy(o)
             /\ Place(o)' = Place(o) /\ thread'[o] = thread[o]
  BY <1>2 DEF Works, Busy, About, Place, Moved
<1>6. /\ Busy(t)' /\ ~Works(t, "animation")' /\ Place(t)' \in {"cache", "announce"}
      /\ thread'[t].number = thread[t].number
  BY <1>1, <1>2, MovedThread DEF Works, Moved
<1>7. ASSUME NEW n \in Nat, RenderedBy(n)
      PROVE  RenderedBy(n)'
  BY <1>4, <1>5, <1>6, <1>7 DEF RenderedBy, Exists
<1>8. RenderedBy(requests + 1)'
  BY <1>1, <1>7, StageNumbers DEF StageInv, RenderedBy
<1>9. ASSUME "stage" \notin suspect'
      PROVE  RenderedBy(library["stage"].content)'
  <2>1. thread[t].company = {}
    BY <1>1, <1>9 DEF Doubt, Accompanied
  <2>2. RenderedBy(thread[t].number)
    BY <1>1, <2>1 DEF StageInv, Works
  <2>3. PICK n \in Nat : n = thread[t].number
    BY StageNumbers
  <2>4. RenderedBy(n)'
    BY <1>7, <2>2, <2>3
  <2> QED
    BY <1>3, <2>3, <2>4 DEF RenderedBy
<1>10. \A o \in Thread : Busy(o)' => thread'[o].number <= requests' + 1
  BY <1>1, <1>5, <1>6 DEF StageInv
<1>11. library'["stage"].content <= requests' + 1
  BY <1>1, <1>3 DEF StageInv
<1>12. ASSUME NEW o \in Thread, Works(o, "stage")', Place(o)' \in {"check", "replace"}
       PROVE  thread'[o].company # {}
  <2>1. o # t /\ Works(o, "stage") /\ thread'[o] = thread[o]
    BY <1>5, <1>6, <1>12
  <2>2. thread[o].kind # "setFixtureUniverse"
    BY <2>1, AboutThread DEF Works
  <2> QED
    BY <1>1, <2>1, <2>2 DEF CompanyInv, Works
<1> QED
  BY <1>8, <1>9, <1>10, <1>11, <1>12 DEF StageInv

\* The stage is deleted.
LEMMA StageDeleted ==
  ASSUME Typed, StageInv, NEW t \in Thread, Delete(t), About(t) = "stage"
  PROVE  StageInv'
<1>1. /\ Busy(t) /\ Place(t) = "delete" /\ requests' = requests /\ ~Exists("stage")'
  BY DeleteStep DEF Delete, bound, Exists
<1>2. PICK b \in {"uncache", "announce"} : Moved(t, thread[t].copy, b)
  BY DeleteStep
<1>3. library'["animation"] = library["animation"]
  <2>1. library' = [library EXCEPT ![About(t)] = Deleted]
    BY DeleteStep
  <2> QED
    BY <2>1
<1>4. ASSUME NEW o \in Thread \ {t}
      PROVE  /\ Works(o, "animation")' <=> Works(o, "animation")
             /\ Works(o, "stage")' <=> Works(o, "stage")
             /\ Busy(o)' <=> Busy(o)
             /\ Place(o)' = Place(o) /\ thread'[o] = thread[o]
  BY <1>2 DEF Works, Busy, About, Place, Moved
<1>5. /\ Busy(t)' /\ ~Works(t, "animation")' /\ Place(t)' \in {"uncache", "announce"}
      /\ thread'[t].number = thread[t].number
  BY <1>1, <1>2, MovedThread DEF Works, Moved
<1>6. ASSUME NEW n \in Nat, RenderedBy(n)
      PROVE  RenderedBy(n)'
  BY <1>3, <1>4, <1>5, <1>6 DEF RenderedBy, Exists
<1>7. RenderedBy(requests + 1)'
  BY <1>1, <1>6, StageNumbers DEF StageInv, RenderedBy
<1>8. \A o \in Thread : Busy(o)' => thread'[o].number <= requests' + 1
  BY <1>1, <1>4, <1>5 DEF StageInv
<1>9. ASSUME NEW o \in Thread, Works(o, "stage")', Place(o)' \in {"check", "replace"}, thread'[o].company = {}
      PROVE  RenderedBy(thread[o].number)'
  <2>1. o # t /\ thread'[o] = thread[o] /\ RenderedBy(thread[o].number)
    BY <1>4, <1>5, <1>9 DEF StageInv
  <2>2. PICK n \in Nat : n = thread[o].number
    BY StageNumbers
  <2>3. RenderedBy(n)'
    BY <1>6, <2>1, <2>2
  <2> QED
    BY <2>1, <2>2, <2>3 DEF RenderedBy
<1> QED
  BY <1>1, <1>7, <1>8, <1>9 DEF StageInv

\* A request has a number that nothing has yet.
LEMMA StageBegin ==
  ASSUME Typed, StageInv, NEW t \in Thread, NEW kind \in Kinds, Begin(t, kind)
  PROVE  StageInv'
<1>1. /\ ~Busy(t) /\ library' = library /\ suspect' = suspect /\ thread'[t].kind = kind
      /\ requests' = requests + 1 /\ thread'[t].number = requests + 2
      /\ thread'[t].copy \in Bodies(kind) /\ About(t)' = Request[kind].doc
      /\ \A o \in Thread \ {t} :
              /\ thread'[o].kind = thread[o].kind /\ thread'[o].number = thread[o].number
              /\ thread'[o].copy = thread[o].copy /\ thread'[o].todo = thread[o].todo
              /\ thread[o].company \subseteq thread'[o].company
  BY BeginStep
<1>2. Works(t, "animation")' => thread'[t].copy.rendered = 0
  <2>1. Request[kind].doc = "animation" => thread'[t].copy = Blank
    BY <1>1, Documents DEF Bodies, Animating
  <2>2. Blank.rendered = 0
    BY DEF Blank
  <2> QED
    BY <1>1, <2>1, <2>2 DEF Works
<1>3. ASSUME NEW o \in Thread \ {t}
      PROVE  /\ Works(o, "animation")' <=> Works(o, "animation")
             /\ Works(o, "stage")' <=> Works(o, "stage")
             /\ Busy(o)' <=> Busy(o)
             /\ Place(o)' = Place(o)
  BY <1>1 DEF Works, Busy, About, Place
<1>4. ASSUME NEW n \in Nat, NEW m \in Nat, m <= n, RenderedBy(m)
      PROVE  RenderedBy(n)'
  <2>1. Exists("animation")' => library'["animation"].rendered <= n
    BY <1>1, <1>4, StageNumbers DEF RenderedBy, Exists
  <2>2. ASSUME NEW o \in Thread, Works(o, "animation")'
        PROVE  thread'[o].copy.rendered <= n
    <3>1. CASE o = t
      BY <1>2, <2>2, <3>1
    <3>2. CASE o # t
      <4>1. Works(o, "animation") /\ thread'[o].copy = thread[o].copy
        BY <1>1, <1>3, <2>2, <3>2
      <4>2. thread[o].copy.rendered <= m /\ thread[o].copy.rendered \in Nat
        BY <1>4, <4>1, StageNumbers DEF RenderedBy
      <4> QED
        BY <1>4, <4>1, <4>2
    <3> QED
      BY <3>1, <3>2
  <2> QED
    BY <2>1, <2>2 DEF RenderedBy
<1>5. requests \in Nat /\ RenderedBy(requests + 1)
  BY StageNumbers DEF StageInv
<1>6. RenderedBy(requests + 1)'
  <2>1. PICK n \in Nat : n = requests + 2
    BY <1>5
  <2>2. RenderedBy(n)'
    BY <1>4, <1>5, <2>1
  <2> QED
    BY <1>1, <1>5, <2>1, <2>2 DEF RenderedBy
<1>7. Exists("stage")' => library'["stage"].content <= requests' + 1
  BY <1>1, <1>5, StageNumbers DEF StageInv, Exists
<1>8. \A o \in Thread : Busy(o)' => thread'[o].number <= requests' + 1
  BY <1>1, <1>3, <1>5, StageNumbers DEF StageInv
<1>9. ASSUME "stage" \notin suspect', Exists("stage")'
      PROVE  RenderedBy(library["stage"].content)'
  <2>1. Exists("stage") /\ RenderedBy(library["stage"].content)
    BY <1>1, <1>9 DEF StageInv, Exists
  <2>2. PICK n \in Nat : n = library["stage"].content
    BY <2>1, StageNumbers
  <2>3. RenderedBy(n)'
    BY <1>4, <2>1, <2>2
  <2> QED
    BY <1>1, <2>2, <2>3 DEF RenderedBy
<1>10. ASSUME NEW o \in Thread, Works(o, "stage")', Place(o)' \in {"check", "replace"}, thread'[o].company = {}
       PROVE  /\ Exists("stage")' => library'["stage"].content < thread'[o].number
              /\ RenderedBy(thread[o].number)'
  <2>1. CASE o = t
    <3>1. Exists("stage")' => library'["stage"].content < thread'[t].number
      BY <1>1, <1>5, StageNumbers DEF StageInv, Exists
    <3>2. PICK n \in Nat : n = requests + 2
      BY <1>5
    <3>3. RenderedBy(n)'
      BY <1>4, <1>5, <3>2
    <3> QED
      BY <1>1, <2>1, <3>1, <3>2, <3>3 DEF RenderedBy
  <2>2. CASE o # t
    <3>1. /\ Works(o, "stage") /\ Place(o) \in {"check", "replace"} /\ thread[o].company = {}
          /\ thread'[o].number = thread[o].number
      BY <1>1, <1>3, <1>10, <2>2
    <3>2. /\ Exists("stage") => library["stage"].content < thread[o].number
          /\ RenderedBy(thread[o].number)
      BY <3>1 DEF StageInv
    <3>3. PICK n \in Nat : n = thread[o].number
      BY StageNumbers
    <3>4. RenderedBy(n)'
      BY <1>4, <3>2, <3>3
    <3> QED
      BY <1>1, <3>1, <3>2, <3>3, <3>4 DEF RenderedBy, Exists
  <2> QED
    BY <2>1, <2>2
<1> QED
  BY <1>6, <1>7, <1>8, <1>9, <1>10 DEF StageInv

\* Every step of a thread keeps geometries no newer than their stage.
LEMMA StageStep ==
  ASSUME Typed, CompanyInv, StageInv, NEW t \in Thread, Step(t)
  PROVE  StageInv'
<1>1. library["animation"] = library'["animation"] => (Exists("animation")' => Known(library'["animation"].rendered))
  BY DEF Exists, Known
<1>2. Busy(t) /\ About(t) = "animation" => Known(thread[t].copy.rendered)
  BY DEF Known, Works
<1>3. ASSUME NEW b, Busy(t), Moved(t, thread[t].copy, b),
             library'["stage"] = library["stage"], library'["animation"] = library["animation"],
             requests' = requests, "stage" \in suspect => "stage" \in suspect',
             b # "check", b = "replace" => Place(t) = "check"
      PROVE  StageInv'
  BY <1>1, <1>2, <1>3, StageMoves
<1>4. CASE \E kind \in Kinds : Begin(t, kind)
  BY <1>4, StageBegin
<1>5. CASE DatabaseFails(t) \/ NotFound(t)
  <2>1. Stopped(t) /\ library' = library /\ requests' = requests /\ suspect \subseteq suspect'
    BY <1>5, EndsStep DEF Ends, bound
  <2> QED
    BY <2>1, StageStops
<1>6. CASE Find(t)
  <2>1. Busy(t) /\ Place(t) = "find" /\ Exists(About(t)) /\ UNCHANGED <<library, requests, suspect>>
    BY <1>6, FindStep DEF Find, bound
  <2>2. PICK copy, b : /\ Moved(t, copy, b) /\ b \in {"cache", "carry", "readStage"}
                       /\ \/ copy = library[About(t)]
                          \/ About(t) = "animation" /\ copy = [library["animation"] EXCEPT !.stamp = 0]
    BY <1>6, FindStep, Zenon
  <2>3. About(t) = "animation" => copy.rendered = library["animation"].rendered
    <3>1. Exists("animation") => library["animation"] \in Document
      BY StoredIsDocument DEF Doc
    <3> QED
      BY <2>1, <2>2, <3>1 DEF Document
  <2>4. About(t) = "animation" => Known(copy.rendered)
    BY <2>1, <2>3 DEF Known
  <2> QED
    BY <1>1, <2>1, <2>2, <2>4, StageMoves
<1>7. CASE Check(t)
  <2>1. /\ Busy(t) /\ Place(t) = "check" /\ UNCHANGED <<library, requests, suspect>>
        /\ \E b \in {"replace", "delete"} : Moved(t, thread[t].copy, b)
    BY <1>7, CheckStep DEF Check, bound
  <2> QED
    BY <1>3, <2>1
<1>8. CASE Backfill(t)
  <2>1. /\ Busy(t) /\ About(t) = "fixture" /\ UNCHANGED <<library, requests, suspect>>
        /\ \E copy \in Document : Moved(t, copy, "replace")
    BY <1>8, BackfillStep DEF Backfill, bound
  <2> QED
    BY <1>1, <2>1, StageMoves
<1>9. CASE Carry(t)
  <2>1. Busy(t) /\ About(t) = "animation" /\ UNCHANGED <<library, requests, suspect>>
    BY <1>9, CarryStep DEF Carry, bound
  <2>2. PICK stamp \in Number : Moved(t, Stamped(t, stamp), "replace")
    BY <1>9, CarryStep, Zenon
  <2>3. Stamped(t, stamp).rendered = thread[t].copy.rendered
    <3>1. thread[t].copy \in Document
      BY CopyTyped
    <3>2. CASE thread[t].copy.stamp # 0
      BY <3>2 DEF Stamped
    <3>3. CASE thread[t].copy.stamp = 0
      <4>1. Stamped(t, stamp) =
              [thread[t].copy EXCEPT !.stamp = stamp, !.mixed = thread[t].copy.mixed \/ thread[t].company # {}]
        BY <3>3 DEF Stamped
      <4> QED
        BY <3>1, <4>1 DEF Document
    <3> QED
      BY <3>2, <3>3
  <2>4. Known(Stamped(t, stamp).rendered)
    BY <1>2, <2>1, <2>3
  <2> QED
    BY <1>1, <2>1, <2>2, <2>4, StageMoves
<1>10. CASE ReadStage(t)
  <2>1. Busy(t) /\ About(t) = "animation" /\ Exists("stage") /\ UNCHANGED <<library, requests, suspect>>
    BY <1>10, ReadStageStep DEF ReadStage, bound
  <2>2. PICK copy \in Document : copy.rendered = library["stage"].content /\ Moved(t, copy, "carry")
    BY <1>10, ReadStageStep
  <2>3. Known(copy.rendered)
    BY <2>1, <2>2 DEF Known
  <2> QED
    BY <1>1, <2>1, <2>2, <2>3, StageMoves
<1>11. CASE ReadNoStage(t)
  <2>1. Busy(t) /\ Moved(t, thread[t].copy, "carry") /\ UNCHANGED <<library, requests, suspect>>
    BY <1>11, ReadNoStageStep DEF ReadNoStage, bound
  <2> QED
    BY <1>3, <2>1
<1>12. CASE Replace(t) /\ About(t) # "stage"
  <2>1. /\ Busy(t) /\ requests' = requests /\ suspect' = suspect /\ About(t) \in Doc
    BY <1>12, ReplaceStep DEF Replace, bound
  <2>2. PICK b \in {"cache", "announce"} : Moved(t, library'[About(t)], b)
    BY <1>12, ReplaceStep, Zenon
  <2>3. \E document : library' = [library EXCEPT ![About(t)] = document]
    BY <1>12, ReplaceStep
  <2>4. library'[About(t)].rendered = thread[t].copy.rendered
    <3>1. library'[About(t)] = [thread[t].copy EXCEPT !.content = thread[t].number]
      BY <1>12, ReplaceStep
    <3> QED
      BY <3>1, CopyTyped DEF Document
  <2>5. CASE About(t) = "animation"
    <3>1. Known(library'["animation"].rendered) /\ Known(library'[About(t)].rendered)
      BY <1>2, <2>1, <2>4, <2>5
    <3>2. library'["stage"] = library["stage"]
      BY <2>3, <2>5
    <3> QED
      BY <2>1, <2>2, <2>5, <3>1, <3>2, StageMoves
  <2>6. CASE About(t) # "animation"
    <3>1. library'["stage"] = library["stage"] /\ library'["animation"] = library["animation"]
      BY <1>12, <2>3, <2>6
    <3> QED
      BY <1>1, <1>12, <2>1, <2>2, <2>6, <3>1, StageMoves
  <2> QED
    BY <2>5, <2>6
<1>13. CASE Replace(t) /\ About(t) = "stage"
  BY <1>13, StageReplaced
<1>14. CASE Update(t)
  <2>1. Busy(t) /\ Moved(t, thread[t].copy, "announce") /\ requests' = requests /\ suspect' = suspect
    BY <1>14, UpdateStep DEF Update, bound
  <2>2. \E d \in {"fixture", "exchange"} : \E document : library' = [library EXCEPT ![d] = document]
    BY <1>14, UpdateStep
  <2> QED
    BY <1>3, <2>1, <2>2
<1>15. CASE Delete(t) /\ About(t) # "stage"
  <2>1. /\ Busy(t) /\ requests' = requests /\ suspect' = suspect
        /\ library' = [library EXCEPT ![About(t)] = Deleted] /\ library'[About(t)] = Deleted
        /\ \E b \in {"uncache", "announce"} : Moved(t, thread[t].copy, b)
    BY <1>15, DeleteStep DEF Delete, bound
  <2>2. library'["stage"] = library["stage"]
    BY <1>15, <2>1
  <2>3. Exists("animation")' => Known(library'["animation"].rendered)
    <3>1. CASE About(t) = "animation"
      BY <2>1, <3>1 DEF Exists
    <3>2. CASE About(t) # "animation"
      BY <1>1, <2>1, <3>2
    <3> QED
      BY <3>1, <3>2
  <2> QED
    BY <1>2, <2>1, <2>2, <2>3, StageMoves
<1>16. CASE Delete(t) /\ About(t) = "stage"
  BY <1>16, StageDeleted
<1>17. CASE Lookup(t)
  <2>1. /\ Busy(t) /\ UNCHANGED <<library, requests, suspect>>
        /\ Moved(t, thread[t].copy, "find") \/ Stopped(t)
    BY <1>17, LookupStep, StoppedThread DEF Lookup, bound
  <2> QED
    BY <1>3, <2>1, StageStops
<1>18. CASE Cache(t) \/ Uncache(t) \/ Assign(t)
  <2>1. Busy(t) /\ library' = library /\ requests' = requests /\ ("stage" \in suspect => "stage" \in suspect')
    <3>1. About(t) \in Cached
      BY <1>18, CacheStep, UncacheStep, AssignStep DEF Cached
    <3> QED
      BY <1>18, <3>1, CacheStep, UncacheStep, AssignStep DEF Cache, Uncache, Assign, Doubt, Cached, bound
  <2>2. \E b : Moved(t, thread[t].copy, b) /\ b \notin {"check", "replace"}
    BY <1>18, CacheStep, UncacheStep, AssignStep
  <2> QED
    BY <1>3, <2>1, <2>2
<1>19. CASE Lock(t) \/ Unlock(t) \/ Announce(t)
  <2>1. Busy(t) /\ UNCHANGED <<library, requests, suspect>>
    BY <1>19, LockStep, UnlockStep, AnnounceStep DEF Lock, Unlock, Announce, bound
  <2>2. \E b : Moved(t, thread[t].copy, b) /\ b \notin {"check", "replace"}
    BY <1>19, LockStep, UnlockStep, AnnounceStep
  <2> QED
    BY <1>3, <2>1, <2>2
<1> QED
  BY <1>4, <1>5, <1>6, <1>7, <1>8, <1>9, <1>10, <1>11, <1>12, <1>13, <1>14, <1>15, <1>16, <1>17, <1>18, <1>19
     DEF Step

\* So do the steps that are no thread's.
LEMMA StageNext ==
  ASSUME Typed, CompanyInv, StageInv, [Next]_vars
  PROVE  StageInv'
<1>1. CASE \E t \in Thread : Step(t)
  BY <1>1, StageStep
<1>2. ASSUME thread' = thread, library'["animation"] = library["animation"], library'["stage"] = library["stage"],
             requests' = requests, suspect' = suspect
      PROVE  StageInv'
  <2>1. \A o \in Thread : /\ Works(o, "animation")' <=> Works(o, "animation")
                          /\ Works(o, "stage")' <=> Works(o, "stage")
                          /\ Busy(o)' <=> Busy(o)
                          /\ Place(o)' = Place(o)
    BY <1>2 DEF Works, Busy, About, Place
  <2>2. (Exists("animation")' <=> Exists("animation")) /\ (Exists("stage")' <=> Exists("stage"))
    BY <1>2 DEF Exists
  <2> QED
    BY <1>2, <2>1, <2>2 DEF StageInv, RenderedBy
<1>3. CASE \/ \E type \in CacheType : Tell(type)
           \/ Join \/ Leave \/ UNCHANGED vars
  BY <1>2, <1>3 DEF Tell, Broadcast, Fetch, Join, Leave, vars, bound
<1>4. CASE \E d \in Doc : Expire(d)
  <2>1. PICK d \in Mortal : library' = [library EXCEPT ![d] = Deleted]
    BY <1>4 DEF Expire
  <2>2. library'["animation"] = library["animation"] /\ library'["stage"] = library["stage"]
    BY <2>1 DEF Mortal
  <2> QED
    BY <1>2, <1>4, <2>2 DEF Expire, bound
<1>5. CASE Restart
  <2>1. /\ thread' = [t \in Thread |-> Idle] /\ library' = library /\ requests' = requests
        /\ suspect' = suspect \cap {"stage"}
    BY <1>5 DEF Restart, bound
  <2>2. \A o \in Thread : ~Busy(o)' /\ ~Works(o, "animation")' /\ ~Works(o, "stage")'
    BY <2>1, IdleTyped DEF Works, Busy
  <2>3. (Exists("animation")' <=> Exists("animation")) /\ (Exists("stage")' <=> Exists("stage"))
    BY <2>1 DEF Exists
  <2> QED
    BY <2>1, <2>2, <2>3 DEF StageInv, RenderedBy
<1> QED
  BY <1>1, <1>3, <1>4, <1>5 DEF Next

-----------------------------------------------------------------------------
(* What holds in every state.                                              *)

\* The invariant holds at first, in every workload.
LEMMA LibraryInit == Init => LibraryInv
<1> SUFFICES ASSUME Init
             PROVE  LibraryInv
  OBVIOUS
<1>1. /\ thread = [t \in Thread |-> Idle] /\ objectCache = [d \in Cached |-> Hydrated(d)]
      /\ universeOf = [d \in Cached |-> None] /\ opMutex = None
      /\ workload \in Workloads /\ requests = 0 /\ pending = {} /\ client = Away /\ suspect = {}
  BY DEF Init
<1>2. PICK old \in {0, 1}, stage \in {Unborn, [Blank EXCEPT !.content = 1, !.stamp = 1]} :
       library = [d \in Doc |->
         CASE d = "stage" -> stage
           [] d \in Made \ {"stage"} -> Unborn
           [] d = "animation" ->
                IF stage = Unborn THEN Blank ELSE [Blank EXCEPT !.stamp = old, !.rendered = old]
           [] OTHER -> Blank]
  BY DEF Init
<1>3. /\ Blank \in Document /\ Blank.universe = None /\ Blank.content = 0
      /\ Blank.stamp = 0 /\ Blank.rendered = 0 /\ ~Blank.mixed
  BY IdleTyped DEF Blank
<1>4. stage = Unborn \/ stage = [Blank EXCEPT !.content = 1, !.stamp = 1]
  BY <1>2
<1>5. 1 \in Number /\ 0 \in Number
  BY LibraryAssumption DEF Number
<1>6. [Blank EXCEPT !.content = 1, !.stamp = 1] \in Document /\ [Blank EXCEPT !.content = 1, !.stamp = 1].content = 1
  BY <1>3, <1>5 DEF Document
<1>7. /\ [Blank EXCEPT !.stamp = old, !.rendered = old] \in Document
      /\ [Blank EXCEPT !.stamp = old, !.rendered = old].stamp = old
      /\ [Blank EXCEPT !.stamp = old, !.rendered = old].rendered = old
  BY <1>2, <1>3, <1>5 DEF Document
<1>8. /\ "stage" \in Doc /\ "animation" \in Doc /\ "fixture" \in Doc /\ "creature" \in Doc
      /\ "animation" \notin Made /\ "fixture" \notin Made
  BY DEF Doc, Made
<1>9. library["stage"] = stage
  BY <1>2, <1>8
<1>10. library["animation"] = IF stage = Unborn THEN Blank ELSE [Blank EXCEPT !.stamp = old, !.rendered = old]
  BY <1>2, <1>8
<1>11. library["fixture"] = Blank
  BY <1>2, <1>8
<1>12. library \in [Doc -> Document \cup {Unborn, Deleted}]
  BY <1>2, <1>3, <1>4, <1>6, <1>7
<1>13. \A t \in Thread : thread[t] = Idle /\ ~Busy(t) /\ thread[t].kind = None
  BY <1>1, IdleTyped DEF Busy
<1>14. Exists("fixture") /\ UniverseInDatabase = None
  BY <1>3, <1>11, ValuesAssumption DEF Exists, UniverseInDatabase
<1>15. \A d \in Cached : /\ Hydrated(d) \in Document \cup {None} /\ Hydrated(d) \in {None} \cup Stored(d)
  BY <1>3, <1>11 DEF Hydrated, Stored
<1>16. client \in [joined : BOOLEAN, inbox : SUBSET CacheType, stale : SUBSET CacheType] /\ ~client.joined
       /\ client.stale = {}
  BY <1>1 DEF Away
<1>17. Typed
  <2>1. thread \in [Thread -> ThreadState] /\ Programmed
    BY <1>1, <1>13, IdleTyped DEF Programmed
  <2>2. objectCache \in [Cached -> Document \cup {None}] /\ universeOf \in [Cached -> Universe \cup {None}]
    BY <1>1, <1>15
  <2>3. requests \in 0 .. workload.requests
    BY <1>1, WorkloadsAssumption
  <2>4. StateOK
    BY <1>1, <1>12, <1>16, <2>2, <2>3 DEF StateOK
  <2> QED
    BY <2>1, <2>4, TypedIs
<1>18. MutexInv /\ CompanyInv /\ ToldInv
  BY <1>1, <1>13, <1>16, LibraryAssumption DEF MutexInv, Past, CompanyInv, ToldInv
<1>19. UniverseInv
  <2>1. universeOf["fixture"] = None
    BY <1>1 DEF Cached
  <2>2. \A t \in Thread : ~Assigns(t) /\ thread[t].kind # "deleteFixture"
    BY <1>13, ValuesAssumption DEF Assigns, Wrote, Kinds, Request
  <2> QED
    BY <1>14, <2>1, <2>2 DEF UniverseInv
<1>20. CacheInv
  BY <1>1, <1>13, <1>15 DEF CacheInv, Works
<1>21. StampInv
  <2>1. Honest(library["animation"])
    BY <1>3, <1>7, <1>10 DEF Honest
  <2> QED
    BY <1>13, <2>1 DEF StampInv, Works
<1>22. StageInv
  <2>1. library["animation"].rendered <= 1
    <3>1. CASE stage = Unborn
      BY <1>3, <1>10, <3>1
    <3>2. CASE stage # Unborn
      <4>1. library["animation"].rendered = old
        BY <1>7, <1>10, <3>2
      <4> QED
        BY <1>2, <4>1
    <3> QED
      BY <3>1, <3>2
  <2>2. RenderedBy(1)
    BY <1>13, <2>1 DEF RenderedBy, Works
  <2>3. Exists("stage") => library["stage"].content = 1
    BY <1>4, <1>6, <1>9 DEF Exists
  <2> QED
    BY <1>1, <1>13, <2>2, <2>3 DEF StageInv, RenderedBy, Works
<1> QED
  BY <1>17, <1>18, <1>19, <1>20, <1>21, <1>22 DEF LibraryInv

\* Every step keeps the invariant.
LEMMA LibraryNext == LibraryInv /\ [Next]_vars => LibraryInv'
<1> SUFFICES ASSUME LibraryInv, [Next]_vars
             PROVE  LibraryInv'
  OBVIOUS
<1> USE DEF LibraryInv
<1>1. Typed'
  BY TypedNext
<1>2. CASE \E t \in Thread : Step(t)
  BY <1>1, <1>2, MutexStep, CompanyStep, ToldNext, UniverseNext, CachesNext, StampNext, StageNext
<1>3. CASE ~ \E t \in Thread : Step(t)
  <2>1. MutexInv' /\ CompanyInv'
    <3>1. CASE thread' = thread /\ opMutex' = opMutex
      BY <3>1 DEF MutexInv, Past, Busy, Place, CompanyInv, About, Role
    <3>2. CASE Restart
      <4>1. thread' = [t \in Thread |-> Idle] /\ opMutex' = None
        BY <3>2 DEF Restart
      <4>2. \A t \in Thread : ~Busy(t)'
        BY <4>1, IdleTyped DEF Busy
      <4> QED
        BY <4>1, <4>2, LibraryAssumption DEF MutexInv, Past, CompanyInv
    <3>3. (thread' = thread /\ opMutex' = opMutex) \/ Restart
      BY <1>3 DEF Next, Tell, Broadcast, Fetch, Expire, Join, Leave, vars, memory
    <3> QED
      BY <3>1, <3>2, <3>3
  <2> QED
    BY <1>1, <2>1, ToldNext, UniverseNext, CachesNext, StampNext, StageNext
<1> QED
  BY <1>2, <1>3

\* What is promised of every state, each promise from the invariant.
LEMMA LibraryPromises ==
  ASSUME LibraryInv
  PROVE  LibraryConsistent /\ StaleListIsAnnounced /\ FreshIsCurrent
<1> USE DEF LibraryInv
<1>1. ASSUME NEW t \in Thread
      PROVE  opMutex = t <=> thread[t].kind = "setFixtureUniverse" /\ ~Due(t, "lock")
  <2>1. thread[t].kind = "setFixtureUniverse" => Busy(t)
    BY ValuesAssumption DEF Busy, Kinds, Request
  <2> QED
    BY <2>1 DEF MutexInv, Past, Due, Place
<1>2. UniverseAgrees
  BY DEF UniverseInv, UniverseAgrees, Assigns, Wrote, Works
<1>3. CacheIsCurrent
  BY DEF CacheInv, CacheIsCurrent, Puts, Stored
<1>4. LibraryConsistent
  BY <1>1, <1>2, <1>3 DEF LibraryConsistent, Typed
<1>5. ASSUME NEW t \in Thread, NEW type, Tells(t, type)
      PROVE  Contains(thread[t].todo, "announce")
  <2> DEFINE todo == thread[t].todo
  <2>1. /\ Busy(t) /\ Writing(t) /\ Place(t) \in {"cache", "uncache", "announce"}
        /\ ~(thread[t].kind = "setFixtureUniverse" /\ Place(t) = "cache")
    BY <1>5 DEF Tells, Wrote
  <2>2. Left(thread[t].kind, todo)
    BY <2>1, ThreadTyped
  <2>3. /\ todo \in Seq(Steps) /\ Len(todo) \in Nat \ {0} /\ Place(t) = todo[1]
        /\ \A i \in 1 .. Len(todo) : Fits(thread[t].kind, todo[i], IF i = Len(todo) THEN "end" ELSE todo[i + 1])
    BY <2>2 DEF Left, Place
  <2> HIDE DEF todo
  <2>4. CASE Place(t) = "announce"
    <3>1. 1 \in 1 .. Len(todo) /\ todo[1] = "announce"
      BY <2>3, <2>4
    <3>2. Contains(todo, "announce")
      BY <3>1 DEF Contains
    <3> QED
      BY <3>2 DEF todo
  <2>5. CASE Place(t) # "announce"
    <3>1. Fits(thread[t].kind, todo[1], IF 1 = Len(todo) THEN "end" ELSE todo[2])
      <4>1. 1 \in 1 .. Len(todo) /\ 1 + 1 = 2
        BY <2>3
      <4>2. Fits(thread[t].kind, todo[1], IF 1 = Len(todo) THEN "end" ELSE todo[1 + 1])
        BY <2>3, <4>1, Zenon
      <4> QED
        BY <4>1, <4>2
    <3>2. {"useCreature", "useFixture"} \subseteq Readers
      BY DEF Readers
    <3>3. ASSUME NEW b, Fits(thread[t].kind, todo[1], b)
          PROVE  b = "announce"
      BY <2>1, <2>3, <2>5, <3>2, <3>3 DEF Fits, Writing
    <3>4. Len(todo) # 1 /\ todo[2] = "announce"
      <4>1. (IF 1 = Len(todo) THEN "end" ELSE todo[2]) = "announce"
        BY <3>1, <3>3
      <4> QED
        BY <4>1
    <3>5. 2 \in 1 .. Len(todo)
      <4>1. PICK n \in Nat \ {0} : n = Len(todo)
        BY <2>3
      <4>2. n # 1
        BY <3>4, <4>1
      <4>3. 2 \in 1 .. n
        BY <4>2
      <4> QED
        BY <4>1, <4>3
    <3>6. Contains(todo, "announce")
      BY <3>4, <3>5 DEF Contains
    <3> QED
      BY <3>6 DEF todo
  <2> QED
    BY <2>4, <2>5
<1>6. StaleListIsAnnounced
  BY <1>5 DEF StaleListIsAnnounced, ToldInv, Tells
<1>7. FreshIsCurrent
  <2> SUFFICES ASSUME Exists("stage"), Exists("animation"), "stage" \notin suspect,
                      ~library["animation"].mixed, library["animation"].rendered # 0,
                      library["animation"].stamp >= library["stage"].content
               PROVE  library["animation"].rendered = library["stage"].content
    BY DEF FreshIsCurrent
  <2>1. library["animation"].stamp = library["animation"].rendered
    BY DEF StampInv, Honest
  <2>2. library["animation"].rendered <= library["stage"].content
    BY DEF StageInv, RenderedBy
  <2> QED
    BY <2>1, <2>2, StageNumbers
<1> QED
  BY <1>4, <1>6, <1>7

\* So it holds in every state.
LEMMA LibraryInvariant == Spec => []LibraryInv
<1>1. Init => LibraryInv
  BY LibraryInit
<1>2. LibraryInv /\ [Next]_vars => LibraryInv'
  BY LibraryNext
<1> QED
  BY <1>1, <1>2, PTL DEF Spec

\* Theorem: the mutex of a fixture is held by exactly the assignment past its
\* lock, whatever fails; the universe map and the caches agree with the database
\* once nobody is at work on the document, but for the races that the suspect
\* set names.
THEOREM MemoryIsWhatIsStored == Spec => []LibraryConsistent
BY LibraryInvariant, LibraryPromises, PTL

\* Theorem: a list that no longer shows what is stored is one the client has
\* been told of, or is about to be: no request tells first and writes afterwards.
THEOREM NoListGoesStaleUntold == Spec => []StaleListIsAnnounced
BY LibraryInvariant, LibraryPromises, PTL

\* Theorem: an animation not listed as stale moves for the geometry of its
\* stage now, but for the exceptions the property names.
THEOREM FreshAnimationsMoveForTheStage == Spec => []FreshIsCurrent
BY LibraryInvariant, LibraryPromises, PTL
=============================================================================
