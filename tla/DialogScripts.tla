---------------------------- MODULE DialogScripts ----------------------------
(***************************************************************************)
(* A saved dialog script and what is attached to it: the voice take a      *)
(* person accepted and the background music promoted for it.               *)
(*                                                                         *)
(* Every write replaces the whole document.  Edits, deletions and music    *)
(* hold script/DialogScriptMutationLock from their read to their write;    *)
(* accepting a take and clearing the acceptance hold nothing.  Takes live  *)
(* in a cache under temp space (the generation), in the ad-hoc sounds (its *)
(* 17-channel export) and, once accepted, in the permanent sounds and the  *)
(* durable store; a cron sweep may take the first two at any moment.       *)
(* Rendering is gated by the controller and done later by the job worker,  *)
(* which reads the script again.                                           *)
(*                                                                         *)
(* HTTP threads, the job worker and the music worker interleave; a read, a *)
(* move of a file and a write of the document are one step each.  A take   *)
(* is a value of Takes made for the turns KeyOf[take] (the cache key is a  *)
(* hash of the turns); which cached take is the newest is left open.       *)
(***************************************************************************)
EXTENDS Naturals, Sequences, FiniteSets

CONSTANTS
  Turns,       \* what a script may say
  Takes,       \* ElevenLabs generations
  KeyOf,       \* the turns each was generated for: its cache key
  FirstTurns,  \* the turns the script is created with
  Threads,     \* HTTP threads
  Worker,      \* JobWorker's thread
  Composer,    \* JobWorker's music thread
  MaxCalls,    \* bound: requests served
  MaxNow,      \* bound: milliseconds of clock
  Nothing

Actors == Threads \cup {Worker, Composer}

ASSUME DialogAssumption ==
  /\ KeyOf \in [Takes -> Turns] /\ FirstTurns \in Turns
  /\ MaxCalls \in Nat /\ MaxNow \in Nat
  /\ Worker \notin Threads /\ Composer \notin Threads /\ Worker # Composer
  /\ Nothing \notin Turns /\ Nothing \notin Takes /\ Nothing \notin Actors

VARIABLES
  script,   \* the document in MongoDB, Nothing once it is deleted
  lock,     \* who holds mutationMutex()
  made,     \* takes generated so far
  cached,   \* takes in the generation cache, under temp space
  adhoc,    \* takes whose 17-channel WAV is an ad-hoc sound
  promoted, \* takes whose WAV is under dialog/voice of the permanent sounds
  durable,  \* takes in the durable store
  composed, \* background music in the music cache
  queue,    \* JobWorker's queue
  actor,    \* where each thread is in its handler
  now,
  calls,
  raced     \* auxiliary: the lock's holder has been overtaken by an acceptance

takeVars == <<made, cached, adhoc, promoted, durable>>
lockVars == <<lock, raced>>
countVars == <<now, calls>>
scriptsVars == <<script, takeVars, lockVars, composed, queue, actor, countVars>>

\* A music generation's provenance: sourceDialogCacheKey, sourceScriptUpdatedAt.
Music == [turns : Turns, revision : Nat]

\* accepted_voice: generation_id and dialog_cache_key.
Voice == [take : Takes, key : Turns]

Script == [turns : Turns, voice : Voice \cup {Nothing}, music : Music \cup {Nothing}, updated : Nat]

Places ==
  {"idle", "edit", "detach", "attach", "clear", "erase",
   "demote", "promote", "publish", "accept", "export", "store",
   "render", "load", "show", "preview", "listen", "compose"}

LockedPlaces == {"edit", "detach", "attach"}

\* "copy" is the script as the handler read it, "asked" the take a render
\* names and "take" the one in hand.
Actor == [at : Places, copy : Script \cup {Nothing}, asked : Takes \cup {Nothing},
          take : Takes \cup {Nothing}, turns : Turns \cup {Nothing}, music : Music \cup {Nothing}]

Job == [at : {"accept", "render", "preview"}, take : Takes \cup {Nothing}, turns : Turns \cup {Nothing}]

AtRest == [at |-> "idle", copy |-> Nothing, asked |-> Nothing, take |-> Nothing, turns |-> Nothing,
           music |-> Nothing]

At(a, place) == actor[a].at = place

Becomes(a, state) == actor' = [actor EXCEPT ![a] = state]

Goto(a, place) == Becomes(a, [actor[a] EXCEPT !.at = place])

Later(x, y) == IF x > y THEN x ELSE y

ScriptsInit ==
  /\ script = [turns |-> FirstTurns, voice |-> Nothing, music |-> Nothing, updated |-> 0]
  /\ lock = Nothing /\ raced = FALSE
  /\ made = {} /\ cached = {} /\ adhoc = {} /\ promoted = {} /\ durable = {}
  /\ composed = {} /\ queue = <<>>
  /\ actor = [a \in Actors |-> AtRest]
  /\ now = 0 /\ calls = 0

Tick ==
  /\ now < MaxNow
  /\ now' = now + 1
  /\ UNCHANGED <<script, takeVars, lockVars, composed, queue, actor, calls>>

\* A request by an idle HTTP thread.
Call(t) ==
  /\ At(t, "idle") /\ calls < MaxCalls
  /\ calls' = calls + 1 /\ now' = now

-----------------------------------------------------------------------------
(* DialogScriptController and promotion of music: under the lock.          *)

\* The lock is taken and the document read.
BeginLocked(t, state) ==
  /\ Call(t)
  /\ lock = Nothing /\ script # Nothing
  /\ lock' = t /\ raced' = FALSE
  /\ Becomes(t, [state EXCEPT !.copy = script])
  /\ UNCHANGED <<script, takeVars, composed, queue>>

\* The document is replaced and the lock released.
CommitLocked(t, document) ==
  /\ script' = document
  /\ lock' = Nothing /\ raced' = FALSE
  /\ Becomes(t, AtRest)
  /\ UNCHANGED <<takeVars, composed, queue, countVars>>

UpdateScript(t, turns) == BeginLocked(t, [AtRest EXCEPT !.at = "edit", !.turns = turns])

\* Music and acceptance are carried forward from the copy, not from the body.
CommitUpdate(t) ==
  /\ At(t, "edit")
  /\ CommitLocked(t, [actor[t].copy EXCEPT !.turns = actor[t].turns, !.updated = now])

ClearMusic(t) ==
  /\ script # Nothing /\ script.music # Nothing
  /\ BeginLocked(t, [AtRest EXCEPT !.at = "detach"])

CommitClearMusic(t) ==
  LET copy == actor[t].copy
  IN  /\ At(t, "detach")
      /\ CommitLocked(t, [copy EXCEPT !.music = Nothing, !.updated = Later(now, copy.updated + 1)])

DeleteScript(t) ==
  /\ Call(t)
  /\ lock = Nothing
  /\ script' = Nothing
  /\ UNCHANGED <<takeVars, lockVars, composed, queue, actor>>

\* Mutant of PromoteMusic: only the revision is compared.
PromoteByRevision(t, m) ==
  /\ script # Nothing /\ script.music # m
  /\ m.revision = script.updated
  /\ BeginLocked(t, [AtRest EXCEPT !.at = "attach", !.music = m])

\* DialogMusicService::promote: composed for this revision, and for these turns.
PromoteMusic(t, m) ==
  /\ script # Nothing /\ script.music # m
  /\ m.revision = script.updated /\ m.turns = script.turns
  /\ BeginLocked(t, [AtRest EXCEPT !.at = "attach", !.music = m])

CommitMusic(t) ==
  /\ At(t, "attach")
  /\ CommitLocked(t, [actor[t].copy EXCEPT !.music = actor[t].music, !.updated = now])

-----------------------------------------------------------------------------
(* Accepting a take and clearing the acceptance: no lock is held.          *)

\* moveFile() of an accepted take's WAV back to the ad-hoc sounds; a missing
\* file and a failed move are both ignored.
Demotes(g) ==
  \/ /\ g \in promoted
     /\ promoted' = promoted \ {g} /\ adhoc' = adhoc \cup {g}
  \/ UNCHANGED <<promoted, adhoc>>

\* A lockless write of the document: it overtakes whoever holds the lock.
PublishLockless(a, document) ==
  /\ script' = document
  /\ raced' = (lock # Nothing)
  /\ Becomes(a, AtRest)
  /\ UNCHANGED <<lock, takeVars, composed, queue, countVars>>

ClearVoice(t) ==
  /\ Call(t)
  /\ script # Nothing /\ script.voice # Nothing
  /\ Becomes(t, [AtRest EXCEPT !.at = "clear", !.copy = script])
  /\ UNCHANGED <<script, takeVars, lockVars, composed, queue>>

DemoteCleared(t) ==
  /\ At(t, "clear")
  /\ Demotes(actor[t].copy.voice.take)
  /\ Goto(t, "erase")
  /\ UNCHANGED <<script, lockVars, made, cached, durable, composed, queue, countVars>>

PublishCleared(t) ==
  LET copy == actor[t].copy
  IN  /\ At(t, "erase")
      /\ PublishLockless(t, [copy EXCEPT !.voice = Nothing, !.updated = Later(now, copy.updated + 1)])

\* The generation cache is looked up by cache key and take.
CachedFor(turns) == {g \in cached : KeyOf[g] = turns}

\* acceptVoiceTake.  The client names a take and, apart from it, the turns it
\* says the take was auditioned with; these must be the turns as they are.
\* If the take's WAV is there it is accepted at once, whatever turns it was
\* made for; otherwise as a job, if the cache has it for these turns.
AcceptTake(t, g, turns) ==
  /\ Call(t)
  /\ script # Nothing /\ turns = script.turns
  /\ script.voice # Nothing => script.voice.take # g
  /\ \/ /\ g \in adhoc
        /\ Becomes(t, [AtRest EXCEPT !.at = "demote", !.copy = script, !.take = g, !.turns = turns])
        /\ UNCHANGED queue
     \/ /\ g \in CachedFor(turns) \ adhoc
        /\ queue' = Append(queue, [at |-> "accept", take |-> g, turns |-> turns])
        /\ UNCHANGED actor
  /\ UNCHANGED <<script, takeVars, lockVars, composed>>

\* The outgoing take leaves the permanent sounds; the job also drops its
\* durable copy, if it is filed under the key the script has for it.
DemoteOutgoing(a) ==
  LET old == actor[a].copy.voice
  IN  /\ At(a, "demote")
      /\ IF old = Nothing \/ (a = Worker /\ old.take = actor[a].take)
         THEN UNCHANGED <<promoted, adhoc, durable>>
         ELSE /\ Demotes(old.take)
              /\ durable' = IF a = Worker /\ KeyOf[old.take] = old.key
                            THEN durable \ {old.take} ELSE durable
      /\ Goto(a, "promote")
      /\ UNCHANGED <<script, lockVars, made, cached, composed, queue, countVars>>

\* promoteVoiceTake: the acceptance fails if the sweep took the WAV meanwhile.
PromoteTake(a) ==
  LET g == actor[a].take
  IN  /\ At(a, "promote")
      /\ IF g \in adhoc
         THEN /\ adhoc' = adhoc \ {g} /\ promoted' = promoted \cup {g}
              /\ Goto(a, "publish")
         ELSE /\ Becomes(a, AtRest)
              /\ UNCHANGED <<adhoc, promoted>>
      /\ UNCHANGED <<script, lockVars, made, cached, durable, composed, queue, countVars>>

PublishAccepted(a) ==
  LET me == actor[a]
  IN  /\ At(a, "publish")
      /\ PublishLockless(a, [me.copy EXCEPT !.voice = [take |-> me.take, key |-> me.turns],
                                            !.updated = Later(now, @ + 1)])

-----------------------------------------------------------------------------
(* Requests that only queue a job.                                         *)

\* What a queued job finds when the worker comes to it is its own business.
Submit(t, job) ==
  /\ Call(t)
  /\ queue' = Append(queue, job)
  /\ UNCHANGED <<script, takeVars, lockVars, composed, actor>>

\* DialogController's gate.
RenderScript(t) ==
  /\ script # Nothing /\ script.voice # Nothing
  /\ script.voice.key = script.turns
  /\ Submit(t, [at |-> "render", take |-> Nothing, turns |-> Nothing])

\* An explicit generation_id passes ungated.
RenderTake(t, g) == Submit(t, [at |-> "render", take |-> g, turns |-> Nothing])

PreviewTurns(t, turns) == Submit(t, [at |-> "preview", take |-> Nothing, turns |-> turns])

-----------------------------------------------------------------------------
(* The job worker.                                                         *)

TakeJob ==
  LET job == Head(queue)
  IN  /\ At(Worker, "idle") /\ queue # <<>>
      /\ queue' = Tail(queue)
      /\ Becomes(Worker, [AtRest EXCEPT !.at = job.at, !.asked = job.take, !.take = job.take,
                                   !.turns = job.turns])
      /\ UNCHANGED <<script, takeVars, lockVars, composed, countVars>>

\* The worker reads the document; without one, or if it will not do, the job
\* fails.
ReadScript(place, next, fits) ==
  /\ At(Worker, place)
  /\ IF script # Nothing /\ fits
     THEN Becomes(Worker, [actor[Worker] EXCEPT !.at = next, !.copy = script])
     ELSE Becomes(Worker, AtRest)
  /\ UNCHANGED <<script, takeVars, lockVars, composed, queue, countVars>>

\* Mutant of AcceptRead: the controller's check is relied upon.
AcceptReadUnchecked == ReadScript("accept", "export", TRUE)

\* The turns may have changed while the job waited.
AcceptRead == ReadScript("accept", "export", script.turns = actor[Worker].turns)

\* ensureAdHocExportForTake, from the cached generation.
AcceptExport ==
  LET g == actor[Worker].take
  IN  /\ At(Worker, "export")
      /\ IF g \in CachedFor(actor[Worker].turns)
         THEN adhoc' = adhoc \cup {g} /\ Goto(Worker, "store")
         ELSE UNCHANGED adhoc /\ Becomes(Worker, AtRest)
      /\ UNCHANGED <<script, lockVars, made, cached, promoted, durable, composed, queue, countVars>>

\* saveAcceptedGeneration, before anything is demoted or published.
AcceptStore ==
  LET g == actor[Worker].take
  IN  /\ At(Worker, "store")
      /\ IF g \in CachedFor(actor[Worker].turns)
         THEN durable' = durable \cup {g} /\ Goto(Worker, "demote")
         ELSE UNCHANGED durable /\ Becomes(Worker, AtRest)
      /\ UNCHANGED <<script, lockVars, made, cached, adhoc, promoted, composed, queue, countVars>>

RenderRead == ReadScript("render", "load", TRUE)

\* The worker goes on with a take in hand.
Holds(g, place) == Becomes(Worker, [actor[Worker] EXCEPT !.at = place, !.take = g])

\* ElevenLabs makes a take of these turns, or the call fails.
Generate(turns, place) ==
  \/ \E g \in Takes \ made :
       /\ KeyOf[g] = turns
       /\ made' = made \cup {g} /\ cached' = cached \cup {g}
       /\ Holds(g, place)
  \/ Becomes(Worker, AtRest) /\ UNCHANGED <<made, cached>>

\* The newest cached take of these turns; without one, a new take.
ReuseOrGenerate(turns, place) ==
  \/ \E g \in CachedFor(turns) : Holds(g, place) /\ UNCHANGED <<made, cached>>
  \/ CachedFor(turns) = {} /\ Generate(turns, place)

\* Mutant of RenderLoad: an accepted take that is gone is replaced.
RenderLoadAnyway ==
  LET me == actor[Worker]
      turns == me.copy.turns
      accepted == me.asked = Nothing /\ me.copy.voice # Nothing
      wanted == IF accepted THEN me.copy.voice.take ELSE me.asked
      found == \/ wanted \in CachedFor(turns)
               \/ accepted /\ wanted \in durable /\ KeyOf[wanted] = turns
  IN  /\ At(Worker, "load")
      /\ IF found
         THEN Holds(wanted, "show") /\ UNCHANGED <<made, cached>>
         ELSE ReuseOrGenerate(turns, "show")
      /\ UNCHANGED <<script, lockVars, adhoc, promoted, durable, composed, queue, countVars>>

\* An accepted take comes from the durable store or the cache, and from
\* nowhere else; a take the request named, from the cache if it is there.
RenderLoad ==
  LET me == actor[Worker]
      turns == me.copy.turns
      accepted == me.asked = Nothing /\ me.copy.voice # Nothing
      wanted == IF accepted THEN me.copy.voice.take ELSE me.asked
      found == \/ wanted \in CachedFor(turns)
               \/ accepted /\ wanted \in durable /\ KeyOf[wanted] = turns
  IN  /\ At(Worker, "load")
      /\ CASE found -> Holds(wanted, "show") /\ UNCHANGED <<made, cached>>
           [] accepted /\ ~found -> Becomes(Worker, AtRest) /\ UNCHANGED <<made, cached>>
           [] OTHER -> ReuseOrGenerate(turns, "show")
      /\ UNCHANGED <<script, lockVars, adhoc, promoted, durable, composed, queue, countVars>>

\* The scene is mixed, published and played, or fails: Jobs.tla has the rest.
RenderDone ==
  /\ At(Worker, "show")
  /\ Becomes(Worker, AtRest)
  /\ UNCHANGED <<script, takeVars, lockVars, composed, queue, countVars>>

\* loadOrGenerate, with "regenerate" or without.
PreviewLoad ==
  LET turns == actor[Worker].turns
  IN  /\ At(Worker, "preview")
      /\ ReuseOrGenerate(turns, "listen") \/ Generate(turns, "listen")
      /\ UNCHANGED <<script, lockVars, adhoc, promoted, durable, composed, queue, countVars>>

\* ensureAdHocExport; a failure is not fatal.
PreviewExport ==
  /\ At(Worker, "listen")
  /\ \/ adhoc' = adhoc \cup {actor[Worker].take}
     \/ UNCHANGED adhoc
  /\ Becomes(Worker, AtRest)
  /\ UNCHANGED <<script, lockVars, made, cached, promoted, durable, composed, queue, countVars>>

-----------------------------------------------------------------------------
(* The music worker: DialogMusicService::generate.                         *)

ComposeMusic(g) ==
  /\ At(Composer, "idle") /\ calls < MaxCalls
  /\ calls' = calls + 1
  /\ script # Nothing /\ g \in CachedFor(script.turns)
  /\ Becomes(Composer, [AtRest EXCEPT !.at = "compose", !.copy = script])
  /\ UNCHANGED <<script, takeVars, lockVars, composed, queue, now>>

SaveMusic ==
  LET copy == actor[Composer].copy
  IN  /\ At(Composer, "compose")
      /\ composed' = composed \cup {[turns |-> copy.turns, revision |-> copy.updated]}
      /\ Becomes(Composer, AtRest)
      /\ UNCHANGED <<script, takeVars, lockVars, queue, countVars>>

-----------------------------------------------------------------------------
(* What goes wrong underneath.                                             *)

Writes == LockedPlaces \cup {"erase", "publish"}

\* runPublisher reports an error: the lock is released, files stay where
\* they were moved.
PublishFails(a) ==
  /\ actor[a].at \in Writes
  /\ Becomes(a, AtRest)
  /\ IF actor[a].at \in LockedPlaces THEN lock' = Nothing /\ raced' = FALSE ELSE UNCHANGED lockVars
  /\ UNCHANGED <<script, takeVars, composed, queue, countVars>>

\* The cron sweep of temp space and of the ad-hoc sounds.
Sweep(g) ==
  /\ \/ g \in cached /\ cached' = cached \ {g} /\ UNCHANGED adhoc
     \/ g \in adhoc /\ adhoc' = adhoc \ {g} /\ UNCHANGED cached
  /\ UNCHANGED <<script, lockVars, made, promoted, durable, composed, queue, actor, countVars>>

\* Handlers, queue and lock are in memory only.
ScriptsRestart ==
  /\ \/ queue # <<>>
     \/ \E a \in Actors : ~At(a, "idle")
  /\ actor' = [a \in Actors |-> AtRest]
  /\ queue' = <<>> /\ lock' = Nothing /\ raced' = FALSE
  /\ UNCHANGED <<script, takeVars, composed, countVars>>

-----------------------------------------------------------------------------

ScriptStep(t) ==
  \/ \E turns \in Turns : UpdateScript(t, turns)
  \/ CommitUpdate(t) \/ ClearMusic(t) \/ CommitClearMusic(t) \/ DeleteScript(t)
  \/ \E m \in composed : PromoteMusic(t, m)
  \/ CommitMusic(t)

VoiceStep(t) ==
  \/ ClearVoice(t) \/ DemoteCleared(t) \/ PublishCleared(t)
  \/ \E g \in made, turns \in Turns : AcceptTake(t, g, turns)

AcceptStep(a) == DemoteOutgoing(a) \/ PromoteTake(a) \/ PublishAccepted(a)

SubmitStep(t) ==
  \/ RenderScript(t)
  \/ \E g \in made : RenderTake(t, g)
  \/ \E turns \in Turns : PreviewTurns(t, turns)

WorkerStep ==
  \/ TakeJob \/ AcceptRead \/ AcceptExport \/ AcceptStore
  \/ RenderRead \/ RenderLoad \/ RenderDone \/ PreviewLoad \/ PreviewExport

ComposerStep == SaveMusic \/ \E g \in made : ComposeMusic(g)

ScriptsNext ==
  \/ \E t \in Threads : ScriptStep(t) \/ VoiceStep(t) \/ SubmitStep(t)
  \/ \E a \in Actors : AcceptStep(a) \/ PublishFails(a)
  \/ WorkerStep \/ ComposerStep
  \/ \E g \in Takes : Sweep(g)
  \/ ScriptsRestart \/ Tick

ScriptsSpec == ScriptsInit /\ [][ScriptsNext]_scriptsVars

-----------------------------------------------------------------------------

ScriptsTypeOK ==
  /\ script \in Script \cup {Nothing}
  /\ lock \in Actors \cup {Nothing} /\ raced \in BOOLEAN
  /\ made \subseteq Takes /\ cached \subseteq made /\ durable \subseteq made
  /\ adhoc \subseteq Takes /\ promoted \subseteq Takes
  /\ composed \subseteq Music
  /\ queue \in Seq(Job)
  /\ actor \in [Actors -> Actor]
  /\ now \in Nat /\ calls \in Nat

\* Whoever edits under the lock is its only holder.
OneLocks == \A a \in Actors : actor[a].at \in LockedPlaces <=> lock = a

\* Music is attached to the turns it was composed for.
MusicFits == \A a \in Actors : At(a, "attach") => actor[a].music.turns = actor[a].copy.turns

\* DialogScriptMutationLock.h: a handler that holds the lock replaces the
\* document it read and not a later one, unless an acceptance overtook it.
LockedCopyIsCurrent ==
  \A a \in Actors : actor[a].at \in LockedPlaces /\ ~raced => actor[a].copy = script

(* Safety: the mutation lock is held by exactly the handler that is        *)
(* between its read and its write, across restarts and failed writes; no   *)
(* locked edit is lost to another; and music goes only to the turns it was *)
(* composed for although two revisions of a script may carry the same      *)
(* updated_at.                                                             *)
ScriptsConsistent == ScriptsTypeOK /\ OneLocks /\ LockedCopyIsCurrent /\ MusicFits

(* Safety: however long assembly took and whatever was edited meanwhile,   *)
(* an acceptance goes into a document whose turns are the ones it was      *)
(* asked for, and one that waited for assembly brings a take made for      *)
(* them.  An acceptance at once takes the client's word for that.          *)
AcceptancesLandFresh ==
  \A a \in Actors :
    actor[a].at \in {"demote", "promote", "publish"} =>
      /\ actor[a].copy.turns = actor[a].turns
      /\ a = Worker => KeyOf[actor[a].take] = actor[a].turns

(* Safety (issue #146): a render of a script with an accepted take brings  *)
(* that take or fails; a take swept from the cache is never replaced by    *)
(* another one.                                                            *)
RendersAcceptedTake ==
  LET me == actor[Worker]
  IN  At(Worker, "show") /\ me.asked = Nothing /\ me.copy.voice # Nothing =>
        me.take = me.copy.voice.take /\ KeyOf[me.take] = me.copy.turns

-----------------------------------------------------------------------------
(* DialogController's gate means that un-auditioned audio must never reach *)
(* the birds; the worker reads the script again and renders whatever it    *)
(* finds if the acceptance was cleared meanwhile.                          *)
OnlyAcceptedReachesBirds ==
  LET me == actor[Worker]
  IN  At(Worker, "show") /\ me.asked = Nothing => me.copy.voice # Nothing
=============================================================================
