-------------------------------- MODULE Jobs --------------------------------
(***************************************************************************)
(* Background jobs: the job table of JobManager, the two worker threads of *)
(* JobWorker with their queues, and what the handlers leave behind in the  *)
(* library of animations and among the sound files.                        *)
(*                                                                         *)
(* An HTTP thread creates a job and queues it in a second step; music jobs *)
(* also need one of MusicSlots slots, kept from admission until the music  *)
(* thread has returned from the job.  Every other job is handled by the    *)
(* main worker, one at a time, while clients go on saving and deleting     *)
(* animations.  A job may be created at any moment until the web server is *)
(* stopped; a worker that sees the stop request leaves its queue as it is. *)
(*                                                                         *)
(* A render names its WAV after its job, so a job stands for the sound it  *)
(* writes, and for the fresh id of its animation; Upload is a sound a      *)
(* person put there.  An animation is the scene (script and stage) it was  *)
(* rendered from and its sound.  The queues are sets: the queue of the     *)
(* code keeps the order of one producer only, and every request may come   *)
(* from a thread of its own.                                               *)
(***************************************************************************)
EXTENDS Naturals, FiniteSets

CONSTANTS
  Job,        \* jobs in the order of their creation: 1..n
  Offered,    \* the kinds of job each may be
  Client,     \* HTTP threads
  Copy,       \* ids of animations that clients make
  Scene,      \* scripts bound to a stage
  Upload,
  MusicSlots, \* kMaxMusicJobsInFlight
  MaxEdits,   \* bound: animations saved or deleted by clients
  None

Kinds ==
  {"lipSync", "adHocSpeech", "animationLipSync", "dialog", "dialogAdHoc", "dialogPreview",
   "dialogPreviewExport", "dialogMusic", "stageRerender", "voiceFile", "voiceTakeAccept"}

ASSUME JobsAssumption ==
  /\ Job \subseteq Nat /\ IsFiniteSet(Job)
  /\ Offered \in [Job -> SUBSET Kinds]
  /\ MusicSlots \in Nat /\ MaxEdits \in Nat
  /\ Upload \notin Job /\ None # Upload
  /\ None \notin Job /\ None \notin Copy /\ None \notin Scene /\ None \notin Kinds

Worker == {"main", "music"}

Sound == Job \cup {Upload}

Show == Job \cup Copy

VARIABLES
  job,        \* JobManager::jobs_
  client,     \* where an HTTP thread is between creating a job and answering
  queue,      \* jobQueue_
  musicQueue, \* musicJobQueue_
  slots,      \* musicJobsInFlight_
  worker,     \* where each worker thread is, and its job
  stopping,   \* stop_requested
  render,     \* the locals of the main worker's handler
  library,    \* animations in MongoDB
  adhoc,      \* ad-hoc animations, by the job that published them
  sounds,     \* WAV files on disk
  edits

jobVars == <<job, client, queue, musicQueue, slots>>
libraryVars == <<library, adhoc, sounds, edits>>
vars == <<jobVars, worker, stopping, render, libraryVars>>

\* "scene" and "targets" are what the details of a dialog and of a re-render
\* or lip sync name.
JobState ==
  [kind : Kinds \cup {None}, status : {"none", "Queued", "Running", "Completed", "Failed"},
   scene : Scene \cup {None}, targets : SUBSET Show]

\* Auxiliary: "risky" marks a document a client saved with a sound that was
\* gone, not yet committed or about to go.
Animation == [scene : Scene \cup {None}, sound : Sound, risky : BOOLEAN]

Places ==
  {"waiting", "work", "lookup", "write", "publish", "count", "delete", "finish",
   "store", "play", "sync", "next", "republish", "leave"}

\* "old" is supersededSoundFile, "guard" an armed RemoveFileUnlessReleased.
Render ==
  [show : Show \cup {None}, copy : Animation \cup {None}, old : Sound \cup {None},
   left : SUBSET Show, done : BOOLEAN, guard : BOOLEAN]

Blank == [show |-> None, copy |-> None, old |-> None, left |-> {}, done |-> FALSE, guard |-> FALSE]

Unborn == [kind |-> None, status |-> "none", scene |-> None, targets |-> {}]

Ended(j) == job[j].status \in {"Completed", "Failed"}

At(w, place) == worker[w].at = place

Goto(w, place) == worker' = [worker EXCEPT ![w].at = place]

\* The job in a worker's hand, and its kind.
Mine(w) == worker[w].job

Handles(w, kind) == At(w, "work") /\ job[Mine(w)].kind = kind

Taken == {worker[w].job : w \in Worker} \ {None}

Library == {a \in Show : library[a] # None}

Init ==
  /\ job = [j \in Job |-> Unborn]
  /\ client = [c \in Client |-> [at |-> "idle", job |-> None]]
  /\ queue = {} /\ musicQueue = {} /\ slots = 0
  /\ worker = [w \in Worker |-> [at |-> "waiting", job |-> None]]
  /\ stopping = FALSE
  /\ render = Blank
  /\ library = [a \in Show |-> None]
  /\ adhoc = {} /\ sounds = {Upload} /\ edits = 0

-----------------------------------------------------------------------------
(* HTTP threads: createJob, then queueJob or tryQueueMusicJob.             *)

\* Jobs get their number when they are created.
NextJob(j) == job[j].status = "none" /\ \A k \in Job : k < j => job[k].status # "none"

\* What a job of this kind may be about.
Details(kind) ==
  [scene : IF kind = "dialog" THEN Scene \cup {None} ELSE {None},
   targets : CASE kind = "animationLipSync" -> {{a} : a \in Library}
               [] kind = "stageRerender" -> SUBSET Library \ {{}}
               [] OTHER -> {{}}]

CreateJob(c, j, kind) ==
  /\ client[c].at = "idle" /\ ~stopping
  /\ NextJob(j) /\ kind \in Offered[j]
  /\ \E about \in Details(kind) :
       job' = [job EXCEPT ![j] = [kind |-> kind, status |-> "Queued",
                                  scene |-> about.scene, targets |-> about.targets]]
  /\ client' = [client EXCEPT ![c] = [at |-> "submit", job |-> j]]
  /\ UNCHANGED <<queue, musicQueue, slots, worker, stopping, render, libraryVars>>

Submits(c, music) ==
  client[c].at = "submit" /\ (job[client[c].job].kind = "dialogMusic" <=> music)

Answers(c) == client' = [client EXCEPT ![c] = [at |-> "idle", job |-> None]]

QueueJob(c) ==
  /\ Submits(c, FALSE)
  /\ queue' = queue \cup {client[c].job}
  /\ Answers(c)
  /\ UNCHANGED <<job, musicQueue, slots, worker, stopping, render, libraryVars>>

\* Mutant of ReserveSlot: one music job too many is let in.
ReserveOneMore(c) ==
  /\ Submits(c, TRUE) /\ slots <= MusicSlots
  /\ slots' = slots + 1
  /\ client' = [client EXCEPT ![c].at = "enqueue"]
  /\ UNCHANGED <<job, queue, musicQueue, worker, stopping, render, libraryVars>>

\* tryQueueMusicJob: the compare-exchange, and the enqueue after it.
ReserveSlot(c) ==
  /\ Submits(c, TRUE) /\ slots < MusicSlots
  /\ slots' = slots + 1
  /\ client' = [client EXCEPT ![c].at = "enqueue"]
  /\ UNCHANGED <<job, queue, musicQueue, worker, stopping, render, libraryVars>>

EnqueueMusic(c) ==
  /\ client[c].at = "enqueue"
  /\ musicQueue' = musicQueue \cup {client[c].job}
  /\ Answers(c)
  /\ UNCHANGED <<job, queue, slots, worker, stopping, render, libraryVars>>

RefuseMusic(c) ==
  /\ Submits(c, TRUE) /\ slots >= MusicSlots
  /\ client' = [client EXCEPT ![c].at = "refuse"]
  /\ UNCHANGED <<job, queue, musicQueue, slots, worker, stopping, render, libraryVars>>

\* The controller fails the job it created and answers 429.
FailRefused(c) ==
  /\ client[c].at = "refuse"
  /\ job' = [job EXCEPT ![client[c].job].status = "Failed"]
  /\ Answers(c)
  /\ UNCHANGED <<queue, musicQueue, slots, worker, stopping, render, libraryVars>>

-----------------------------------------------------------------------------
(* HTTP threads: animations saved and deleted under the handlers' feet.    *)

Edits == edits < MaxEdits /\ edits' = edits + 1

\* A sound that is gone, or may go before anyone hears of this document.
AtStake(s) ==
  \/ s \notin sounds
  \/ render.guard /\ s = Mine("main")
  \/ At("main", "delete") /\ s = render.old

\* The scene of a stored animation is carried over; a new one may name any.
SaveAnimation(a, s) ==
  /\ Edits
  /\ a \in Copy \cup Library
  /\ s \in {Upload} \cup {j \in Job : job[j].kind = "dialog"}
  /\ \E scene \in IF library[a] = None THEN Scene \cup {None} ELSE {library[a].scene} :
       library' = [library EXCEPT ![a] = [scene |-> scene, sound |-> s, risky |-> AtStake(s)]]
  /\ UNCHANGED <<jobVars, worker, stopping, render, adhoc, sounds>>

DeleteAnimation(a) ==
  /\ Edits
  /\ library[a] # None
  /\ library' = [library EXCEPT ![a] = None]
  /\ UNCHANGED <<jobVars, worker, stopping, render, adhoc, sounds>>

-----------------------------------------------------------------------------
(* The worker threads.                                                     *)

\* Mutant of TakeJob: a job that was dequeued is not handled.
TakeAndLose ==
  \E j \in queue :
    /\ At("main", "waiting") /\ ~stopping
    /\ queue' = queue \ {j}
    /\ UNCHANGED <<job, client, musicQueue, slots, worker, stopping, render, libraryVars>>

\* processJob, up to the handler.
Starts(w, j) ==
  /\ At(w, "waiting") /\ ~stopping
  /\ job' = [job EXCEPT ![j].status = "Running"]
  /\ worker' = [worker EXCEPT ![w] = [at |-> "work", job |-> j]]
  /\ UNCHANGED <<client, slots, stopping, render, libraryVars>>

TakeJob ==
  \E j \in queue : Starts("main", j) /\ queue' = queue \ {j} /\ UNCHANGED musicQueue

TakeMusic ==
  \E j \in musicQueue : Starts("music", j) /\ musicQueue' = musicQueue \ {j} /\ UNCHANGED queue

\* completeJob, or failJob by the handler or by processJob, which catches its
\* exceptions.
Ends(w, status) ==
  /\ job' = [job EXCEPT ![Mine(w)].status = status]
  /\ Goto(w, "leave")
  /\ UNCHANGED <<client, queue, musicQueue, slots, stopping>>

Completes(w) == Ends(w, "Completed") /\ UNCHANGED <<render, libraryVars>>

Fails(w) == Ends(w, "Failed") /\ UNCHANGED <<render, libraryVars>>

\* The handler goes on to another place.
Goes(w, place) == Goto(w, place) /\ UNCHANGED <<jobVars, stopping>>

\* Mutant of LeaveJob: a music job that failed keeps its slot.
LeaveAndKeepSlot(w) ==
  /\ At(w, "leave")
  /\ worker' = [worker EXCEPT ![w] = [at |-> "waiting", job |-> None]]
  /\ IF w = "main"
     THEN /\ sounds' = IF render.guard THEN sounds \ {Mine(w)} ELSE sounds
          /\ render' = Blank
     ELSE UNCHANGED <<sounds, render>>
  /\ slots' = IF w = "music" /\ job[Mine(w)].status = "Completed" THEN slots - 1 ELSE slots
  /\ UNCHANGED <<job, client, queue, musicQueue, stopping, library, adhoc, edits>>

\* The locals of the handler are destroyed; the music thread then gives its
\* slot back.
LeaveJob(w) ==
  /\ At(w, "leave")
  /\ worker' = [worker EXCEPT ![w] = [at |-> "waiting", job |-> None]]
  /\ IF w = "main"
     THEN /\ sounds' = IF render.guard THEN sounds \ {Mine(w)} ELSE sounds
          /\ render' = Blank
     ELSE UNCHANGED <<sounds, render>>
  /\ slots' = IF w = "music" THEN slots - 1 ELSE slots
  /\ UNCHANGED <<job, client, queue, musicQueue, stopping, library, adhoc, edits>>

-----------------------------------------------------------------------------
(* Handlers that are one step here.  What a preview, an accepted take and  *)
(* a music generation leave behind is the subject of DialogScripts.tla;    *)
(* the files of a lip sync and of a voice file are not shared.             *)

OneStep(w, kind) == Handles(w, kind) /\ (Completes(w) \/ Fails(w))

LipSync == OneStep("main", "lipSync")

DialogPreview == OneStep("main", "dialogPreview")

DialogPreviewExport == OneStep("main", "dialogPreviewExport")

VoiceFile == OneStep("main", "voiceFile")

VoiceTakeAccept == OneStep("main", "voiceTakeAccept")

DialogMusic == OneStep("music", "dialogMusic")

-----------------------------------------------------------------------------
(* handleAdHocSpeechJob: it catches every exception itself.                *)

SpeechGenerate ==
  /\ Handles("main", "adHocSpeech")
  /\ \/ Goes("main", "store") /\ UNCHANGED <<render, libraryVars>>
     \/ Fails("main")

SpeechPublish ==
  /\ At("main", "store")
  /\ \/ /\ Goes("main", "play")
        /\ adhoc' = adhoc \cup {Mine("main")}
        /\ UNCHANGED <<render, library, sounds, edits>>
     \/ Fails("main")

\* Without a universe, or if the interruption is refused, the job fails
\* although its animation has been published.
SpeechPlay == At("main", "play") /\ (Completes("main") \/ Fails("main"))

-----------------------------------------------------------------------------
(* handleAnimationLipSyncJob and handleStageRerenderJob rewrite stored     *)
(* animations whose sound stays as it is.                                  *)

AnimationRead ==
  /\ Handles("main", "animationLipSync")
  /\ \/ \E a \in job[Mine("main")].targets \cap Library :
          /\ render' = [render EXCEPT !.show = a, !.copy = library[a]]
          /\ Goes("main", "sync")
          /\ UNCHANGED libraryVars
     \/ Fails("main")

\* republishAnimation writes the document as it was read.
AnimationSync ==
  /\ At("main", "sync")
  /\ \/ /\ library' = [library EXCEPT ![render.show] = render.copy]
        /\ Goes("main", "finish")
        /\ UNCHANGED <<render, adhoc, sounds, edits>>
     \/ Fails("main")

RerenderStart ==
  /\ Handles("main", "stageRerender")
  /\ render' = [render EXCEPT !.left = job[Mine("main")].targets]
  /\ Goes("main", "next")
  /\ UNCHANGED libraryVars

\* The next animation; a failure is recorded and the others go on.
RerenderRead ==
  /\ At("main", "next")
  /\ \E a \in render.left :
       \/ /\ library[a] # None
          /\ render' = [render EXCEPT !.left = @ \ {a}, !.show = a, !.copy = library[a]]
          /\ Goes("main", "republish")
       \/ /\ render' = [render EXCEPT !.left = @ \ {a}]
          /\ Goes("main", "next")
  /\ UNCHANGED libraryVars

\* The stage asked for becomes the animation's own.
RerenderPublish ==
  /\ At("main", "republish")
  /\ \/ /\ \E scene \in Scene \cup {render.copy.scene} :
             library' = [library EXCEPT ![render.show] = [render.copy EXCEPT !.scene = scene]]
        /\ render' = [render EXCEPT !.done = TRUE]
        /\ Goes("main", "next")
        /\ UNCHANGED <<adhoc, sounds, edits>>
     \/ Goes("main", "next") /\ UNCHANGED <<render, libraryVars>>

\* It fails only if nothing was re-rendered.
RerenderEnd ==
  /\ At("main", "next") /\ render.left = {}
  /\ IF render.done THEN Completes("main") ELSE Fails("main")

-----------------------------------------------------------------------------
(* handleDialogJob, from the assembled scene on.                           *)

DialogAssemble ==
  \/ /\ Handles("main", "dialog")
     /\ Goes("main", "lookup") /\ UNCHANGED <<render, libraryVars>>
  \/ /\ Handles("main", "dialogAdHoc")
     /\ Goes("main", "write") /\ UNCHANGED <<render, libraryVars>>
  \/ /\ Handles("main", "dialog") \/ Handles("main", "dialogAdHoc")
     /\ Fails("main")

\* An animation of the same scene is reused and its sound is superseded; a
\* failed lookup means a fresh id.
DialogLookup ==
  LET scene == job[Mine("main")].scene
      same == {a \in Library : scene # None /\ library[a].scene = scene}
  IN  /\ At("main", "lookup")
      /\ \/ \E a \in same : \E old \in {library[a].sound, None} :
              render' = [render EXCEPT !.show = a, !.old = old]
         \/ render' = [render EXCEPT !.show = Mine("main")]
      /\ Goes("main", "write")
      /\ UNCHANGED libraryVars

\* A failed write may leave a part of the file.
DialogWrite ==
  /\ At("main", "write")
  /\ render' = [render EXCEPT !.guard = TRUE]
  /\ \/ /\ sounds' = sounds \cup {Mine("main")}
        /\ Goes("main", "publish")
     \/ /\ sounds' \in {sounds, sounds \cup {Mine("main")}}
        /\ Ends("main", "Failed")
  /\ UNCHANGED <<library, adhoc, edits>>

Published ==
  IF job[Mine("main")].kind = "dialog"
  THEN /\ library' = [library EXCEPT ![render.show] =
                        [scene |-> job[Mine("main")].scene, sound |-> Mine("main"), risky |-> FALSE]]
       /\ UNCHANGED adhoc
  ELSE /\ adhoc' = adhoc \cup {Mine("main")}
       /\ UNCHANGED library

\* The file is released once its animation is stored.
DialogPublish ==
  /\ At("main", "publish")
  /\ \/ /\ Published
        /\ render' = [render EXCEPT !.guard = FALSE]
        /\ Goes("main", IF render.old \in {None, Mine("main")} THEN "finish" ELSE "count")
        /\ UNCHANGED <<sounds, edits>>
     \/ Fails("main")

\* Mutant of DialogCount: nobody else is expected to use the old sound.
DialogDontCount ==
  /\ At("main", "count")
  /\ \/ Goes("main", "delete")
     \/ Goes("main", "finish")
  /\ UNCHANGED <<render, libraryVars>>

\* countAnimationsBySoundFile: the old sound stays if it is used, or if the
\* query fails.
DialogCount ==
  /\ At("main", "count")
  /\ \/ /\ \A a \in Library : library[a].sound # render.old
        /\ Goes("main", "delete")
     \/ Goes("main", "finish")
  /\ UNCHANGED <<render, libraryVars>>

\* deleteSupersededDialogSound: only sounds a render wrote; the removal may
\* fail without consequence.
DialogDelete ==
  /\ At("main", "delete")
  /\ \/ sounds' = IF render.old = Upload THEN sounds ELSE sounds \ {render.old}
     \/ UNCHANGED sounds
  /\ Goes("main", "finish")
  /\ UNCHANGED <<render, library, adhoc, edits>>

\* Autoplay may fail; the job completes all the same.
Finish == At("main", "finish") /\ Completes("main")

-----------------------------------------------------------------------------
(* shutdown: main() stops the web server, then the workers.  A worker that *)
(* is waiting returns from run(), and queued jobs stay as they are.        *)

RequestStop ==
  /\ ~stopping
  /\ stopping' = TRUE
  /\ UNCHANGED <<jobVars, worker, render, libraryVars>>

-----------------------------------------------------------------------------
Handler ==
  \/ LipSync \/ DialogPreview \/ DialogPreviewExport \/ VoiceFile \/ VoiceTakeAccept
  \/ SpeechGenerate \/ SpeechPublish \/ SpeechPlay
  \/ AnimationRead \/ AnimationSync
  \/ RerenderStart \/ RerenderRead \/ RerenderPublish \/ RerenderEnd
  \/ DialogAssemble \/ DialogLookup \/ DialogWrite \/ DialogPublish
  \/ DialogCount \/ DialogDelete \/ Finish

MainStep == TakeJob \/ Handler \/ LeaveJob("main")

MusicStep == TakeMusic \/ DialogMusic \/ LeaveJob("music")

ClientStep(c) ==
  QueueJob(c) \/ ReserveSlot(c) \/ EnqueueMusic(c) \/ RefuseMusic(c) \/ FailRefused(c)

Next ==
  \/ \E c \in Client, j \in Job : \E kind \in Offered[j] : CreateJob(c, j, kind)
  \/ \E c \in Client : ClientStep(c)
  \/ \E a \in Show : DeleteAnimation(a) \/ \E s \in Sound : SaveAnimation(a, s)
  \/ MainStep \/ MusicStep
  \/ RequestStop

\* A request that has created a job goes on, and handlers return: every call
\* they make has a timeout or ends by itself.
Fairness ==
  /\ \A c \in Client : WF_vars(ClientStep(c))
  /\ WF_vars(MainStep) /\ WF_vars(MusicStep)

Spec == Init /\ [][Next]_vars

FairSpec == Spec /\ Fairness

-----------------------------------------------------------------------------
TypeOK ==
  /\ job \in [Job -> JobState]
  /\ client \in [Client -> [at : {"idle", "submit", "enqueue", "refuse"}, job : Job \cup {None}]]
  /\ queue \subseteq Job /\ musicQueue \subseteq Job
  /\ slots \in Nat
  /\ worker \in [Worker -> [at : Places, job : Job \cup {None}]]
  /\ stopping \in BOOLEAN
  /\ render \in Render
  /\ library \in [Show -> Animation \cup {None}]
  /\ adhoc \subseteq Job /\ sounds \subseteq Sound
  /\ edits \in Nat

\* Music jobs that have a slot: about to be queued, queued or in hand.
InFlight ==
  {client[c].job : c \in {d \in Client : client[d].at = "enqueue"}}
    \cup musicQueue \cup ({Mine("music")} \ {None})

(* Where a job is agrees with what its status says, through refusals,      *)
(* exceptions and the shutdown: a job in a queue is Queued, one in a       *)
(* worker's hand is Running until the handler ends it, and no other job is *)
(* Running; and musicJobsInFlight_ counts exactly the music jobs that have *)
(* a slot, so that none leaks.                                             *)
JobsConsistent ==
  /\ TypeOK
  /\ slots = Cardinality(InFlight)
  /\ queue \cap (musicQueue \cup Taken) = {}
  /\ musicQueue \cap Taken = {}
  /\ \A j \in queue \cup musicQueue : job[j].status = "Queued"
  /\ \A w \in Worker :
       CASE At(w, "waiting") -> Mine(w) = None
         [] At(w, "leave") -> Mine(w) # None /\ Ended(Mine(w))
         [] OTHER -> Mine(w) # None /\ job[Mine(w)].status = "Running"
  /\ \A j \in Job : job[j].status = "Running" => j \in Taken

(* "losing the old file while the new one failed to land would leave the   *)
(* animation pointing at nothing", and "any return or exception removes    *)
(* the new/partial file": every animation in the library has its sound on  *)
(* disk, unless a client saved it with a sound that was at stake; and a    *)
(* render that failed leaves neither a file nor an animation behind.       *)
RendersAreWhole ==
  /\ \A a \in Library : ~library[a].risky => library[a].sound \in sounds
  /\ \A j \in Job \ Taken :
       job[j].kind \in {"dialog", "dialogAdHoc"} /\ job[j].status = "Failed"
         => /\ j \notin sounds \cup adhoc
            /\ \A a \in Library : library[a].sound = j => library[a].risky

(* Liveness: a job that was created ends, unless the workers are stopped.  *)
CreatedEnds == \A j \in Job : job[j].status = "Queued" ~> Ended(j) \/ stopping

\* Refinement mapping: a music job is outstanding while it has a slot.
Admission ==
  [j \in Job |->
     IF j \in InFlight THEN "held"
     ELSE IF \/ job[j].kind # "dialogMusic"
             \/ \E c \in Client : client[c] = [at |-> "submit", job |-> j] THEN "new"
     ELSE "over"]

Service == INSTANCE BoundedService
  WITH Tasks <- Job, Capacity <- MusicSlots, task <- Admission, closed <- FALSE

(* "Returns false without queueing when both slots are already             *)
(* queued/running": music generation is a bounded service.                 *)
MusicIsBounded == Service!Spec
=============================================================================
