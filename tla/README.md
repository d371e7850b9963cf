# creature-server in TLA+

creature-server drives animatronic creatures, lights and sound in real time. This directory models the parts of it
whose correctness depends on the order in which several threads meet: who may drive a creature, what happens to a
performance that is replaced, interrupted or fails, when a playlist goes on, who may send audio, and what the documents,
caches and clients know of each other; and the parts whose arithmetic must agree with itself: how a scene's turns become
sound, mouths and motion on one timeline. Paths below are relative to `src/src/server/` unless they say otherwise.

## The system

One process, with these threads: the **event loop** (a 1 ms tick that runs scheduled events one after the other),
**REST** threads (oatpp), **websocket** threads (live stream frames), the **audio load executor's** workers, the
**RTP output worker**, the **RTCP reporter**, the **job worker**, the **local audio worker**, one **playback thread** and one
**task per sentence** for each streamed speech, the client cafe and a watchdog. They meet in a few
mutex-protected objects; none of the operations that matter to a viewer is a single critical section.

| Component | State it keeps | Operations | Interacts with | What makes it correct |
|---|---|---|---|---|
| SessionManager (`animation/SessionManager.cpp`) | per universe: active sessions, playlist state, snapshot, resume choice, animation queue | register, interrupt, interruptIdleOnly, cancel, clear, abort, playlist start/stop/resume/clear, queue push/pop | called by everything below | a creature or fixture is driven by one live session; playlist states move along legal edges; a resume choice serves one interrupt; a queue is not lost |
| Cooperative scheduler (`animation/CooperativeAnimationScheduler.cpp`) | none of its own; builds sessions and their callbacks | schedule, async load, unwind, onStart/onFinish | SessionManager, loader, event loop, CreatureService | every adopted session is eventually torn down, once |
| Playback runner (`eventloop/events/playback-runner.cpp`) | the session's completion claim | emit frames, teardown, finish | scheduler's callbacks, CreatureService | completion is claimed by one runner whichever comes first |
| Playlist event (`eventloop/events/playlist.cpp`), PlaylistService | one pending event per chain | choose, schedule, chain, defer, stop | SessionManager, scheduler | an active playlist goes on; only a start activates one |
| CreatureService (`ws/service/CreatureService.cpp`) | per creature: activity, generation, idle flag; streaming registry | activity writes, idle start, idle toggle | everyone | the broadcast activity is that of the session that drives the creature |
| StreamFrameHandler (`ws/messaging/`) | streaming deadlines, pending-timeout gate | frame, timeout | CreatureService, SessionManager | a stream that stops expires; a live one does not |
| AudioLoadExecutor (`rtp/`) | bounded queue, reservations, in-flight count, cancellation notices | reserve, submit, release, worker loop, shutdown | scheduler | in-flight work is bounded, slots are neither lost nor duplicated, shutdown ends |
| RTP output (`rtp/MultiOpusRtpServer.cpp` and its headers) | lease generation, ready generation, command queue, failure tracker, terminal ring | acquire, release, enqueue, worker, breaker | loader threads, event loop | one owner's frames at a time, never an older one's after a newer one's; a failure is never read as a delivery |
| Standalone music (`eventloop/events/music.cpp`) | one admission reservation, the sample clock | request, load, prime, a chain of frame events | RTP output, event loop | one sound at a time; packets keep their place in time, however late the loop |
| RTCP (`rtp/RtcpSender.cpp`) | the session, its counts and clock mapping; the reporter's flags | begin, record, end, discard, report | RTP output worker | reports say what was sent, on the clock it was sent by; nothing is slept through |
| Local audio (`audio/`) | one playing and one pending request, statistics, the device and its keepalive | submit, replace, stop, play, keep alive, shutdown | scheduler, music event, main | the latest submission wins; every request ends in one terminal status; one sound on the device at a time |
| Fixtures (`fixture/`, `ws/service/DmxFixtureService.cpp`) | running patterns, live overrides, armed tick, bindings' last activity | trigger, preview, live, assign, delete, tick, auto-stop, activity edge | activity hook, event loop | a driven light is rendered, a released one is dark, a bound pattern follows its creature |
| Jobs (`jobs/`) | job table, two queues, music slots | create, queue, refuse, take, one handler per kind, complete, fail | animation library, sound files, dialogs | a job ends once and is where its status says; a render leaves a whole animation or nothing |
| Dialog scripts (`script/`, `voice/`, `ws/controller/Dialog*.h`) | the script document, the mutation lock, takes in three places, music | edit, delete, accept, clear, compose, promote, preview, render | job worker, music worker, cron sweeps | edits are not lost to each other; the take a person approved is the one that plays |
| Documents (`database.cpp`, `storage/`, `*/upsert.cpp`, `util/cache.h`, REST controllers) | one collection per kind, object caches, universe maps, the clients' lists | upsert, delete, assign, read through a cache, announce | every service, event loop, clients | memory agrees with the database; a client whose list is outdated is told; an animation that is not stale moves for its stage as it is |
| Streamed speech (`voice/StreamingAdHocSession.cpp`) | sentences, their futures and promises, the exchange record | start, add text, render, play, finish | SessionManager's queue, job files | what is recorded is what was rendered and heard, in order; finish returns |
| Speech service (`voice/StreamingTTSClient.cpp`, `voice/TextToViseme.cpp`) | a request's buffers and what it heard | connect, frames, lines, cues | streamed speech, dialogs | what was said is heard once, in order |
| Scenes (`voice/DialogPipeline.cpp`, `DialogWav.cpp`, `GazeTrack.cpp`, `SpeechTrackBuilder.cpp`) | a scene's chunks, lanes, words and tracks | resolve, chunk, generate, assemble, join, film | jobs, speech service | audio and marks move together; heads and bodies do not jump |
| Sounds (`ws/controller/SoundController.h`, `ws/service/SoundService.cpp`, `voice/Whisper*`, `util/AudioCache.cpp`, `util/Ixml*`) | sound files, sidecars, cached encodings, one recognizer | serve, render, transcribe, sync, encode, tag | jobs, loader, REST | an answer is about the file asked for; a torn or stale encoding is never played; tags are read as written |
| Connections, sensors, metrics, watchdog, GPIO, E1.31, configuration | connections, counters | - | - | see "Not modelled" |

Hard behaviour: everything is asynchronous (a session is adopted on one thread, loaded on a second, played on a third and
cancelled from a fourth); a canceller flags a session and relies on others to notice; failure can strike after
adoption when no runner will ever fire; events of one frame run in no particular order; a playlist's continuation
hangs on the finish of whatever happens to play; a document is read minutes before it is written back; files are
replaced while they are encoded, served or listened to; and times are kept in samples, frames, milliseconds and packets
at once.

## Modules

| Module | Role |
|---|---|
| `SessionManager.tla` | The session registry: one action per critical section of each method; an interrupt is its two sections and its rollback. |
| `MCSessionManager.tla` | Instance: creatures, a fixture, animations with every kind of overlap. |
| `Playback.tla` | Scheduler, loader, runner, playlist events, activity and requests around the registry: threads with program counters. EXTENDS `SessionManager` and uses its actions as its critical sections. |
| `PlaybackProofs.tla` | TLAPS proofs about the registry, about the running system, and that the second implements the first. |
| `SettlingProofs.tla` | TLAPS proof that the running system settles right: what is said of creatures, who ends an interruption. Builds on `PlaybackProofs`. |
| `MCPlayback.tla` | Instance: one universe, two creatures, a solo, a sound, a broken animation and idle loops. |
| `AudioLoadExecutor.tla` (`...Proofs`, `MC...`) | The loader pool: admission, reservations, bounded queue, notices, workers and their condition variable, shutdown. |
| `RtpOutput.tla` (`MC...`) | One RTP output and its playbacks: leases, command queue, worker, circuit breaker, and the event handlers that read a released lease. |
| `FixturePatterns.tla` (`...Proofs`, `MC...`) | Patterns, overrides, the shared tick, auto-stops and the activity bindings of light fixtures. |
| `StreamTimeout.tla` (`MC...`) | How a live stream ends: deadline, pending gate, the event that chases the deadline. |
| `LocalAudio.tla` (`MC...`) | The last-request-wins coordinator, the playback service, the device's queue, the keepalive thread and main's shutdown order. |
| `AudioOutputProofs.tla` | TLAPS proofs about the two ways sound leaves: about `RtpOutput` (`Spec`) and about `LocalAudio` (`LocalSpec`). |
| `DialogScripts.tla` (`MC...`) | One script document with its accepted take and music: handlers, locks, sweeps, restarts, renders. |
| `Jobs.tla` (`...Proofs`, `MC...`) | The job table, two queues and workers, music slots, and what each handler leaves in the library and among the sounds. |
| `Library.tla` (`MC...`) | The documents, what memory keeps of them and what clients are told: a request of each kind is a program of database calls, cache puts and announcements. |
| `DocumentsProofs.tla` | TLAPS proofs about the stored documents: about `DialogScripts` (`ScriptsSpec`) and about `Library` (`Spec`). |
| `Speech.tla` (`MC...`) | Streamed speech: an agent's requests, sentence tasks and promises, the playback thread, the exchange record. |
| `StreamsProofs.tla` | TLAPS proofs about what arrives piece by piece: about `StreamTimeout` (`Spec`) and about `Speech` (`SpeechSpec`). |
| `TtsStream.tla` | One request to the speech service, over a WebSocket or HTTP, and the mouth cues made of it. |
| `Scene.tla` | From a dialog's turns to lanes, words and mouths on one timeline. |
| `Performance.tla` | One creature's body, beak and head during a scene. |
| `Sounds.tla` | Sound files in two stores: served, rendered, transcribed, moved. |
| `AudioCache.tla` | The store of encoded sounds under replaced files, failed writes and crashes. |
| `WavTags.tla` | What a rendered file says of itself: written, grown, read back. |
| `Standalone.tla` | A sound that is played by itself over RTP, on an event loop that may be late. |
| `RtcpReports.tla` | The sender reports on what is sent. |
| `Media.tla` (`MC...`) | The eight machines before this row (from `TtsStream` on) share no variables; a behaviour of `Media` is a behaviour of one of them, so that one instance checks them all without multiplying their states. |
| `BoundedService.tla` | Abstract: tasks are admitted while fewer than a capacity are outstanding and refused only otherwise. `AudioLoadExecutor` and `Jobs` implement it. |

Some modules hold, beside the translation of an operation, a faulty variant of it, commented as such ("Mutant of ..."): each names a
plausible error of that code and breaks one property of the module's run.

### SessionManager

`sessions` is the sequence of all sessions ever constructed; a session's number is its id and, because adoption draws
it under the registry mutex, its activity generation (`PlaybackSession::activityGeneration`). A record keeps what other
threads can see of the `PlaybackSession`: universe, animation, reason, the outputs it drives, its `cancelled` and
`cancellation notified` flags. `active[u]`, `playlistState[u]`, `playlistStatus[u]`, `shouldResume[u]` and `queue[u]` are the
fields of `UniverseState`. `RegisterSession` evicts exactly the live sessions that overlap the new one, or all of them
when the caller took the whole universe. `CurrentSession(u, s)` says that `s` is the newest live session, the one
`getCurrentSession` returns.

### Playback

A thread is a record: the place between two critical sections at which it stands (`pc`), the session, animation and reason
it works on, where `scheduleAnimation` returns to, the victims it still has to notify. Each action is one critical
section or one read whose result is used later, so every interleaving of the real threads' sections is explored.

| Code | Actions |
|---|---|
| `scheduleAnimation` | `ScheduleConflict`, `ScheduleNoSlot`, `ScheduleBroken`, `ScheduleAdmitted`, `ScheduleRegister`, `NotifyVictim`, `ScheduleRunning`, `ScheduleStart` |
| async load | `ScheduleSubmit`, `ScheduleSubmitRejected`, `LoaderTake`, `LoaderLoaded`, `LoaderPublish`, `LoaderFail`, `Unwind`, `UnwindAbort`, `UnwindReplaced`, `Unwound` |
| `PlaybackRunnerEvent` | `RunnerLate`, `RunnerCancelled`, `RunnerFinished`, `RunnerFailed`, `ClearCancelled`, `CancelledDone`, `RunnerAfter`, `RunnerToIdle` |
| the onFinish callback | `OnFinish`, `FinishCancelled`, `FinishClear`, `FinishQueued`, `FinishNothingQueued`, `FinishInterrupted`, `FinishConsume`, `FinishResumed`, `FinishChain` |
| `PlaylistEvent` | `TakePlaylistEvent`, `PlaylistBusy`, `PlaylistChoose`, `PlaylistUnreadable`, `PlaylistRetry`, `PlaylistBackstop`, `PlaylistUpdateStatus`, `PlaylistClear` |
| REST and websocket requests | `Request...`, `Start...`, `Stream...`, `SetIdle...`, `InterruptFailed` |

`Playback` is a refinement: under the identity mapping each of its steps is a step of `SessionManager`'s `Spec` or leaves
the registry alone. `MCPlayback.cfg` checks `Spec` as a property of `PlaybackSpec` on the instance, and `PlaybackUsesTheRegistry` proves it for
every instance; so what is proved of the registry for any caller holds with these callers.

### AudioLoadExecutor

A job is a load that asks for admission; `phase[j]` follows it to one of its ends: it ran, it was taken out cancelled, or
it never got in. `reservations` and `inFlight` are the code's counters, `holds[t]` the `Reservation` object in a thread's hands
(a token: destroying it gives the slot back), `notices` the pending cancellation notifications, `accepted` numbers the
commits and so orders the queue. The condition variable is not abstracted: a worker that found nothing is `asleep`, a
notification (`waking`, `NotifyOne`, `NotifyAll`) is sent after the mutex is released and wakes one sleeper or is lost, so that a
missing notification would show as a queued job nobody takes.

| Code | Actions |
|---|---|
| `tryReserve` | `Reserve`, `ReserveFull`, `ReserveStopping` (each with the pruning of cancelled jobs), then `NotifyOne` |
| `submit`, `~Reservation` | `Submit`, `DropReservation` |
| `workerLoop` | `Sleep`, `TakeNotice`, `TakeJob`, `Exit`, `Check`, `Skip`, `RunEnds`, `Recovered`, `Settle` |
| `shutdown` | `RequestStop`, `Close` (its wait for outstanding reservations is the guard), `NotifyAll`, `Join` |

Jobs are numbered in the order in which they ask, which is no restriction: they do not differ otherwise. A cancellation
after the worker's `isCancelled()` check is left out because the executor never looks again. `submit`'s branch for a stopped
executor has no action: `CommitIsAccepted`, a part of `ExecutorConsistent` that is checked and proved, says no token is left when the queue has been closed. A failed
load may schedule again from the worker itself (`failed`), as idle playback does when its audio cannot be read.

### RtpOutput

`queue` holds the commands by the turn at which they were pushed, so that a command is known by its turn for as long as it waits; `next`, `active` and `ready` are the coordinator's and the server's atomic words; every load, compare-and-swap and critical
section is an action of its own, because loader threads and the worker run between any two of them. What the code does
under `RtpOutputCoordinator`'s mutex while sending is the worker's place `inside`; `Acquire` and `PurgeOthers` wait for it,
`Release` does not. `player[p]` is a playback: its `stage`, its generation, the spot at which its handler stands and the outcome
that was reported for it. `loop` names the playback whose handler runs: the event loop finishes it before another starts.

| Code | Actions |
|---|---|
| `acquireOutput` | `Acquire`, `PurgeOthers` |
| `RtpEncoderResetEvent`, `RtpSilentFrameEvent` | `BeginPriming`, `Push`, `PushRejected`, `Release`, `Purge` |
| `RtpAudioTransport::start`/`dispatchNextChunk`/`stop`, `StandaloneRtpFrameEvent` | `BeginTick`, `CheckCurrent`, `Recheck`, `Enqueue`, `SkipTail`, `Push`, `PushRejected`, `Release`, `Purge`, `Cancel` |
| `StandaloneRtpCompletionCheckEvent` | `BeginCompletionCheck`, `CheckCurrent`, `CheckOwned`, `Recheck` |
| the loader's check after acquiring | `LoaderAbandons` |
| `runOutputWorker`, `processOutputCommand` | `Pop`, `Enter`, `Discard`, `Reset`, `SendSucceeds`, `SendFails`, `Acknowledge` |
| `handleCommandException`, `tripCircuitBreaker` | `ResetThrows`, `Publish`, `Break`, `Drop` |

Sends succeed or fail at any time. The one-second buckets of the failure window are abstracted: a window that has
collected `WindowTrips` failures may trip or may have forgotten some of them, a run that has reached `RunTrips` must trip.
One silent frame stands for the priming sequence. An isolated failure of the final frame is a delivery with loss, by the
code's own rule, and counts as answered. `DeliveredIsAnswered` says how far the terminal ring reaches: a failure is remembered until as
many newer generations have been claimed as the ring has places. Left out: the server's start and stop, and spans; RTCP is `RtcpReports`',
the sample clock and the standalone playback's admission `Standalone`'s.

### FixturePatterns

`active[f]` and `live[f]` are the runner's two maps, `armed` its `tickArmed_`, `ticks` and `stops[f]` the events in the loop, `lastSeen` and
`lock` the dispatcher's memory and per-creature mutexes. A thread (`caller[t]`) carries the job it is on and the place between
two sections. Channel bytes are reduced to `lit[f]`, the universes on which the fixture was last sent something other than
zeros; `left[f]` is history: universes it was moved away from while lit, which nobody will ever darken.

| Code | Actions |
|---|---|
| `triggerPattern`, `previewPattern` | `Trigger`, `Preview`, `CheckLive`, `Install`, `ToArm`, `TryArm`, `ScheduleTick`, `AfterArm`, `ScheduleAutoStop` |
| `setFixtureLive` | `Live`, `SetLive`, `TryArm`, `ScheduleTick` |
| `onCreatureActivity` | `Report`, `Edge`, `ScanFixture`, `BindingStarts`, `BindingStops`, `ScanDone` |
| `FixturePatternTickEvent` | `TickBegins`, `Tick`, `TickRearms`, `TickReschedules` |
| `advancePattern`, live expiry | `PhaseDue`, `LiveDue` (frames go by), `Rendered`, `Ends` |
| `AutoStopEvent`, assignment, deletion | `AutoStop`, `SetUniverse`, `DeleteFixture`, `ForgetUniverse` |

### StreamTimeout

`thread[t]` is a websocket thread inside `StreamFrameHandler::stream`: `MarkStreaming`, `Announce`, `ReadFrameNumber`, `ExtendDeadline`, `PassGate`,
`ScheduleTimeout`. The loop executes `StreamingTimeoutEvent`: `AlreadyGone`, `Chase` and `ScheduleChase`, or `Expire`, `ClearStreaming`,
`TellStopped`. The two records of who streams, `registry` and `running`, are written in different sections, and the deadline in a third.
What a frame does to sessions and playlists is in `Playback`, where a stream may expire at any time.

### LocalAudio

A request is its generation. `thread[t]` gives the place, the request in hand and its outcome for each of client, worker and main;
`reason`, `status` and `notified` are the request's own fields, `count` the statistics. `device` is the queue of an ALSA device: one
element per chunk, labelled with the request it belongs to or with `Silence`.

| Code | Actions |
|---|---|
| `submit`, `Handle::stop`, `finish` | `Submit`, `SubmitRejected`, `Stop`, `CountOutcome`, `PublishOutcome`, `Notify` |
| `workerLoop` | `Woken`, `Sleep`, `Take`, `Check`, `Settle`, `Leave` |
| `playFile`, `finishPlayback` | `OpenFile`, `ClearDevice`, `Feed`, `WriteChunk`, `TimeOut`, `FinishPlayback`, `Restore` |
| `keepaliveLoop` | `Look`, `KeepAlive` |
| shutdown, in main's order | `Shutdown`, `JoinWorker`, `KeeperLeaves`, `CloseDevice` |

### DialogScripts

`script` is the document (turns, `updated_at`, accepted take, music), replaced whole by every write. A take is a model value, made for the
turns `KeyOf[take]`: the cache key is a hash of the turns. An acceptance names a take and, apart from it, the turns it is claimed for. `cached`, `adhoc`, `promoted`, `durable` say in which of its four places a take is;
`Sweep` empties the first two as the cron job does. `actor[a]` is a handler between its reads and writes: HTTP threads, the job worker
and the music worker. Places between a locked handler's read and write are `LockedPlaces`. `ScriptsRestart` drops every handler and the queue and
keeps documents and files. `PublishFails` is a write that throws.

| Code | Actions |
|---|---|
| `updateDialogScript`, `clearDialogBackgroundMusic`, `deleteDialogScript` | `BeginLocked`, `UpdateScript`, `CommitUpdate`, `ClearMusic`, `CommitClearMusic`, `DeleteScript` |
| `DialogMusicService` | `ComposeMusic`, `SaveMusic`, `PromoteMusic`, `CommitMusic` |
| `acceptVoiceTake`, `handleVoiceTakeAcceptJob` | `AcceptTake`, `AcceptRead`, `AcceptExport`, `AcceptStore`, `DemoteOutgoing`, `PromoteTake`, `PublishAccepted` |
| `clearAcceptedVoice` | `ClearVoice`, `DemoteCleared`, `PublishCleared` |
| preview, render gate, `handleDialogJob` | `PreviewTurns`, `PreviewLoad`, `PreviewExport`, `RenderScript`, `RenderTake`, `TakeJob`, `RenderRead`, `RenderLoad`, `ReuseOrGenerate`, `RenderDone` |

### Jobs

`job` is `JobManager`'s table, `client[c]` a request between creating a job and queueing it, `queue` and `musicQueue` the two queues, `slots` the counter
`musicJobsInFlight_`, `worker` the two threads. The main worker's handlers are modelled by every read and write of shared state they do:
`library` (animations: scene and sound), `adhoc` and `sounds`; `render` holds the handler's locals. A render names its WAV after its job, so a job
stands for its sound. An animation that a client saves with a sound that a job in progress may delete is marked `risky` (history).

| Code | Actions |
|---|---|
| controllers, `queueJob`, `tryQueueMusicJob` | `CreateJob`, `QueueJob`, `ReserveSlot`, `EnqueueMusic`, `RefuseMusic`, `FailRefused` |
| `run`, `runMusicJobs`, `processJob` | `TakeJob`, `TakeMusic`, `LeaveJob`; `Fails` is the catch-all, possible wherever a handler can throw or return early |
| `handleDialogJob` | `DialogAssemble`, `DialogLookup`, `DialogWrite`, `DialogPublish`, `DialogCount`, `DialogDelete`, `Finish` |
| `handleAdHocSpeechJob` | `SpeechGenerate`, `SpeechPublish`, `SpeechPlay` |
| `handleAnimationLipSyncJob`, `handleStageRerenderJob` | `AnimationRead`, `AnimationSync`; `RerenderStart`, `RerenderRead`, `RerenderPublish`, `RerenderEnd` |
| the other handlers | one step each: they touch nothing that another actor of this model sees |
| clients | `SaveAnimation`, `DeleteAnimation` |

### BoundedService

Refined by `AudioLoadExecutor` (a load is outstanding while somebody holds a token for it, it is queued or a worker has it; pruned jobs are
cleared away by the step that admits the next one; shutdown is `Close`) and by `Jobs` (a music job is outstanding from its compare-exchange
until the music thread has returned from it). Both mappings are called `Admission`.

### Library

A document is a record of what the properties tell apart: the number of the request that made its content, its universe,
and for an animation the geometry it moves for (`rendered`) and the provenance that says so (`stamp`). `Request[kind]` gives
the document a request is about and its steps, composed from the same pieces as the code's functions call each other; each
step of a thread is one database call, one cache operation or one announcement, and every other thread runs between them.

| Code | Actions |
|---|---|
| handlers of 30 kinds (`*/upsert.cpp`, `storage/Storage.cpp`, `ws/service/*`, controllers, `JobWorker`'s renders) | `Begin`, then the steps of `Request[kind]` |
| database calls | `Find`, `Check`, `Backfill`, `Carry`, `ReadStage`, `ReadNoStage`, `Replace`, `Update`, `Delete`; `DatabaseFails`, `NotFound` end the request |
| `util/cache.h`, universe maps, the assignment mutex | `Lookup`, `Cache`, `Uncache`, `Assign`, `Lock`, `Unlock` |
| cache invalidation and its event, clients | `Announce`, `Tell`, `Join`, `Leave` |
| TTL of ad-hoc documents, restart | `Expire`, `Restart` |

`suspect` is history: where two requests may have left a disagreement, because the last step that touched it ran beside another
request with which it shares no lock. An entry leaves it when a request that ran alone settles the matter.

### Speech

`client[s]` is the agent's request (`StreamingAdHocSessionManager`), `player[s]` the playback thread, `task[s][n]` the asynchronous task
of a sentence or what its future holds, `offsets` and `ids` the two promises a sentence keeps for the next, `air` and `queue` the
universe's current performance and queue as far as speech sees them, `exchange` the record that `finish()` writes.

| Code | Actions |
|---|---|
| `start`, `addText` | `Start`, `StartFails`, `AddText`, `PushFuture`, `Notify`, `WakePlayer` |
| `finish` | `FinishEmpty`, `BeginFinish`, `NotifyFinished`, `FinishExchange` |
| a sentence's task | `Asks`, `Speak`, `SpeakFails`, `Wrap`, `WrapFails`, `WrapThrows`, `Build`, `Publish` |
| the playback thread | `Look`, `Sleep`, `WakeSpuriously`, `Get`, `GetThrows`, `Interrupt`, `QueueNext`, `Note` |
| the universe | `AirEnds`, `AirAborts`, `AirTaken` |

### TtsStream, Scene, Performance

`TtsStream` follows one answer of the speech service, which may stop at any moment. Messages have sizes in pieces; a WebSocket
message arrives in frames with control frames between its fragments, an HTTP body is cut anywhere.

`Scene` counts time in samples, and a sample of a lane is named by the chunk and place it was cut from, so that sound and marks can be
compared. A render assembles each chunk and joins the results; an accepted take joins the recordings first. `Performance` is
one creature's film, frame by frame; angles are bytes of an axis and the floor of the scene is computed from all mouths.

| Code | Actions |
|---|---|
| `StreamingTTSClient`'s socket | `Refuse`, `ConnectWebSocket`, `SendTextFrame`, `DataFrame`, `ControlFrame`, `OversizedFrame`, `StreamEnds` |
| its HTTP request | `PostRequest`, `BodyArrives` (`WriteCallback`), `ResponseEnds`, `ResponseFails` |
| `TextToViseme` | `Finish`: cues from characters or words |
| `DialogPipeline`, `DialogPreviewAssembly`, `DialogWav` | `Resolve`, `ChunkTurns`, `Generate`, `JoinTake`, `AssembleChunk`, `ConcatChunks`, `LoadMusic`, and a failure of each |
| `SpeechTrackBuilder` | `ChooseLoops`, `Film` |
| `GazeTrack` | `FindFloor`, `NoStage`, `Watch`, `Settle`, `PlanMove`, `Planned`, and `HeadAxis` with `Arm` while filming |

### Sounds, AudioCache, WavTags

A file of `Sounds` is a recording and the number of its blocks on disk; a file that is being rendered grows in place. A permanent
name is given to one recording (`RecordingOf`), names being made of the job or generation that made it. In `AudioCache` the content of a
file is its checksum; an entry is a marker and one file for each channel. In `WavTags` a text is a sequence of characters and a document
a sequence of tags and characters; the writer is translated as the writer, the reader as the reader, and the property relates them.

| Code | Actions |
|---|---|
| files | `BeginFile`, `AppendBlock`, `PutFile`, `RemoveFile`, `MoveTake` |
| serving (`ControllerUtils.h`, `SoundController.h`) | `AskFor`, `SizeFile`, `OpenFile`, `SendBlock`; `LoadWav`, `ReadTags`, `RenderFails`; `RequestEnds` |
| lip sync and transcripts | `AskForCues`, `UploadSound`, `AskForWords`, `LoadAudio`, `Infer`, `InferFails`, `ReadSegments`, `WriteCues`; `RunRhubarb`, `ReadCues` |
| `AudioStreamBuffer`, `AudioCache` | `BeginLoad`, `Look`, `LookMisses`, `Match`, `MatchFails`, `Encode`, `EncodeFails`, `Stamp`, `StampFails`, `WriteChannel`, `WriteMarker`, `WriteFails`, `EndLoad`; `Replace`, `Crash` |
| `IxmlWriter`, `IxmlReader`, provenance JSON | `Render`, `SaveTags`, `WriteFile`, `ReadProvenance` |

### Standalone, RtcpReports

`Standalone` keeps the scheduled events as a set with their frames; the loop counts frames (`CountFrame`) and executes what is due, and a loader
may have been held up for up to `MaxDelay` frames. `RtcpReports` has the sections of the sender's mutex as actions, called where the output calls
them; who may send is `RtpOutput`'s.

| Code | Actions |
|---|---|
| request, `MusicEvent`, loader | `PlaySound`, `Music`, `Load`, `FixStart`, `ScheduleReset`, `ScheduleFirst`, `LoaderFails` |
| events of a sound | `Prime`, `FrameEnds`, `Frame`, `CheckGivesUp` |
| output worker, other owners | `Send`, `Trip`, `OtherAcquires`, `OtherReleases` |
| the output as RTCP sees it | `Acquire`, `Acquired`, `ReleaseLease`, `Released`, `Rotate`, `Rotated`, `RotationFails`, `SendFrame`, `Notify`, `Shutdown` |
| the reporter | `LookForSession`, `WakeEarly`, `WakeInTime`, `SendReport`, `Tick` |

## Runs

| Run | Question | Result |
|---|---|---|
| `session_manager` | Do the registry's invariants and transition rules hold whatever its callers do? | 596 050 states |
| `playback` | Sessions are played, interrupted and queued while loads and sends fail, or playlists are started, stopped, interrupted, followed by queued speech and streamed over: does each session end once, is none forgotten, is the activity right afterwards, does a playlist go on? Refinement of the registry. | 1 433 981 states |
| `audio_loader` | With cancellations, failures that schedule again and a shutdown: are slots counted exactly, is a load refused only at the bound, is a token always honoured, is a job told once, is no wake-up lost, does shutdown end? | 273 071 states |
| `rtp_output` | Two playbacks compete while sends fail: does the wire carry only the newest owner, after its reset, is a trip ever read as a delivery, is a queued final frame always answered? | 1 120 123 states |
| `fixture_patterns` | Two threads, two creatures, one fixture: is a driven light always about to be rendered, is a released one dark, does a bound pattern outlive its reason, does what must end go off? | 783 624 states |
| `stream_timeout` | Frames on two threads against the expiring event: is there always exactly one timeout, is no stream cut short, does a stream whose frames stop expire? | 129 596 states |
| `local_audio` | Three requests, stops, failures, timeouts and a shutdown: is each settled once and counted as it ended, does only the newest start, does the device hold one sound? | 332 752 states |
| `dialog_scripts` | Edits, acceptances, music, renders, sweeps, restarts: are locked edits kept, does an acceptance land on the turns it was asked for, does the accepted take play? | 1 294 380 states |
| `jobs` | Renders, re-renders, re-syncs and music against clients and a shutdown: is a job where its status says, do slots leak, does an animation keep its sound, does a failure leave nothing, does each job end? | 474 740 states |
| `library` | Requests of all kinds overlap while calls fail, clients come and go and the server restarts: does memory agree with the database, is a client whose list is outdated told, does a fresh animation move for its stage as it is? | 2 023 221 states |
| `speech` | One agent's three sentences under every failure, or two agents on one universe: is the record what was rendered and heard, in order, and does finish return? | 311 738 states |
| `media` | Eight machines: is what was said heard once, do marks stay with their audio, does no servo jump, is an answer about the file asked for, are tags read as written, does a sound keep its time on a late loop, do reports say what was sent? | 1 047 908 states |

No run expects a violation. Where the code does other than what a reader of its documents or comments would expect, the models
contain it, and the properties name the exception; the departures are these.

Playback and output:

- A playlist event writes back the snapshot it read earlier and revives a playlist that was stopped meanwhile (`SessionManager.cpp:759`); one that
  read a stopped status clears the playlist that was started since. `PlaylistTransitions` has both steps as legal ones.
- Starting a playlist cancels a session that is still loading past the registry; nobody is left to tear it down, which is why
  `NoSessionForgotten` is not asked of workloads with starts.
- When one member of a duet is taken over, the other one's activity stays running. So does the activity of a session that was cancelled between its
  adoption and its running broadcast, when no later session comes to correct it.
- A playlist can be left active with nothing to carry it on, in the four ways `NoStrandedPlaylist` exempts: its event died before another's
  session (only a playlist's own finish chains), an interruption failed after the event or the chain had seen it (the rollback schedules
  no event), speech queued behind the playlist's own animation took over that animation's finish
  (`CooperativeAnimationScheduler.cpp:924`: the queue is looked at first and returns, and the speech's finish does not chain), or another
  performance cancelled its own session. As long as one of its events is pending, it goes on.
- Queued speech that is refused (`CooperativeAnimationScheduler.cpp:933`) ends its finish without consuming an interruption. Behind an
  interrupting animation that leaves the playlist parked, until another session of the universe ends by itself.
- An interrupt whose animation then fails leaves the playlist parked as interrupted. The resume choice of an interrupt is consumed by
  any session of the universe that ends by itself while the playlist is interrupted, although `src/docs/cooperative-scheduler.md` says
  the interrupt's end resumes it.
- Switching idle playback, and a stream, overwrite a creature's activity without asking which session owns it.
- When the breaker trips between a handler's lease check and its enqueue, the enqueue's `StaleLease` is reported as a benign supersede
  (`RtpOutput!TripIsNoSupersede` does not hold). A standalone playback so late that its whole tail is skipped releases its own lease, which purges
  the frames still queued, and then reports itself played (outcome `cut`).
- A `MusicEvent` without a reservation has no caller, although it is handled.
- At shutdown the event loop is told to stop and not joined, and the web server's stop is a flag: handlers may still run against components
  that are being destroyed. The models of components with a shutdown start at the component's own `shutdown`.

Fixtures and streams:

- A fixture can have a pattern and an override at once (`LiveExcludesPatterns` does not hold: `start` looks at the override in one section
  and installs the pattern in another), although `src/plan/dmx-fixture.md` calls them mutually exclusive.
- Clearing a fixture's universe and deleting a fixture do not tell the runner; a deleted fixture's pattern burns on. The dispatcher's stop
  and an auto-stop end whatever pattern runs, not the one they were meant for; so of two bindings of one fixture, the one handled last may
  stop the pattern the first has just started.
- A stream's activity may be shown as stopped while the registry has it streaming again. A frame between the expiry decision and the removal leaves
  its creature out of the registry until the next frame; `StreamsExpire` has it released all the same if none comes.

Local audio: a request that fails or times out while it is being replaced is counted under both; after a failed restore of the keepalive
the device stays silent until the next request.

Dialogs:

- A render gated by an acceptance that is cleared before the worker reads the script again renders audio nobody approved
  (`OnlyAcceptedReachesBirds` does not hold).
- A take whose WAV is ready is accepted on the client's word: the request compares the `dialog_cache_key` it was sent with the current turns and
  finds the WAV by `generation_id` alone (`DialogVoiceController.h:131-164`). A take of other turns, sent with the current key, is stored as a take of the
  current ones, although the comment at line 126 has it refused; only the 202 branch looks the take up under its key. What renders load is looked up by
  both, so such a take fails to render and is never played for another (`RendersAcceptedTake`).
- A take whose WAV is ready is accepted at once (`DialogVoiceController.h:222`) and copied by nobody; only the job copies one
  (`JobWorker.cpp:2919`), although `DialogCache.h:94` has accepted takes copied under the permanent root. The next sweep loses the first kind.
- Accepting and clearing hold no lock: they overwrite concurrent edits and can bring a deleted script back. Two acceptances can
  leave two takes under `dialog/voice`.
- An acceptance that fails after the outgoing take was demoted leaves the script pointing at a file that has moved (`JobWorker.cpp:2925-2962`).
- Clearing leaves the durable copy. The comment that a missing accepted take fails loudly has no check behind it (`JobWorker.cpp:1319-1322`).

Jobs:

- A job failed by an exception is not announced (`JobWorker.cpp:297-301`), although `src/docs/architecture/job-system.md` says failures are; the same
  document promises an expiry after an hour (`cleanupOldJobs` has no caller) and one job at a time (music has its own thread).
- Queued jobs are neither run nor failed at shutdown. Queue order is that of each producer, not of creation.
- Ad-hoc speech that fails after publishing leaves its animation and temporary files (`JobWorker.cpp:1003-1017`).
- Between counting the users of a superseded sound and deleting it a client may save an animation with it (the `risky` exception of
  `RendersAreWhole`); the count does not look at scripts' accepted takes.
- Lip sync and re-render publish the document they read long before: a client's edit in between is lost and a deleted animation comes
  back (`JobWorker.cpp:574`).

Documents:

- An upsert or a deletion of a fixture does not take the mutex of assignments: racing one, it may leave the runtime map with a universe that
  the database no longer has. The comment at `DmxFixtureService.cpp:252-256` holds only without such a race.
- A cache put may overtake a later write of the same document and stay until the entry is replaced.
- A dialog job whose stage cannot be read renders without aiming and without provenance, and publishes under the scene's earlier animation:
  `animation/upsert.cpp:153` then carries the earlier stamp forward, so motion made for no stage is not listed as stale
  (`AnimationMetadata.h:43`). A client that saves an older copy without provenance has the same effect.
- Two edits of a stage within one millisecond have one `updated_at` (left out). The expiry of ad-hoc documents announces nothing.
- A client that is joining may miss what is announced before it is in the list of connections; it fetches its lists afterwards.

Streamed speech:

- If a sentence is spoken and its WAV cannot be written, it has kept one promise and not the other: the next sentence waits for ever, and
  `finish()` with it (`StreamingAdHocSession.cpp:535`; `src/docs/exchange-export-plan.md` has all parts exist before finish returns). `finish()` may also notify between the playback
  thread's look and its sleep and is then not heard. `FinishReturns` names both.
- A `create_directories` that throws leaves a task's exception in the future and, rethrown on the playback thread, ends the server.
- If the first sentence fails the later ones are queued behind whatever plays; a sentence that is late stays queued after the air
  fell silent; another exchange's left-over queue interleaves with this one's.
- Sentences are synthesized one after the other, since each waits for the request id of the one before, although the header calls
  them parallel. `finish()` without sentences leaves the record "streaming"; the result of publishing an animation is ignored; a duration
  estimated from PCM divides by 88 200 bytes a second where the audio has 48 kHz.

The speech service: the last line of an HTTP body without a newline is heard twice (`StreamingTTSClient.cpp:902-906`; `HeardIsWhatWasSaid` excludes it). A
connection lost in the middle is answered as a success with what was heard so far; audio in the message that says it is the last is
dropped; damaged audio is skipped while its marks are kept.

Scenes and performances: a turn that does not end in a mark runs on into that voice's next turn; creatures that share a voice are merged onto
the first one's lane. The settling of a cocked head takes twice the travel that was planned for it, so the cock may not be home at the end;
a move armed during a sweep holds the head still until its reaction time is over; without an idle loop the body snaps to the first frame
of speech.

Sounds:

- A served file is sized before it is opened; `ControllerUtils.h:217-221` promises a whole file only from the opening on. A rendered WAV grows in place
  (`DialogWav.cpp:182`), although its header says it is renamed into place: it may be served in part, and a rendition made between its audio and
  its tags is cached for good without them.
- Whisper pads a file that is still growing with silence; the failure to write its JSON is a warning; rhubarb may return an older sidecar.
- A move between file systems copies in place. A rendition that may be cached for good carries metadata that may change.
- A cache entry that was stamped with the checksum of the content that replaced the encoded one stays a hit (`misstamped`).
- Of a file's tags: a document above 1 MiB is written and never read; lines of a script that hold line breaks, speakers that hold ": " and ids
  that hold "," are parted differently by the reader; PCM of odd length would not be padded, but 16-bit PCM is even.

### Bounds

`MaxSessions` bounds the sessions ever constructed (2 in the registry's run, 4 in `playback`), `MaxQueue` the
queued animations, `MaxRequests` the requests that arrive (2). Each hazard needs at most an old session, the one that
replaces it, a third that meets both, and an idle loop; two REST threads and one loader worker give every pairwise
race with the loop. A behaviour of `playback` has one of two workloads, so that loads fail in one and
playlists are driven in the other; speech is queued in both. A thread that needs a session beyond `MaxSessions` waits for ever, hence `CHECK_DEADLOCK FALSE`;
the registry's run checks deadlock.

The loader runs with one scheduling thread, two workers, one queue place, four jobs of which two may be cancelled: the
least with a full queue, a worker that schedules beside a scheduling thread, two sleepers for one notification, and a pruning
that has to stop at its scan limit. The output runs with one playback
of each kind, three frames, a queue of two and trips at three in a row or two in a window: both trip rules, the final-frame
rule (two in a row) and a rejected push occur. Each playback acquires one generation, so the ring of four never wraps in the run; the
theorem is for a ring of any size.

`fixture_patterns`: two threads, `MaxCalls` = 3 calls, two creatures bound to one fixture with three bindings that follow and overlap each other, a timed
pattern and an endless one, two universes: enough for a tick that decides to rest while a call arrives, for two reports of one creature and for
a move while lit. `stream_timeout`: one creature (creatures share nothing but the loop), two threads, `MaxFrames` = 5 and `MaxNow` = 5 with a timeout of 2:
a frame before, at and after an expiry, and a second stream. `local_audio`: one client, three requests, one chunk each, `MaxFailures` = 1; a run over
two clients without the liveness property (5 241 684 states) also passes and is too long to keep. `dialog_scripts`: three takes of which two are of the same
turns, two HTTP threads (symmetric), `MaxCalls` = 5, `MaxNow` = 1 so that two revisions may carry one timestamp. `jobs`: three jobs, two clients, one copy of an
animation, one scene, `MaxEdits` = 1 client edit, two music slots as in the code, so that the third music job is refused; a larger
instance (2 562 726 states, safety only) also passes.

`library`: two symmetric threads, one universe beside none, one document of each kind. Three requests about the fixture, three about the stage and
its animation, or two of any of the 30 kinds: a disagreement between memory and database needs two writers and whoever reads after them,
an outdated stamp an edit, a render and a save. `speech`: three sentences, so that one has a predecessor and a successor, with faults; or two
agents with two sentences and one, without. `media`: one sound with two contents and a damaged one, two loaders, two channels, `MaxReplaced` = 2 and
`MaxCrashes` = 1; every scene of at most three turns of two voices; speeches with pauses shorter and longer than every threshold; every answer of
three messages with damaged parts; one permanent name and two recordings, one visitor beside the worker, `MaxChanges` = 4; two plays of one or four
packets (`MaxPlays`) over `MaxFrame` + `MaxDelay` frames, enough to skip the tail; two leases, rotations, frames (`MaxLeases`, `MaxRotations`,
`MaxFrames`) and one tick of time (`MaxTime`) with stamps that wrap around at 4 (`Modulus`), and a wall clock before the epoch; texts with every mark
that XML, lists and lines reserve, and documents on both sides of `MaxPayload`.
In all runs but the registry's everything may end or a bound be reached: `CHECK_DEADLOCK FALSE`.

`SettlesRight` is stated for every workload, with its exceptions named in the property: sessions recorded in the history variables `unstopped` (their
running broadcast came after their cancellation with no later session to correct it, or they finished while another performance had one of
their creatures) and `relayed` (their finish went to queued speech), interruptions whose own session, the last of the universe, was cancelled, creatures in `switched`
(streamed over, or their idle playback switched) or sent to another universe than their own (not `StaysHome`), and sessions a start cancelled before any
runner of them ran (`CancelledUnseen`). In the run's first workload none of the exceptions for activity ever
applies, so there the property says that a creature runs exactly what drives it; workloads with duets, starts and streams need them. With two
requests, none of the exceptions for interruptions arises in the run: a start, an interrupt and refused speech would be three.

### Fairness

In `Playback` none is assumed: its properties are safety properties, "eventually" being stated of settled states
(`Settled`: every thread idle and only ordinary runner events pending), in which nothing else could still repair them. `Library`, `DialogScripts` and
the machines of `Media` have safety properties only.

`AudioLoadExecutor` assumes weak fairness of each worker, of the thread that shuts down, and of a thread that holds a token
or owes a notification: they are threads that run whenever they can, and a reservation is an object on a stack, committed
or destroyed in the end. Nothing is assumed of requests for admission, of cancellations, or that a shutdown is asked for.
`RtpOutput` assumes weak fairness of the output worker alone; that the loop keeps ticking is not needed for
`FinalIsAnswered`. `FixturePatterns` assumes that threads inside a call and the event loop go on and that frames go by, which is the loop's
own clock; nobody need call. `StreamTimeout` assumes the same of frames that have arrived and of the loop. `LocalAudio` assumes that the worker, a
client inside `submit` or `finish`, the keepalive thread and main's shutdown go on and that a deadline passes; it does not assume that the device
plays, so requests end by their timeout when it hangs. `Jobs` assumes that a request that created a job queues it and that handlers return:
every call they make has a timeout or ends by itself. `Speech` assumes that the threads of a session run and that the speech service answers or
times out; no agent need speak, and nothing need play to its end.

## Proved

Every theorem is for all values of the constants that meet the named assumptions of the module, not for the instances the runs use.
The invariants were first checked by TLC. `Spec` below is the specification of the module named.

`PlaybackProofs.tla`, the registry:

- `TypeCorrect`: `Spec => []TypeOK`. `TypeOK` says more than types: a listed session exists and belongs to the universe that
  lists it. It is inductive.
- `ExclusiveOutputs`: two live sessions of a universe never share an output. Inductive together with `TypeOK`; every action
  but `RegisterSession` only cancels, drops or flags sessions (`FewerLiveStayExclusive`), and adoption evicts all
  overlapping ones (`AdoptionStaysExclusive`). `OnlyRegisterAdds` splits the actions that way once for all.
- `ResumeChoiceIsFresh`, `SnapshotWhileRunning`: from one inductive invariant `PlaylistInv`, their conjunction. Each action
  touches the playlist fields of one universe, either by forgetting the playlist or in one of the playlist operations.
- `LegalTransitions`, `QueueOwnership`: the two action properties, by cases on the actions under `[]TypeOK`.

`PlaybackProofs.tla`, the running system, from `PlaybackAssumption` (there is a universe and every creature is at home in one):

- `OwnershipHolds`: the inductive invariant `PlaybackInv`. A session that is being prepared is in the hands of one thread; what is listed and
  prepared has not begun to end; a session that leaves the list or is cancelled is handed to a runner or to somebody's list of victims; a session
  ended by a failed load is out of everybody's reach. The module has some eighty actions; lemma `EveryStepHasAnEffect` reduces each to a move of
  one thread together with one of fifteen effects on ownership, and the invariant is then kept effect by effect instead of action by action.
- `EverySessionEndsOnce` (`SessionsEndOnce`): a session's completion runs once at most, and one that has not ended is in somebody's hands. Both halves
  follow from `PlaybackInv`; the second excepts starts of playlists as the property does.
- `NoPlaylistIsStranded` (`NoStrandedPlaylist`): the property speaks of settled states only and is far from inductive. `GoOnInv` says why an Active
  playlist goes on at every moment (`Justified`): an event of it is pending, a session of it plays, it is in one of the two exceptions the property
  names, or some thread is `Carrying` it. That the last of these is handed on needs `Proper`, what a thread may rely on where it stands: nothing
  of a playlist plays while the loop chooses its next animation, a session at its finish is its playlist's latest, the next event is made before the
  snapshot is written back. Requests that never touch a playlist's fate are dealt with by one lemma (`DetachedStep`), the loop's steps one by one.
- `PlaybackSettlesRight` (`SettlesRight`), in `SettlingProofs.tla`: again a property of settled states, true because of what threads are still
  going to do before. `SettleInv` says it for every moment. Of a creature (`ActivityRight`): the generation last written is 0 or one that drives it;
  a live session that drives it is the newest one, and is what is said or has its running broadcast to come (`Starting`); what is said and not
  live is owed a stop by a thread (`Stops`: it is among somebody's victims, or in the hands of the loop from its last frame to the return to idle), is
  about to be overwritten by a newer one, or is one of the exceptions; and whatever drives it is below the generation or still `Starting` (`Reached`),
  which is why a late broadcast of an older session is refused. Of an interrupted playlist (`Awaited`): a thread has just marked it, or the last session
  of the universe is listed, cancelled, relayed, or at the place where its end is decided. `NotifyInv` adds who has been told: a session is
  notified only when cancelled, and listed while prepared until then. The step is proved in two halves: `OnwardStep`, from the effects of
  `OwnershipHolds`, says once what any step leaves behind (flags only grow, a live session that stops being live is handed to somebody who
  will say so); then each action shows only what its own thread hands on (`Hands`, `Ends`, `Attends`).
- `PlaybackUsesTheRegistry`: `PlaybackSpec => Spec`, a refinement under the identity mapping. It needs typing of the threads, since a step is a registry
  operation only with a session or universe in hand. `PlaybackKeepsOutputsExclusive` carries `ExclusiveOutputs` over to the
  running system by it, and so could every theorem about the registry.

`AudioLoadExecutorProofs.tla`, for any number of jobs, threads, workers and queue places: `ExecutorStaysConsistent`, `BoundHolds`,
`JobsSettleOnce`, and the refinement `LoadsStayBounded`. The inductive invariant joins the accounting (the
counters are the cardinalities of what they count) with where tokens are (`Tokens`: a token is for a reserved job and in one thread's
hands), where jobs are (`Hands`: an unsettled job is in the hands of one worker), `Room` (the count stays within the limit)
and the shutdown facts;
`Accounting` alone is not inductive, since returning a slot is only right for one who has it. Finite-set lemmas about adding
and removing one element carry the counting. The refinement needs `Apart`, that busy workers have different jobs even while they give
their slot back, so that `inFlight_` is the size of the set of loads in hand and not merely the sum of three counts.

`AudioOutputProofs.tla`, the RTP output, for any playbacks, frames, capacities, thresholds and ring sizes: `TypeCorrect`, `WireFollowsOwnership` (the first half of
`SendsInOrder`), `SendsStayInOrder`, `DeliveriesAreAnswered` and `ReleasesAreOwn` (`ReleaseIsOwn`). The active generation is zero or the newest one: a claim
is impossible while the worker is inside its guard, a command enters only if its generation is active, and no other step raises `active`.
That frames follow their reset needs more: an owner past its priming is `Prepared`, that is, its generation is ready, or its reset is in the
worker's hand, or the reset waits in the queue at an earlier turn than any of its frames, which no purge but an owner's own removes. That a
delivery is no failure needs that the ring ascends and that every generation lost to the breaker is in it or older than as many claims as it
has places (losses are explained), and that a reader who finds its lease gone has lost it in one of the ways the worker or an owner can cause.

`FixturePatternsProofs.tla`, for any fixtures, bindings, creatures and threads: `FixturesTyped`, `TickIsUnique` (the armed flag stands for exactly one
tick), `DrivenIsRendered` and `ReleasedFixturesAreDark`, together `LightsStayDriven`, and `BoundPatternsAreWanted`. Typing needs `Working` (a thread at a
place has the job that place needs); darkness needs `LitByDriver`, that a lit universe is the current one or was left behind. For bound patterns the
creature's mutex matters: it is held through the whole scan, a scan that has recorded a new activity owes a stop to every pattern that no longer
matches (`BindingInv`), its starts are of bindings that do match, and the work of a scan is of its own creature's bindings (`OwnWork`).

`StreamsProofs.tla`, the end of a stream, for any threads, creatures and timeout: `StreamsStayConsistent` and `NoStreamIsCutShort`. `GateIsOneEvent` and
`StreamIsWatched` are inductive with the types: the deadline is only ever erased in the section that also opens the gate.

`StreamsProofs.tla`, streamed speech, for any number of agents and sentences, with faults or without: `SpeechStaysConsistent` and `WhatIsRecordedWasHeard`,
both from `SpeechInv`. Its first part is about one session (`SessionAgrees`): where the agent's request is says what the thread may have done and the
other way round, what the thread has noted is what the tasks came to, and a final record is of a session whose thread has left. The second part is about
the universe that sessions share: what has been heard, plays and waits, in this order, is in turn for every session (`InTurn`), and is exactly what the
thread has handed over (`Aired`) unless the session was disturbed (`PlacedIsAired`). All but five actions hand nothing over and leave the
universe alone; `QuietStep` deals with them at once.

`AudioOutputProofs.tla`, local playback, for any clients, requests and queue lengths: `NewestStarts` and `DeviceHoldsOwnAudio`, together `NewestIsWhatIsHeard`;
`RequestsHaveOneOwner`; `EveryRequestSettlesOnce`. Each has its own inductive invariant over the shared one `Typed`: `FreshInv` (what is in the slot or
was just taken is the newest), `AudioInv` (`playbackActive_` is set exactly while the worker is between clearing the device and handing it back, which is
why a keepalive that looked earlier adds no silence), `OwnerInv` (an unsettled request is with one holder). The counts need `JudgedInv` (a request's
first reason stays, and what is being counted is no longer active, so it cannot be replaced any more) and that each counter is
the cardinality of the requests that were claimed under it (`ReplacedAgree`, `EndsAgree`).

`DocumentsProofs.tla`, dialog scripts, for any number of threads, takes, restarts and failed writes: `ScriptsStayConsistent`,
`AcceptancesAreFresh`, `AcceptedTakeIsRendered`. The invariant joins what is stored, what each handler
may rely on at its place, and that a queued acceptance names a take made for its turns. A handler that accepts at once may not rely on that: all it
knows of the take's turns is what the client said.

`DocumentsProofs.tla`, the library, for any threads, universes and workloads of the 30 kinds of request, from `LibraryAssumption`,
`WorkloadsAssumption` and `ValuesAssumption` (what stands for nothing is no universe, thread, kind or document):
`MemoryIsWhatIsStored` (`LibraryConsistent`), `NoListGoesStaleUntold` (`StaleListIsAnnounced`) and `FreshAnimationsMoveForTheStage` (`FreshIsCurrent`).
A request is a program, and the module first proves of the thirty programs, one by one, that each step is followed only by what `Fits` allows, so that
afterwards a request is known by its kind and the head of what is left of it (`Typed`), whatever its past. One inductive invariant, `LibraryInv`,
carries all three theorems, and no part of it is inductive alone:

- `MutexInv`, `CompanyInv`: the mutex is held from its lock to its unlock; of two requests under way on one document each knows of the other,
  unless the mutex keeps them apart. This is what makes `suspect` and `mixed` true to their names.
- `ToldInv`: a stale list is announced, or some request has written, has only steps that cannot fail before its announcement, and has that list to announce.
  The property alone says only that an announcement is in the program, which a failure would cut off.
- `UniverseInv`, `CacheInv`: where memory disagrees with the database, a request is between its write and the put or assignment it owes; and what it
  is going to put is what is stored, unless another writer is in its company.
- `StampInv`: stamp and geometry agree not only in the stored animation but in every copy a request carries, but for a client's copy whose
  stamp the upsert is to restore. `StageInv`: no animation, stored or in hand, was made for a geometry newer than the stage's, and an edit of
  the stage brings a newer one than any.

`JobsProofs.tla`, for any number of jobs, clients and slots: `JobsStayConsistent`, `RendersStayWhole`, and the refinement `MusicStaysBounded`. `Control` says
where each job is and that the slots counter is the number of jobs with a slot; `Whole` relates the handler's locals to library and sounds: which
place of `handleDialogJob` may still delete which file, that an animation's sound exists unless the animation is `risky`, and that a fresh
sound belongs to one job. `RendersAreWhole` alone is not inductive because it says nothing about a render in progress.

Model-checked only:

- the machines of `Media`. What `Scene`, `Performance`, `WavTags` and `TtsStream` compute is defined by recursion over their
  data, and induction over data is beyond the prover; the others could be proved about and have not been;
- liveness (`LoadsEnd`, `FinalIsAnswered`, `LightsEnd`, `StreamsExpire`, `EveryRequestEnds`, `CreatedEnds`, `FinishReturns`), which is beyond the prover.

## Not modelled

- DMX and audio frames of a session and their timing, and the runner's rescheduling of itself (a stutter).
- Status lights, counters, tracing; database failures while looking for an idle loop; broadcasts other than cache invalidations.
- The activity of all creatures of one session is written in one step; the code takes the mutex once per creature. A registration's reset of
  a creature's activity is left out.
- In `Playback` a stream expires at any time (`StreamTimeout` has the rule) and the server does not shut down. The streamed-track variant of a session.
- `registerSession`'s isPlaylist flag is false in every production call and is left out; so is `playlistId`, which is never
  read. `resumePlaylist` and `clearAnimationQueue` have no production caller and are actions of `SessionManager` only.
- Fixtures: channel values and fade arithmetic.
- Local audio: CoreAudio, mixer volume, decoding, the arithmetic of samples.
- Dialogs: titles and notes, scripts of several chunks, music whose candidate has expired (backfill of old documents).
- Jobs: progress, broadcasts, scratch directories, the outcome of autoplay; a database that applies a write and then reports failure;
  an exception after the last write of a handler.
- Documents: one document stands for each collection; conversions, indexes and listing queries; the hydration of caches is done before requests arrive.
- Speech: what a sentence sounds like; an agent is assumed to wait for each answer before it sends the next sentence; the download of an exchange.
- Media: signal processing, phoneme tables and text normalisation; sines and the slow drift of a held head; the bytes of packets, sockets
  and the codec. `SoundService::generateLipSync` has no callers.
- Pings and parsing of incoming messages, E1.31, sensors, metrics, watchdog, GPIO, start-up: a one-way flow of copies or device I/O; no state
  shared with the above beyond what the models take as constants.
- REST parsing and response mapping; the state they change is reached through the services that are modelled.

## Plan

Left, in this order:

1. Proofs: that the exceptions of `ActivityAgrees` never apply in workloads of single creatures without starts and streams; `LoadsAreOfTheFile` of `AudioCache`; the sleeping reporter of `ReportsAreTrue`; the reservation of `TracksKeepTime`.
2. A lease that owners take and lose, as an abstract specification that `RtpOutput` implements.
3. Per-creature writes and deliveries of activity out of order, composed with `FixturePatterns`.
4. The streamed-track session; the connection set and its broadcast queue.
