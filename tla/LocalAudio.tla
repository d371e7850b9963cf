------------------------------ MODULE LocalAudio ------------------------------
(***************************************************************************)
(* Local playback: the last-request-wins coordinator                       *)
(* (audio/LocalAudioPlaybackCoordinator.cpp), the service that feeds the   *)
(* process's one sound device and keeps it awake with silence              *)
(* (audio/NativeAudioPlaybackService.cpp), and the order in which main     *)
(* shuts both down.  A request is known by its generation.                 *)
(*                                                                         *)
(* Threads: the clients that submit and stop requests, the coordinator's   *)
(* only worker, the keepalive thread, and main.  A step is one section     *)
(* under a mutex or one atomic operation.  A stop's two stores (why, and   *)
(* the flag that the player polls) are one step: whoever reads the flag    *)
(* late reads it as if the stop came later.                                *)
(***************************************************************************)
EXTENDS Naturals, Sequences, FiniteSets

CONSTANTS
    Client,         \* threads that submit
    Worker,         \* the coordinator's worker thread
    Main,           \* the thread that shuts down
    MaxRequests,    \* bound: requests accepted
    MaxChunks,      \* bound: the longest recording, in chunks
    QueueTarget,    \* chunks a playback keeps queued in the device
    KeepTarget,     \* chunks of silence the keepalive keeps queued
    Stopped,        \* bound: the requests whose owner may stop them
    MaxFailures     \* bound: files refused and device calls that fail

ASSUME LocalAudioAssumption ==
    /\ Worker # Main /\ Worker \notin Client /\ Main \notin Client
    /\ MaxRequests \in Nat /\ MaxChunks \in Nat
    /\ QueueTarget \in Nat \ {0} /\ KeepTarget \in Nat \ {0}
    /\ Stopped \subseteq 1 .. MaxRequests /\ MaxFailures \in Nat

VARIABLES
    accepted,      \* how many requests were accepted: the newest generation
    reason,        \* per request: why it was asked to stop
    status,        \* per request: what its handle shows
    notified,      \* per request: its completion was claimed
    pending,       \* the request waiting in the only slot
    activeRequest, \* the request the worker is on, while it may be replaced
    closing,       \* shuttingDown_
    count,         \* the statistics
    thread,        \* per thread: where it is, its request and that one's outcome
    left,          \* chunks the worker has still to read
    playing,       \* playbackActive_
    device,        \* the sound device
    keeper         \* where the keepalive thread is

localVars == <<accepted, reason, status, notified, pending, activeRequest, closing,
               count, thread, left, playing, device, keeper>>

requests == <<accepted, reason, status, notified>>
output == <<left, playing, device, keeper>>
-----------------------------------------------------------------------------
Request == 1 .. MaxRequests
NoRequest == 0
Silence == 0
Thread == Client \cup {Worker, Main}
StopReason == {"None", "Replaced", "Stopped", "Shutdown"}
PlaybackOutcome == {"Completed", "Replaced", "Stopped", "Failed", "TimedOut", "Shutdown"}
Status == {"Queued", "Playing"} \cup PlaybackOutcome
Counter == {"Completed", "Replaced", "Stopped", "Failed", "TimedOut", "Rejected"}
Finished(g) == status[g] \in PlaybackOutcome

Working == {"check", "open", "clear", "feed", "write", "release", "restore", "settle"}
ThreadState ==
    [at : Working \cup {"idle", "asleep", "gone", "count", "publish", "notify", "join", "close", "down"},
     gen : 0 .. MaxRequests, outcome : PlaybackOutcome]
Device ==
    [open : BOOLEAN, queue : Seq(0 .. MaxRequests),
     hw : {"prepared", "running", "dry"}, started : BOOLEAN]

Idle == [at |-> "idle", gen |-> NoRequest, outcome |-> "Completed"]
Finishing(g, o) == [at |-> "count", gen |-> g, outcome |-> o]
Move(t, where) == thread' = [thread EXCEPT ![t].at = where]

OutcomeFor(r) == IF r = "None" THEN "Completed" ELSE r

\* requestStop: the first reason given to a request is the one that stays
StopOf(why, g) ==
    IF g # NoRequest /\ reason[g] = "None" THEN [reason EXCEPT ![g] = why] ELSE reason

\* Something may still fail
MayFail == count["Failed"] < MaxFailures

Clear(d) == [d EXCEPT !.queue = <<>>, !.hw = "prepared", !.started = FALSE]

\* What a write may leave: the samples queued, and the device restarted if it
\* had run dry; or a failure before or after the samples went in
Written(d, samples) ==
    {[d EXCEPT !.queue = @ \o samples,
               !.hw = IF @ # "dry" THEN @ ELSE IF d.started THEN "running" ELSE "prepared"]}

WriteFailed(d, samples) ==
    IF ~MayFail THEN {}
    ELSE IF d.hw # "dry" THEN {d}
    ELSE {d, [d EXCEPT !.queue = @ \o samples, !.hw = "prepared"]}

Started(d) == {[d EXCEPT !.hw = "running", !.started = TRUE]}
StartFailed(d) == IF MayFail THEN {d} ELSE {}

Refill(d) ==
    IF Len(d.queue) >= KeepTarget THEN {d}
    ELSE LET silence == [i \in 1 .. KeepTarget - Len(d.queue) |-> Silence]
         IN  Written(d, silence) \cup WriteFailed(d, silence)

\* restoreKeepaliveLocked: a failed write leaves the device stopped
Restored(d) ==
    LET silence == [i \in 1 .. KeepTarget |-> Silence]
        full == Written(Clear(d), silence)
    IN  WriteFailed(Clear(d), silence)
          \cup UNION {Started(e) \cup StartFailed(e) : e \in full}
-----------------------------------------------------------------------------
LocalInit ==
    /\ accepted = 0
    /\ reason = [g \in Request |-> "None"]
    /\ status = [g \in Request |-> "Queued"]
    /\ notified = [g \in Request |-> FALSE]
    /\ pending = NoRequest /\ activeRequest = NoRequest
    /\ closing = FALSE
    /\ count = [c \in Counter |-> 0]
    /\ thread = [t \in Thread |-> Idle]
    /\ left = 0
    /\ playing = FALSE
    /\ device = [open |-> TRUE, queue |-> [i \in 1 .. KeepTarget |-> Silence],
                 hw |-> "running", started |-> TRUE]
    /\ keeper = "look"
-----------------------------------------------------------------------------
\* Mutant: the displaced request is dropped and nobody finishes it
SubmitForgetsDisplaced(t) ==
    /\ thread[t].at = "idle" /\ ~closing /\ accepted < MaxRequests
    /\ accepted' = accepted + 1
    /\ reason' = StopOf("Replaced", activeRequest)
    /\ count' = [count EXCEPT !["Replaced"] =
                    @ + Cardinality({h \in Request : reason[h] # reason'[h]})]
    /\ pending' = accepted'
    /\ Move(t, "notify")
    /\ UNCHANGED <<status, notified, activeRequest, closing, output>>

\* submit, up to the end of its section under mutex_
Submit(t) ==
    /\ thread[t].at = "idle" /\ ~closing /\ accepted < MaxRequests
    /\ LET g == accepted + 1
           stopped == StopOf("Replaced", activeRequest)
           both == IF pending # NoRequest /\ stopped[pending] = "None"
                   THEN [stopped EXCEPT ![pending] = "Replaced"] ELSE stopped
       IN  /\ accepted' = g
           /\ reason' = both
           /\ count' = [count EXCEPT !["Replaced"] =
                            @ + Cardinality({h \in Request : reason[h] # both[h]})]
           /\ pending' = g
           /\ thread' = [thread EXCEPT ![t] =
                IF pending = NoRequest THEN [Idle EXCEPT !.at = "notify"]
                ELSE Finishing(pending, OutcomeFor(both[pending]))]
    /\ UNCHANGED <<status, notified, activeRequest, closing, output>>

\* Bound: one rejected request is counted
SubmitRejected(t) ==
    /\ thread[t].at = "idle" /\ closing /\ count["Rejected"] = 0
    /\ count' = [count EXCEPT !["Rejected"] = @ + 1]
    /\ UNCHANGED <<requests, pending, activeRequest, closing, thread, output>>

\* Handle::stop, from whoever owns the request's transport.  Once the handle
\* shows an end nobody reads the reason again, and a stop is not modelled
Stop(g) ==
    /\ g \in Stopped /\ g <= accepted /\ reason[g] = "None" /\ ~Finished(g)
    /\ reason' = StopOf("Stopped", g)
    /\ UNCHANGED <<accepted, status, notified, pending, activeRequest, closing, count, thread, output>>

\* finish: the completion is claimed and counted, then the handle shows it
CountOutcome(t) ==
    /\ thread[t].at = "count"
    /\ LET g == thread[t].gen
           o == thread[t].outcome
           c == IF o = "Shutdown" THEN "Stopped" ELSE o
       IN  IF notified[g]
           THEN /\ thread' = [thread EXCEPT ![t] =
                                [Idle EXCEPT !.at = IF t = Worker THEN "idle" ELSE "notify"]]
                /\ UNCHANGED <<notified, count>>
           ELSE /\ notified' = [notified EXCEPT ![g] = TRUE]
                /\ count' = IF c = "Replaced" THEN count ELSE [count EXCEPT ![c] = @ + 1]
                /\ Move(t, "publish")
    /\ UNCHANGED <<accepted, reason, status, pending, activeRequest, closing, output>>

PublishOutcome(t) ==
    /\ thread[t].at = "publish"
    /\ status' = [status EXCEPT ![thread[t].gen] = thread[t].outcome]
    /\ thread' = [thread EXCEPT ![t] = [Idle EXCEPT !.at = IF t = Worker THEN "idle" ELSE "notify"]]
    /\ UNCHANGED <<accepted, reason, notified, pending, activeRequest, closing, count, output>>

\* notify_one and notify_all: only the worker ever waits
Woken(w) == IF w.at = "asleep" THEN [w EXCEPT !.at = "idle"] ELSE w

Notify(t) ==
    /\ thread[t].at = "notify"
    /\ thread' = [thread EXCEPT ![t].at = IF t = Main THEN "join" ELSE "idle",
                                ![Worker] = Woken(@)]
    /\ UNCHANGED <<requests, pending, activeRequest, closing, count, output>>
-----------------------------------------------------------------------------
\* workerLoop: wait, then take the pending request or leave
Sleep ==
    /\ thread[Worker].at = "idle" /\ ~closing /\ pending = NoRequest
    /\ Move(Worker, "asleep")
    /\ UNCHANGED <<requests, pending, activeRequest, closing, count, output>>

Leave ==
    /\ thread[Worker].at = "idle" /\ closing /\ pending = NoRequest
    /\ Move(Worker, "gone")
    /\ UNCHANGED <<requests, pending, activeRequest, closing, count, output>>

\* Mutant: the request becomes replaceable only when it plays
TakeWithoutActive ==
    /\ thread[Worker].at = "idle" /\ pending # NoRequest
    /\ thread' = [thread EXCEPT ![Worker] =
                    [at |-> "check", gen |-> pending, outcome |-> "Completed"]]
    /\ status' = [status EXCEPT ![pending] = "Playing"]
    /\ pending' = NoRequest
    /\ UNCHANGED <<accepted, reason, notified, activeRequest, closing, count, output>>

Take ==
    /\ thread[Worker].at = "idle" /\ pending # NoRequest
    /\ thread' = [thread EXCEPT ![Worker] =
                    [at |-> "check", gen |-> pending, outcome |-> "Completed"]]
    /\ status' = [status EXCEPT ![pending] = "Playing"]
    /\ activeRequest' = pending
    /\ pending' = NoRequest
    /\ UNCHANGED <<accepted, reason, notified, closing, count, output>>

WorkerEnds(where, o) ==
    thread' = [thread EXCEPT ![Worker].at = where, ![Worker].outcome = o]

\* The request was stopped before it started, or playFile is called
Check ==
    LET g == thread[Worker].gen IN
    /\ thread[Worker].at = "check"
    /\ IF reason[g] # "None" THEN WorkerEnds("settle", OutcomeFor(reason[g]))
                             ELSE Move(Worker, "open")
    /\ UNCHANGED <<requests, pending, activeRequest, closing, count, output>>

\* playFile, up to the store of playbackActive_: a file or format the device
\* cannot play is refused before the device is touched
OpenFile ==
    /\ thread[Worker].at = "open"
    /\ \/ /\ reason[thread[Worker].gen] # "None"
          /\ WorkerEnds("settle", "Stopped")
          /\ UNCHANGED <<left, playing>>
       \/ /\ MayFail
          /\ WorkerEnds("settle", "Failed")
          /\ UNCHANGED <<left, playing>>
       \/ /\ left' \in 0 .. MaxChunks
          /\ playing' = TRUE
          /\ Move(Worker, "clear")
    /\ UNCHANGED <<requests, pending, activeRequest, closing, count, device, keeper>>

ClearDevice ==
    /\ thread[Worker].at = "clear"
    /\ device' = Clear(device)
    /\ Move(Worker, "feed")
    /\ UNCHANGED <<requests, pending, activeRequest, closing, count, left, playing, keeper>>

\* The feeding loop, between two looks at the stop flag
Feed ==
    /\ thread[Worker].at = "feed"
    /\ \/ /\ reason[thread[Worker].gen] # "None"
          /\ WorkerEnds("release", "Stopped")
       \/ /\ reason[thread[Worker].gen] = "None"
          /\ left > 0 /\ Len(device.queue) < QueueTarget
          /\ Move(Worker, "write")
       \/ /\ left = 0 /\ device.queue = <<>>
          /\ WorkerEnds("release", "Completed")
    /\ UNCHANGED <<requests, pending, activeRequest, closing, count, output>>

\* One chunk is read and written under outputMutex_; the first one starts the
\* device.  Reading may fail too
WriteChunk ==
    LET sound == <<thread[Worker].gen>>
        ok == IF device.started THEN Written(device, sound)
              ELSE UNION {Started(d) : d \in Written(device, sound)}
        bad == WriteFailed(device, sound)
                 \cup (IF device.started THEN {}
                       ELSE UNION {StartFailed(d) : d \in Written(device, sound)})
    IN
    /\ thread[Worker].at = "write"
    /\ \/ /\ device' \in ok
          /\ left' = left - 1
          /\ Move(Worker, "feed")
       \/ /\ device' \in bad
          /\ left' = left - 1
          /\ WorkerEnds("release", "Failed")
       \/ /\ MayFail
          /\ WorkerEnds("release", "Failed")
          /\ UNCHANGED <<device, left>>
    /\ UNCHANGED <<requests, pending, activeRequest, closing, count, playing, keeper>>

\* The deadline is looked at after the writes.  What ended these, a full queue,
\* may be over by then; so may a stop that the next look would have seen
TimeOut ==
    /\ thread[Worker].at = "feed"
    /\ WorkerEnds("release", "TimedOut")
    /\ UNCHANGED <<requests, pending, activeRequest, closing, count, output>>

\* finishPlayback: the device is handed back, then cleared and kept awake
FinishPlayback ==
    /\ thread[Worker].at = "release"
    /\ playing' = FALSE
    /\ Move(Worker, IF playing THEN "restore" ELSE "settle")
    /\ UNCHANGED <<requests, pending, activeRequest, closing, count, left, device, keeper>>

Restore ==
    /\ thread[Worker].at = "restore"
    /\ device' \in Restored(device)
    /\ left' = 0
    /\ Move(Worker, "settle")
    /\ UNCHANGED <<requests, pending, activeRequest, closing, count, playing, keeper>>

\* Under mutex_: a stop decides the outcome of what neither failed nor timed
\* out, and from here on the request cannot be replaced
Settle ==
    LET g == thread[Worker].gen
        o == thread[Worker].outcome
    IN
    /\ thread[Worker].at = "settle"
    /\ WorkerEnds("count", IF reason[g] # "None" /\ o \notin {"Failed", "TimedOut"}
                           THEN OutcomeFor(reason[g]) ELSE o)
    /\ activeRequest' = NoRequest
    /\ UNCHANGED <<requests, pending, closing, count, output>>
-----------------------------------------------------------------------------
\* The keepalive thread: a look at playbackActive_ without the mutex, and a
\* second one under it
Look ==
    /\ keeper = "look" /\ ~playing /\ thread[Main].at \notin {"close", "down"}
    /\ keeper' = "refill"
    /\ UNCHANGED <<requests, pending, activeRequest, closing, count, thread, left, playing, device>>

\* Mutant: the first look is trusted
KeepAliveTrustsLook ==
    /\ keeper = "refill"
    /\ device' \in Refill(device)
    /\ keeper' = "look"
    /\ UNCHANGED <<requests, pending, activeRequest, closing, count, thread, left, playing>>

KeepAlive ==
    /\ keeper = "refill"
    /\ device' \in IF playing THEN {device} ELSE Refill(device)
    /\ keeper' = "look"
    /\ UNCHANGED <<requests, pending, activeRequest, closing, count, thread, left, playing>>

KeeperLeaves ==
    /\ keeper = "look" /\ thread[Main].at = "close"
    /\ keeper' = "gone"
    /\ UNCHANGED <<requests, pending, activeRequest, closing, count, thread, left, playing, device>>

\* The device plays what is queued, and stops when it runs dry
Drain ==
    /\ device.hw = "running"
    /\ device' = IF device.queue = <<>> THEN [device EXCEPT !.hw = "dry"]
                 ELSE [device EXCEPT !.queue = Tail(@)]
    /\ UNCHANGED <<requests, pending, activeRequest, closing, count, thread, left, playing, keeper>>
-----------------------------------------------------------------------------
\* Mutant: shutdown waits for the worker without waking it
ShutdownSilently ==
    /\ thread[Main].at = "idle" /\ ~closing
    /\ closing' = TRUE
    /\ reason' = StopOf("Shutdown", activeRequest)
    /\ Move(Main, "join")
    /\ UNCHANGED <<accepted, status, notified, pending, activeRequest, count, output>>

\* main: the coordinator's shutdown, which joins the worker, then the service's
Shutdown ==
    /\ thread[Main].at = "idle" /\ ~closing
    /\ closing' = TRUE
    /\ LET stopped == StopOf("Shutdown", activeRequest) IN
       reason' = IF pending # NoRequest /\ stopped[pending] = "None"
                 THEN [stopped EXCEPT ![pending] = "Shutdown"] ELSE stopped
    /\ thread' = [thread EXCEPT ![Main] =
                    IF pending = NoRequest THEN [Idle EXCEPT !.at = "notify"]
                    ELSE Finishing(pending, "Shutdown")]
    /\ pending' = NoRequest
    /\ UNCHANGED <<accepted, status, notified, activeRequest, count, output>>

JoinWorker ==
    /\ thread[Main].at = "join" /\ thread[Worker].at = "gone"
    /\ Move(Main, "close")
    /\ UNCHANGED <<requests, pending, activeRequest, closing, count, output>>

CloseDevice ==
    /\ thread[Main].at = "close" /\ keeper = "gone"
    /\ device' = [Clear(device) EXCEPT !.open = FALSE]
    /\ playing' = FALSE
    /\ Move(Main, "down")
    /\ UNCHANGED <<requests, pending, activeRequest, closing, count, left, keeper>>
-----------------------------------------------------------------------------
WorkerStep ==
    \/ Sleep \/ Leave \/ Take \/ Check \/ OpenFile \/ ClearDevice \/ Feed
    \/ WriteChunk \/ FinishPlayback \/ Restore \/ Settle
    \/ CountOutcome(Worker) \/ PublishOutcome(Worker)

ClientStep(t) == CountOutcome(t) \/ PublishOutcome(t) \/ Notify(t)

MainStep ==
    \/ CountOutcome(Main) \/ PublishOutcome(Main) \/ Notify(Main)
    \/ JoinWorker \/ CloseDevice

LocalNext ==
    \/ \E t \in Client : Submit(t) \/ SubmitRejected(t) \/ ClientStep(t)
    \/ \E g \in Request : Stop(g)
    \/ WorkerStep \/ TimeOut
    \/ Look \/ KeepAlive \/ KeeperLeaves \/ Drain
    \/ Shutdown \/ MainStep

LocalSpec == LocalInit /\ [][LocalNext]_localVars

\* A thread inside a function runs on; a deadline passes.  The device need not
\* play, nobody need submit or stop, and main need not shut down
LocalFairSpec ==
    /\ LocalSpec
    /\ WF_localVars(WorkerStep) /\ WF_localVars(TimeOut) /\ WF_localVars(MainStep)
    /\ WF_localVars(KeepAlive) /\ WF_localVars(KeeperLeaves)
    /\ \A t \in Client : WF_localVars(ClientStep(t))
-----------------------------------------------------------------------------
LocalTypeOK ==
    /\ accepted \in 0 .. MaxRequests
    /\ reason \in [Request -> StopReason]
    /\ status \in [Request -> Status]
    /\ notified \in [Request -> BOOLEAN]
    /\ pending \in 0 .. MaxRequests /\ activeRequest \in 0 .. MaxRequests
    /\ closing \in BOOLEAN
    /\ count \in [Counter -> Nat]
    /\ thread \in [Thread -> ThreadState]
    /\ left \in 0 .. MaxChunks
    /\ playing \in BOOLEAN
    /\ device \in Device
    /\ keeper \in {"look", "refill", "gone"}

\* Requests whose outcome o has been counted
Counted(o) ==
    {g \in Request : status[g] = o
        \/ \E t \in Thread : thread[t].gen = g /\ thread[t].at = "publish"
                                              /\ thread[t].outcome = o}

\* An accepted request has one owner until its handle shows an end, and none
\* afterwards: not the slot, the worker and a client that was told it
\* displaced it (LocalAudioPlaybackCoordinator.cpp:235, :279, :341, :425)
HeldOnce ==
    /\ \A t, u \in Thread : t # u /\ thread[t].gen = thread[u].gen => thread[t].gen = NoRequest
    /\ \A t \in Thread : thread[t].gen = pending => pending = NoRequest
    /\ \A g \in Request :
        (g <= accepted /\ ~Finished(g)) <=> (pending = g \/ \E t \in Thread : thread[t].gen = g)

\* The slot holds the newest request
NewestPends == pending # NoRequest => pending = accepted

\* Every end is counted once under its outcome, a replacement when it is
\* asked for; what failed although it was being replaced is in both
CountsAgree ==
    /\ count["Replaced"] = Cardinality({g \in Request : reason[g] = "Replaced"})
    /\ count["Stopped"] = Cardinality(Counted("Stopped") \cup Counted("Shutdown"))
    /\ \A o \in {"Completed", "Failed", "TimedOut"} : count[o] = Cardinality(Counted(o))
    /\ \A g \in Request :
        /\ status[g] = "Replaced" => reason[g] = "Replaced"
        /\ status[g] = "Completed" => reason[g] # "Replaced"

\* Safety: whatever clients, worker and shutdown do, each accepted request is
\* settled by exactly one of them and the statistics say how.
RequestsSettleOnce == LocalTypeOK /\ HeldOnce /\ NewestPends /\ CountsAgree

\* Safety: while a recording plays the device holds that recording only: no
\* silence of a keepalive that looked before playbackActive_ was set, no tail
\* of the recording it replaced; and between recordings it holds silence.
\* When main closes the device the worker no longer uses it
\* (NativeAudioPlaybackService.cpp:151, :316, :334; main.cpp:551).
OnlyOwnAudio ==
    LET w == thread[Worker] IN
    /\ w.at \in {"feed", "write"} => device.queue \in Seq({w.gen})
    /\ w.at \notin {"feed", "write", "release", "restore"} => device.queue \in Seq({Silence})
    /\ w.at \in {"clear", "feed", "write", "release", "restore"} => device.open

\* Action property, last request wins: a request that starts is the newest
\* one accepted when the worker looked (LocalAudioPlaybackCoordinator.cpp:227,
\* :344).
StaleNeverStarts ==
    [][thread[Worker].at = "check" /\ thread'[Worker].at = "open"
        => thread[Worker].gen = accepted]_localVars

\* Last request wins, in the coordinator and on the device: a request that
\* starts is the newest, and what is heard is the request that started.
NewestIsHeard == StaleNeverStarts /\ []OnlyOwnAudio

\* Liveness: an accepted request's handle shows an end, however long the
\* device takes, and a shutdown that began ends.
EveryRequestEnds ==
    /\ \A g \in Request : accepted >= g ~> Finished(g)
    /\ closing ~> thread[Main].at = "down"
=============================================================================
