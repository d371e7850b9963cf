-------------------------------- MODULE Speech --------------------------------
(***************************************************************************)
(* Streamed ad-hoc speech: an agent sends a creature's words sentence by   *)
(* sentence while it still thinks.  Every sentence is rendered by a task   *)
(* of its own, which waits for two promises of the one before it, its      *)
(* request id and its frame offset.  The session's playback thread takes   *)
(* the sentences in order, interrupts the universe with the first and      *)
(* queues the others behind it.  finish() waits for that thread and writes *)
(* down what was said, the exchange.                                       *)
(*                                                                         *)
(* An agent has its answer before it sends the next request; several       *)
(* agents speak on one universe of one creature.  What a sentence sounds   *)
(* like is left out; whether it could be rendered is not.                  *)
(***************************************************************************)
EXTENDS Naturals, Sequences, FiniteSets, SequencesExt

CONSTANTS
  Session,
  MaxSentences,  \* bound: of a session
  Workloads,     \* bound: how many sentences the sessions say in a behaviour,
                 \* and whether anything but the agents may go wrong
  Other,         \* whatever else plays: idle loops, other performances
  Silence

Number == 1 .. MaxSentences

Sentence == [session : Session, number : Number]

ASSUME SpeechAssumption ==
  /\ MaxSentences \in Nat
  /\ Workloads \subseteq [says : [Session -> 0 .. MaxSentences], faults : BOOLEAN]
  /\ Other # Silence /\ Other \notin Sentence /\ Silence \notin Sentence

VARIABLES
  workload,  \* the bound of this behaviour
  up,        \* the server runs
  client,    \* the agent of a session: where its request is
  said,      \* chunksReceived_
  pushed,    \* the length of sentenceFutures_
  finished,  \* finished_
  player,    \* playbackThread_: its place, and nextIndex
  task,      \* of a sentence: its place, or what its future holds
  offsets,   \* sentences whose frame offset promise is fulfilled
  ids,       \* sentences whose request id promise is fulfilled
  wavs,      \* sentences whose WAV is on disk
  outcomes,  \* sentenceOutcomes_
  exchange,  \* the document: its status, and its parts
  air,       \* what plays on the universe, or is being loaded
  queue,     \* the universe's animation queue
  heard,     \* what played to its end
  disturbed  \* auxiliary: sessions with which somebody interfered

requestVars == <<client, said, pushed, finished>>
taskVars == <<task, offsets, ids, wavs>>
airVars == <<air, queue, heard, disturbed>>
speechVars ==
  <<workload, up, requestVars, player, taskVars, outcomes, exchange, airVars>>

Ended == {"ok", "failed", "threw"}

SpeechInit ==
  /\ workload \in Workloads /\ up = TRUE
  /\ client = [s \in Session |-> "new"]
  /\ said = [s \in Session |-> 0] /\ pushed = [s \in Session |-> 0]
  /\ finished = [s \in Session |-> FALSE]
  /\ player = [s \in Session |-> [pc |-> "unborn", next |-> 0]]
  /\ task = [s \in Session |-> [n \in Number |-> "none"]]
  /\ offsets = [s \in Session |-> {}] /\ ids = [s \in Session |-> {}]
  /\ wavs = [s \in Session |-> {}]
  /\ outcomes = [s \in Session |-> <<>>]
  /\ exchange = [s \in Session |-> [status |-> "absent", parts |-> {}]]
  /\ air \in {Silence, Other} /\ queue = <<>>
  /\ heard = <<>> /\ disturbed = {}

-----------------------------------------------------------------------------
(* The agent's requests.                                                   *)

Fault == workload.faults

Answered(s, place) == client' = [client EXCEPT ![s] = place]

\* The record of the exchange is made on a best effort.
Start(s) ==
  /\ client[s] = "new" /\ workload.says[s] > 0
  /\ Answered(s, "open")
  /\ \E status \in {"streaming", "absent"} : exchange' = [exchange EXCEPT ![s].status = status]
  /\ UNCHANGED <<workload, up, said, pushed, finished, player, taskVars, outcomes, airVars>>

\* No such creature, no voice, no universe, or nothing to move like.
StartFails(s) ==
  /\ Fault
  /\ client[s] = "new" /\ workload.says[s] > 0
  /\ Answered(s, "gone")
  /\ UNCHANGED <<workload, up, said, pushed, finished, player, taskVars, outcomes, exchange, airVars>>

\* The promises are made, and the task starts.
AddText(s) ==
  /\ client[s] = "open" /\ said[s] < workload.says[s]
  /\ said' = [said EXCEPT ![s] = @ + 1]
  /\ task' = [task EXCEPT ![s][said[s] + 1] = "ask"]
  /\ Answered(s, "push")
  /\ UNCHANGED <<workload, up, pushed, finished, player, offsets, ids, wavs, outcomes, exchange, airVars>>

\* Under futuresMutex_, which a thread between its look and its sleep holds;
\* the first sentence starts the thread.
PushFuture(s) ==
  /\ client[s] = "push" /\ player[s].pc # "doze"
  /\ pushed' = [pushed EXCEPT ![s] = @ + 1]
  /\ player' = [player EXCEPT ![s].pc = IF @ = "unborn" THEN "look" ELSE @]
  /\ Answered(s, "wake")
  /\ UNCHANGED <<workload, up, said, finished, taskVars, outcomes, exchange, airVars>>

\* playbackCv_.notify_one(): lost unless the thread sleeps.
Notify(s) == player' = [player EXCEPT ![s].pc = IF @ = "asleep" THEN "look" ELSE @]

WakePlayer(s) ==
  /\ client[s] = "wake"
  /\ Notify(s)
  /\ Answered(s, "open")
  /\ UNCHANGED <<workload, up, said, pushed, finished, taskVars, outcomes, exchange, airVars>>

\* There is nothing to finish: the session is removed, its record stays.
FinishEmpty(s) ==
  /\ client[s] = "open" /\ said[s] = 0
  /\ Answered(s, "gone")
  /\ UNCHANGED <<workload, up, said, pushed, finished, player, taskVars, outcomes, exchange, airVars>>

\* No mutex is held.
BeginFinish(s) ==
  /\ client[s] = "open" /\ said[s] > 0
  /\ finished' = [finished EXCEPT ![s] = TRUE]
  /\ Answered(s, "sealed")
  /\ UNCHANGED <<workload, up, said, pushed, player, taskVars, outcomes, exchange, airVars>>

NotifyFinished(s) ==
  /\ client[s] = "sealed"
  /\ Notify(s)
  /\ Answered(s, "joining")
  /\ UNCHANGED <<workload, up, said, pushed, finished, taskVars, outcomes, exchange, airVars>>

\* The sentences that were rendered; the record lists them by their numbers.
Parts(s) == {n \in DOMAIN outcomes[s] : outcomes[s][n]}

\* What the exchange comes to; the stitching may fail.
Statuses(s) ==
  IF Parts(s) = {} THEN {"failed"}
  ELSE {"failed", IF Cardinality(Parts(s)) = said[s] THEN "ready" ELSE "partial"}

\* Mutant of FinishExchange: the thread is not waited for.
FinishExchangeUnjoined(s) ==
  /\ client[s] = "joining"
  /\ Answered(s, "gone")
  /\ \E status \in Statuses(s) :
       exchange' = [exchange EXCEPT ![s] =
         IF @.status = "absent" THEN @ ELSE [status |-> status, parts |-> Parts(s)]]
  /\ UNCHANGED <<workload, up, said, pushed, finished, player, taskVars, outcomes, airVars>>

\* The thread has been joined; the record is finalized, if it was made and the
\* database answers, and the session removed.
FinishExchange(s) ==
  /\ client[s] = "joining" /\ player[s].pc = "exited"
  /\ Answered(s, "gone")
  /\ \/ \E status \in Statuses(s) :
          exchange' = [exchange EXCEPT ![s] =
            IF @.status = "absent" THEN @ ELSE [status |-> status, parts |-> Parts(s)]]
     \/ UNCHANGED exchange
  /\ UNCHANGED <<workload, up, said, pushed, finished, player, taskVars, outcomes, airVars>>

-----------------------------------------------------------------------------
(* The task of sentence n.                                                 *)

TaskAt(s, n, place) == task[s][n] = place

Goes(s, n, place) == task' = [task EXCEPT ![s][n] = place]

Only(s, n) ==
  UNCHANGED <<workload, up, requestVars, player, outcomes, exchange, airVars>>

\* The request names the id of the sentence before, for the prosody.
Asks(s, n) == TaskAt(s, n, "ask") /\ (n = 1 \/ n - 1 \in ids[s])

Speak(s, n) ==
  /\ Asks(s, n)
  /\ Goes(s, n, "wrap")
  /\ UNCHANGED <<offsets, ids, wavs>> /\ Only(s, n)

\* Mutant of SpeakFails: an error returns before the promises are kept.
SpeakFailsSilently(s, n) ==
  /\ Fault
  /\ Asks(s, n)
  /\ Goes(s, n, "failed")
  /\ UNCHANGED <<offsets, ids, wavs>> /\ Only(s, n)

\* The service refuses, or does not answer within its timeout.
SpeakFails(s, n) ==
  /\ Fault
  /\ Asks(s, n)
  /\ offsets' = [offsets EXCEPT ![s] = @ \cup {n}]
  /\ ids' = [ids EXCEPT ![s] = @ \cup {n}]
  /\ Goes(s, n, "failed")
  /\ UNCHANGED wavs /\ Only(s, n)

Wrap(s, n) ==
  /\ TaskAt(s, n, "wrap")
  /\ wavs' = [wavs EXCEPT ![s] = @ \cup {n}]
  /\ Goes(s, n, "build")
  /\ UNCHANGED <<offsets, ids>> /\ Only(s, n)

\* The file cannot be created: the offset is given, the id is not.
WrapFails(s, n) ==
  /\ Fault
  /\ TaskAt(s, n, "wrap")
  /\ offsets' = [offsets EXCEPT ![s] = @ \cup {n}]
  /\ Goes(s, n, "failed")
  /\ UNCHANGED <<ids, wavs>> /\ Only(s, n)

\* Nor can its directory, which throws.
WrapThrows(s, n) ==
  /\ Fault
  /\ TaskAt(s, n, "wrap")
  /\ Goes(s, n, "threw")
  /\ UNCHANGED <<offsets, ids, wavs>> /\ Only(s, n)

\* The frames continue the loop where the sentence before left it.
Build(s, n) ==
  /\ TaskAt(s, n, "build")
  /\ n = 1 \/ n - 1 \in offsets[s]
  /\ offsets' = [offsets EXCEPT ![s] = @ \cup {n}]
  /\ ids' = [ids EXCEPT ![s] = @ \cup {n}]
  /\ Goes(s, n, "publish")
  /\ UNCHANGED wavs /\ Only(s, n)

\* Whether the animation could be stored is not looked at.
Publish(s, n) ==
  /\ TaskAt(s, n, "publish")
  /\ Goes(s, n, "ok")
  /\ UNCHANGED <<offsets, ids, wavs>> /\ Only(s, n)

-----------------------------------------------------------------------------
(* The playback thread.                                                    *)

Is(s, place) == player[s].pc = place

Current(s) == player[s].next + 1

\* Another sentence, or the end, or a look at whether there is one.
Look(s) ==
  /\ Is(s, "look")
  /\ player' = [player EXCEPT ![s].pc =
       IF player[s].next < pushed[s] THEN "get" ELSE IF finished[s] THEN "exited" ELSE "doze"]
  /\ UNCHANGED <<workload, up, requestVars, taskVars, outcomes, exchange, airVars>>

\* Going to sleep releases futuresMutex_.
Sleep(s) ==
  /\ Is(s, "doze")
  /\ player' = [player EXCEPT ![s].pc = "asleep"]
  /\ UNCHANGED <<workload, up, requestVars, taskVars, outcomes, exchange, airVars>>

\* Condition variables may.
WakeSpuriously(s) ==
  /\ Is(s, "asleep")
  /\ player' = [player EXCEPT ![s].pc = "look"]
  /\ UNCHANGED <<workload, up, requestVars, taskVars, outcomes, exchange, airVars>>

Get(s) ==
  /\ Is(s, "get") /\ task[s][Current(s)] \in {"ok", "failed"}
  /\ player' = [player EXCEPT ![s].pc = IF TaskAt(s, Current(s), "ok") THEN "air" ELSE "note"]
  /\ UNCHANGED <<workload, up, requestVars, taskVars, outcomes, exchange, airVars>>

\* The exception leaves the thread's function: std::terminate.
GetThrows(s) ==
  /\ Is(s, "get") /\ TaskAt(s, Current(s), "threw")
  /\ up' = FALSE
  /\ UNCHANGED <<workload, requestVars, player, taskVars, outcomes, exchange, airVars>>

\* Whose words play, or wait to be played.
Speaker(x) == IF x \in Sentence THEN {x.session} ELSE {}

\* The first sentence takes the universe, unless it is refused.
Interrupt(s) ==
  LET first == [session |-> s, number |-> 1]
  IN  /\ Is(s, "air") /\ player[s].next = 0
      /\ \/ air' = first /\ disturbed' = disturbed \cup Speaker(air)
         \/ Fault /\ UNCHANGED air /\ disturbed' = disturbed \cup {s}
      /\ player' = [player EXCEPT ![s].pc = "note"]
      /\ UNCHANGED <<workload, up, requestVars, taskVars, outcomes, exchange, queue, heard>>

\* Mutant of QueueNext: every sentence interrupts.
QueueNextOnAir(s) ==
  /\ Is(s, "air") /\ player[s].next > 0
  /\ air' = [session |-> s, number |-> Current(s)]
  /\ player' = [player EXCEPT ![s].pc = "note"]
  /\ UNCHANGED <<workload, up, requestVars, taskVars, outcomes, exchange, queue, heard, disturbed>>

QueueNext(s) ==
  /\ Is(s, "air") /\ player[s].next > 0
  /\ queue' = Append(queue, [session |-> s, number |-> Current(s)])
  /\ player' = [player EXCEPT ![s].pc = "note"]
  /\ UNCHANGED <<workload, up, requestVars, taskVars, outcomes, exchange, air, heard, disturbed>>

Note(s) ==
  /\ Is(s, "note")
  /\ outcomes' = [outcomes EXCEPT ![s] = Append(@, TaskAt(s, Current(s), "ok"))]
  /\ player' = [player EXCEPT ![s] = [pc |-> "look", next |-> Current(s)]]
  /\ UNCHANGED <<workload, up, requestVars, taskVars, exchange, airVars>>

-----------------------------------------------------------------------------
(* The universe.  What plays is one session of the session manager.        *)

AirOnly ==
  UNCHANGED <<workload, up, requestVars, player, taskVars, outcomes, exchange>>

Heard == heard' = IF air \in Sentence THEN Append(heard, air) ELSE heard

\* A performance ends by itself, and the head of the queue follows if it can
\* be scheduled.
AirEnds ==
  /\ air # Silence
  /\ Heard
  /\ IF queue = <<>>
     THEN air' = Silence /\ UNCHANGED <<queue, disturbed>>
     ELSE /\ queue' = Tail(queue)
          /\ \/ air' = Head(queue) /\ UNCHANGED disturbed
             \/ Fault /\ air' = Silence /\ disturbed' = disturbed \cup Speaker(Head(queue))
  /\ AirOnly

\* It cannot be loaded: the queue behind it is dropped.
AirAborts ==
  /\ Fault
  /\ air # Silence
  /\ air' = Silence /\ queue' = <<>>
  /\ disturbed' = disturbed \cup Speaker(air) \cup UNION {Speaker(x) : x \in Range(queue)}
  /\ UNCHANGED heard /\ AirOnly

\* Another performance takes the universe, or what plays is cancelled for none.
AirTaken ==
  /\ Fault
  /\ air' \in {Silence, Other} \ {air}
  /\ air' = Silence => air # Silence
  /\ disturbed' = disturbed \cup Speaker(air)
  /\ UNCHANGED <<queue, heard>> /\ AirOnly

-----------------------------------------------------------------------------

Finishing(s) == NotifyFinished(s) \/ FinishExchange(s)

Adding(s) == AddText(s) \/ PushFuture(s) \/ WakePlayer(s)

ClientStep(s) == Start(s) \/ StartFails(s) \/ Adding(s) \/ FinishEmpty(s) \/ BeginFinish(s) \/ Finishing(s)

TaskStep(s, n) ==
  \/ Speak(s, n) \/ SpeakFails(s, n)
  \/ Wrap(s, n) \/ WrapFails(s, n) \/ WrapThrows(s, n)
  \/ Build(s, n) \/ Publish(s, n)

PlayerStep(s) ==
  Look(s) \/ Sleep(s) \/ Get(s) \/ GetThrows(s) \/ Interrupt(s) \/ QueueNext(s) \/ Note(s)

SpeechNext ==
  /\ up
  /\ \/ \E s \in Session : ClientStep(s) \/ PlayerStep(s) \/ WakeSpuriously(s)
     \/ \E s \in Session, n \in Number : TaskStep(s, n)
     \/ AirEnds \/ AirAborts \/ AirTaken

SpeechSpec == SpeechInit /\ [][SpeechNext]_speechVars

\* Threads run, and the speech service answers or times out.  Nobody need
\* speak, and nothing need play to its end.
Fairness ==
  \A s \in Session :
    /\ WF_speechVars(up /\ (PushFuture(s) \/ WakePlayer(s) \/ Finishing(s)))
    /\ WF_speechVars(up /\ PlayerStep(s))
    /\ \A n \in Number : WF_speechVars(up /\ TaskStep(s, n))

SpeechFairSpec == SpeechSpec /\ Fairness

-----------------------------------------------------------------------------
(* Properties.                                                             *)

SpeechTypeOK ==
  /\ workload \in Workloads /\ up \in BOOLEAN
  /\ client \in [Session -> {"new", "open", "push", "wake", "sealed", "joining", "gone"}]
  /\ said \in [Session -> 0 .. MaxSentences] /\ pushed \in [Session -> 0 .. MaxSentences]
  /\ finished \in [Session -> BOOLEAN]
  /\ player \in [Session -> [pc : {"unborn", "look", "doze", "asleep", "get", "air", "note", "exited"},
                             next : 0 .. MaxSentences]]
  /\ task \in [Session -> [Number ->
       {"none", "ask", "wrap", "build", "publish"} \cup Ended]]
  /\ offsets \in [Session -> SUBSET Number] /\ ids \in [Session -> SUBSET Number]
  /\ wavs \in [Session -> SUBSET Number]
  /\ outcomes \in [Session -> Seq(BOOLEAN)]
  /\ exchange \in [Session -> [status : {"absent", "streaming", "ready", "partial", "failed"},
                               parts : SUBSET Number]]
  /\ air \in Sentence \cup {Silence, Other}
  /\ queue \in Seq(Sentence) /\ heard \in Seq(Sentence)
  /\ disturbed \subseteq Session

\* Tasks and the thread work on the session object itself.
NobodyOutlivesTheSession ==
  \A s \in Session : client[s] = "gone" =>
    /\ player[s].pc \in {"unborn", "exited"}
    /\ \A n \in Number : task[s][n] \in Ended \cup {"none"}

\* A finalized record accounts for every sentence, and its parts are on disk.
ExchangeIsTrue ==
  \A s \in Session : exchange[s].status \notin {"absent", "streaming"} =>
    /\ Len(outcomes[s]) = said[s]
    /\ exchange[s].parts = Parts(s)
    /\ \A n \in exchange[s].parts : n \in wavs[s] /\ task[s][n] = "ok"
    /\ exchange[s].status = "ready" => \A n \in 1 .. said[s] : task[s][n] = "ok"

\* Of any two sentences of a session, the earlier one comes first.
Ordered(line) ==
  \A i, j \in DOMAIN line :
    i < j /\ line[i].session = line[j].session => line[i].number < line[j].number

Playing == IF air \in Sentence THEN <<air>> ELSE <<>>

\* Sentences pass through the universe one by one, each session's in order.
InOrder == Ordered(heard \o Playing \o queue)

(* Safety: a session that is removed leaves no thread at work on it, the   *)
(* record finish() writes names exactly the sentences that were rendered,  *)
(* whose files exist (exchange-export-plan.md: all part WAVs exist before  *)
(* finish returns), and no sentence overtakes another of its session.      *)
SpeechConsistent == SpeechTypeOK /\ NobodyOutlivesTheSession /\ ExchangeIsTrue /\ InOrder

NumbersIn(s, line) == {x.number : x \in {y \in Range(line) : y.session = s}}

(* Safety (exchange-export-plan.md: the stitched parts are what was        *)
(* heard): when none of a finished session's sentences plays or waits any  *)
(* more, those of its record, and no others, were played to the end, each  *)
(* once and in order, unless another performance or an error interfered.   *)
HeardIsRecorded ==
  \A s \in Session :
    (/\ exchange[s].status \notin {"absent", "streaming"}
     /\ s \notin disturbed
     /\ NumbersIn(s, Playing \o queue) = {})
      => NumbersIn(s, heard) = exchange[s].parts /\ Ordered(heard)

\* The last notification came between the thread's look and its sleep.
SleepsThrough(s) == client[s] = "joining" /\ player[s].pc = "asleep"

\* A sentence waits for the id of one that was spoken and then not wrapped.
AwaitsBrokenPromise(s) ==
  \E n \in Number \ {1} : task[s][n] = "ask" /\ task[s][n - 1] = "failed" /\ n - 1 \in offsets[s] \ ids[s]

(* Liveness: finish() returns, whatever sentences fail, unless the server  *)
(* goes down, its notification is lost, or a file could not be written and *)
(* the next sentence waits for a promise that nobody keeps any more.       *)
FinishReturns ==
  \A s \in Session :
    client[s] = "sealed" ~>
      (client[s] = "gone" \/ ~up \/ SleepsThrough(s) \/ AwaitsBrokenPromise(s))

=============================================================================
