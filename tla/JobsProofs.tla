----------------------------- MODULE JobsProofs -----------------------------
(***************************************************************************)
(* Machine-checked proofs about module Jobs, for every finite set of jobs, *)
(* every set of clients, scenes and copies, every number of music slots    *)
(* and every bound on the edits of clients.                                *)
(***************************************************************************)
EXTENDS Jobs, FiniteSetTheorems, TLAPS

ClientState == [at : {"idle", "submit", "enqueue", "refuse"}, job : Job \cup {None}]

WorkerState == [at : Places, job : Job \cup {None}]

\* The two halves of TypeOK: who holds which job, and what handlers work on.
ControlTyped ==
  /\ job \in [Job -> JobState]
  /\ client \in [Client -> ClientState]
  /\ queue \subseteq Job /\ musicQueue \subseteq Job
  /\ slots \in Nat
  /\ worker \in [Worker -> WorkerState]

DataTyped ==
  /\ stopping \in BOOLEAN
  /\ render \in Render
  /\ library \in [Show -> Animation \cup {None}]
  /\ adhoc \subseteq Job /\ sounds \subseteq Sound
  /\ edits \in Nat

\* A request holds the job it has created, alone, and it is Queued.
Requests ==
  /\ \A c \in Client : client[c].at = "idle" <=> client[c].job = None
  /\ \A c \in Client : client[c].at # "idle" =>
       /\ job[client[c].job].status = "Queued"
       /\ client[c].job \notin queue \cup musicQueue
       /\ \A w \in Worker : client[c].job # worker[w].job
  /\ \A c \in Client : client[c].at \in {"enqueue", "refuse"} =>
       job[client[c].job].kind = "dialogMusic"
  /\ \A c, d \in Client :
       client[c].job = client[d].job /\ client[c].job # None => c = d

\* Music has a queue and a thread of its own.
Lanes ==
  /\ \A j \in queue : job[j].kind # "dialogMusic" /\ job[j].status = "Queued"
  /\ \A j \in musicQueue : job[j].kind = "dialogMusic" /\ job[j].status = "Queued"
  /\ worker["main"].job # None => job[worker["main"].job].kind # "dialogMusic"
  /\ worker["music"].job # None => job[worker["music"].job].kind = "dialogMusic"
  /\ worker["music"].at \in {"waiting", "work", "leave"}

\* A worker has a job unless it waits, and runs it until it leaves it; a job
\* in a worker's hand is in no queue.
Hands ==
  /\ \A w \in Worker :
       /\ worker[w].at = "waiting" <=> worker[w].job = None
       /\ worker[w].at = "leave" => job[worker[w].job].status \in {"Completed", "Failed"}
       /\ worker[w].at \notin {"waiting", "leave"} => job[worker[w].job].status = "Running"
       /\ worker[w].job \notin queue \cup musicQueue
  /\ \A j \in Job : job[j].status = "Running" => \E w \in Worker : worker[w].job = j

Counted == slots = Cardinality(InFlight)

Control == ControlTyped /\ Requests /\ Lanes /\ Hands /\ Counted

(* What the control part of the invariant says is what JobsConsistent says *)
(* of it.                                                                  *)
LEMMA ControlIsConsistent == Control /\ DataTyped => JobsConsistent
<1> SUFFICES ASSUME Control, DataTyped PROVE JobsConsistent
  OBVIOUS
<1> USE DEF Control
<1>1. TypeOK
  BY DEF TypeOK, ControlTyped, DataTyped, ClientState, WorkerState
<1>2. Worker = {"main", "music"}
  BY DEF Worker
<1>3. \A j \in Job : j \in Taken <=> \E w \in Worker : worker[w].job = j
  BY JobsAssumption DEF Taken, Mine
<1>4. \A j \in Taken : \E w \in Worker : worker[w].job = j
  BY DEF Taken, Mine
<1>5. queue \cap (musicQueue \cup Taken) = {} /\ musicQueue \cap Taken = {}
  <2>1. queue \cap musicQueue = {}
    BY DEF Lanes
  <2> QED
    BY <1>4, <2>1 DEF Hands
<1>6. \A j \in queue \cup musicQueue : job[j].status = "Queued"
  BY DEF Lanes
<1>7. \A w \in Worker :
       CASE At(w, "waiting") -> Mine(w) = None
         [] At(w, "leave") -> Mine(w) # None /\ Ended(Mine(w))
         [] OTHER -> Mine(w) # None /\ job[Mine(w)].status = "Running"
  BY DEF Hands, At, Mine, Ended
<1>8. \A j \in Job : job[j].status = "Running" => j \in Taken
  BY <1>3 DEF Hands
<1> QED
  BY <1>1, <1>5, <1>6, <1>7, <1>8 DEF JobsConsistent, Counted

(* The music jobs that have a slot are finitely many.                      *)
LEMMA InFlightIsFinite ==
  ASSUME ControlTyped
  PROVE  InFlight \subseteq Job \cup {None} /\ IsFiniteSet(InFlight) /\ Cardinality(InFlight) \in Nat
<1>1. InFlight \subseteq Job \cup {None}
  BY DEF InFlight, Mine, ControlTyped, ClientState, WorkerState, Worker
<1>2. IsFiniteSet(Job \cup {None})
  BY JobsAssumption, FS_AddElement
<1>3. IsFiniteSet(InFlight)
  BY <1>1, <1>2, FS_Subset
<1> QED
  BY <1>1, <1>3, FS_CardinalityType

(* Servers start with no jobs.                                             *)
LEMMA ControlInit == Init => Control
<1> SUFFICES ASSUME Init PROVE Control
  OBVIOUS
<1>1. ControlTyped
  BY DEF Init, ControlTyped, JobState, Unborn, ClientState, WorkerState, Places
<1>2. Requests /\ Lanes /\ Hands
  BY DEF Init, Requests, Lanes, Hands, Worker, Unborn
<1>3. InFlight = {}
  BY DEF Init, InFlight, Mine, Worker
<1> QED
  BY <1>1, <1>2, <1>3, FS_EmptySet DEF Control, Counted, Init

-----------------------------------------------------------------------------
(* The steps of requests.                                                  *)

(* createJob keeps the control part: the new job is in nobody's hands.     *)
LEMMA CreateKeeps ==
  ASSUME Control, NEW c \in Client, NEW j \in Job, NEW kind \in Kinds, CreateJob(c, j, kind)
  PROVE  Control'
<1> USE DEF Control
<1>1. PICK about \in Details(kind) :
        job' = [job EXCEPT ![j] = [kind |-> kind, status |-> "Queued",
                                   scene |-> about.scene, targets |-> about.targets]]
  BY DEF CreateJob
<1>2. job'[j] \in JobState
  <2>1. about.scene \in Scene \cup {None} /\ about.targets \in SUBSET Show
    BY DEF Details, Library
  <2> QED
    BY <1>1, <2>1 DEF JobState, ControlTyped
<1>3. /\ client[c].at = "idle" /\ job[j].status = "none"
      /\ client' = [client EXCEPT ![c] = [at |-> "submit", job |-> j]]
      /\ UNCHANGED <<queue, musicQueue, slots, worker>>
  BY DEF CreateJob, NextJob
<1>4. /\ job'[j].status = "Queued"
      /\ \A k \in Job : k # j => job'[k] = job[k]
  BY <1>1 DEF ControlTyped
<1>5. /\ j \notin queue \cup musicQueue
      /\ \A w \in Worker : worker[w].job # j
      /\ \A d \in Client : client[d].job # j
  <2>1. j \notin queue \cup musicQueue
    BY <1>3 DEF Lanes
  <2>2. \A w \in Worker : worker[w].job # j
    BY <1>3, JobsAssumption DEF Hands
  <2>3. \A d \in Client : client[d].job # j
    BY <1>3, JobsAssumption DEF Requests
  <2> QED
    BY <2>1, <2>2, <2>3
<1>6. ControlTyped'
  BY <1>1, <1>2, <1>3, <1>4 DEF ControlTyped, ClientState
<1>7. Requests'
  <2>1. client'[c] = [at |-> "submit", job |-> j]
    BY <1>3 DEF ControlTyped
  <2>2. \A d \in Client : d # c =>
          /\ client'[d] = client[d] /\ client[d].job # j
          /\ client[d].job # None => job'[client[d].job] = job[client[d].job]
    BY <1>3, <1>4, <1>5 DEF ControlTyped, ClientState
  <2>3. \A d \in Client : client'[d].at = "idle" <=> client'[d].job = None
    BY <2>1, <2>2, JobsAssumption DEF Requests
  <2>4. \A d \in Client : client'[d].at # "idle" =>
          /\ job'[client'[d].job].status = "Queued"
          /\ client'[d].job \notin queue' \cup musicQueue'
          /\ \A w \in Worker : client'[d].job # worker'[w].job
    BY <1>3, <1>4, <1>5, <2>1, <2>2 DEF Requests
  <2>5. \A d \in Client : client'[d].at \in {"enqueue", "refuse"} =>
          job'[client'[d].job].kind = "dialogMusic"
    BY <2>1, <2>2 DEF Requests
  <2>6. \A d, e \in Client :
          client'[d].job = client'[e].job /\ client'[d].job # None => d = e
    BY <2>1, <2>2 DEF Requests
  <2> QED
    BY <2>3, <2>4, <2>5, <2>6 DEF Requests
<1>8. Lanes'
  BY <1>3, <1>4, <1>5 DEF Lanes, ControlTyped, WorkerState, Worker
<1>9. Hands'
  BY <1>3, <1>4, <1>5 DEF Hands, ControlTyped, WorkerState
<1>10. InFlight' = InFlight
  BY <1>3 DEF InFlight, Mine, ControlTyped
<1> QED
  BY <1>3, <1>6, <1>7, <1>8, <1>9, <1>10 DEF Counted

(* queueJob hands the job over from its request to the queue.              *)
LEMMA QueueKeeps ==
  ASSUME Control, NEW c \in Client, QueueJob(c)
  PROVE  Control'
<1> USE DEF Control
<1>1. /\ client[c].at = "submit" /\ client[c].job \in Job
      /\ job[client[c].job].kind # "dialogMusic" /\ job[client[c].job].status = "Queued"
  BY DEF QueueJob, Submits, Requests, ControlTyped, ClientState
<1>2. /\ queue' = queue \cup {client[c].job}
      /\ client' = [client EXCEPT ![c] = [at |-> "idle", job |-> None]]
      /\ UNCHANGED <<job, musicQueue, slots, worker>>
  BY DEF QueueJob, Answers
<1>3. ControlTyped'
  BY <1>1, <1>2 DEF ControlTyped, ClientState
<1>4. Requests'
  BY <1>1, <1>2, JobsAssumption DEF Requests, ControlTyped, ClientState
<1>5. Lanes'
  BY <1>1, <1>2 DEF Lanes
<1>6. Hands'
  BY <1>1, <1>2 DEF Hands, Requests
<1>7. InFlight' = InFlight
  BY <1>1, <1>2 DEF InFlight, Mine, ControlTyped
<1> QED
  BY <1>2, <1>3, <1>4, <1>5, <1>6, <1>7 DEF Counted

(* The compare-exchange counts the job in when it gets its slot.           *)
LEMMA ReserveKeeps ==
  ASSUME Control, NEW c \in Client, ReserveSlot(c)
  PROVE  /\ Control'
         /\ client[c].job \in Job \ InFlight
         /\ InFlight' = InFlight \cup {client[c].job}
<1> USE DEF Control
<1>1. /\ client[c].at = "submit" /\ client[c].job \in Job
      /\ job[client[c].job].kind = "dialogMusic"
  BY DEF ReserveSlot, Submits, Requests, ControlTyped, ClientState
<1>2. /\ slots' = slots + 1
      /\ client' = [client EXCEPT ![c].at = "enqueue"]
      /\ UNCHANGED <<job, queue, musicQueue, worker>>
  BY DEF ReserveSlot
<1>3. ControlTyped'
  BY <1>1, <1>2 DEF ControlTyped, ClientState
<1>4. Requests'
  BY <1>1, <1>2, JobsAssumption DEF Requests, ControlTyped, ClientState
<1>5. Lanes' /\ Hands'
  BY <1>2 DEF Lanes, Hands
<1>6. client[c].job \notin InFlight
  BY <1>1 DEF InFlight, Mine, Requests, Worker
<1>7. InFlight' = InFlight \cup {client[c].job}
  BY <1>1, <1>2 DEF InFlight, Mine, ControlTyped, ClientState
<1>8. Cardinality(InFlight') = Cardinality(InFlight) + 1
  BY <1>6, <1>7, InFlightIsFinite, FS_AddElement
<1> QED
  BY <1>1, <1>2, <1>3, <1>4, <1>5, <1>6, <1>7, <1>8 DEF Counted

(* The job keeps its slot on the way into the queue.                       *)
LEMMA EnqueueKeeps ==
  ASSUME Control, NEW c \in Client, EnqueueMusic(c)
  PROVE  Control' /\ InFlight' = InFlight
<1> USE DEF Control
<1>1. /\ client[c].at = "enqueue" /\ client[c].job \in Job
      /\ job[client[c].job].kind = "dialogMusic" /\ job[client[c].job].status = "Queued"
  BY DEF EnqueueMusic, Requests, ControlTyped, ClientState
<1>2. /\ musicQueue' = musicQueue \cup {client[c].job}
      /\ client' = [client EXCEPT ![c] = [at |-> "idle", job |-> None]]
      /\ UNCHANGED <<job, queue, slots, worker>>
  BY DEF EnqueueMusic, Answers
<1>3. ControlTyped'
  BY <1>1, <1>2 DEF ControlTyped, ClientState
<1>4. Requests'
  BY <1>1, <1>2, JobsAssumption DEF Requests, ControlTyped, ClientState
<1>5. Lanes'
  BY <1>1, <1>2 DEF Lanes
<1>6. Hands'
  BY <1>1, <1>2 DEF Hands, Requests
<1>7. InFlight' = InFlight
  <2>1. {d \in Client : client[d].at = "enqueue"} = {d \in Client : client'[d].at = "enqueue"} \cup {c}
    BY <1>1, <1>2 DEF ControlTyped
  <2>2. \A d \in Client : d # c => client'[d] = client[d]
    BY <1>2 DEF ControlTyped
  <2> QED
    BY <1>1, <1>2, <2>1, <2>2 DEF InFlight, Mine, ControlTyped
<1> QED
  BY <1>2, <1>3, <1>4, <1>5, <1>6, <1>7 DEF Counted

(* A request that finds no slot leaves the counter alone.                  *)
LEMMA RefuseKeeps ==
  ASSUME Control, NEW c \in Client, RefuseMusic(c)
  PROVE  Control' /\ InFlight' = InFlight
<1> USE DEF Control
<1>1. /\ client[c].at = "submit"
      /\ job[client[c].job].kind = "dialogMusic"
      /\ client' = [client EXCEPT ![c].at = "refuse"]
      /\ UNCHANGED <<job, queue, musicQueue, slots, worker>>
  BY DEF RefuseMusic, Submits
<1>2. ControlTyped'
  BY <1>1 DEF ControlTyped, ClientState
<1>3. Requests'
  BY <1>1 DEF Requests, ControlTyped, ClientState
<1>4. Lanes' /\ Hands'
  BY <1>1 DEF Lanes, Hands
<1>5. InFlight' = InFlight
  BY <1>1 DEF InFlight, Mine, ControlTyped
<1> QED
  BY <1>1, <1>2, <1>3, <1>4, <1>5 DEF Counted

(* The controller fails the job that got no slot, and nobody else has it.  *)
LEMMA FailRefusedKeeps ==
  ASSUME Control, NEW c \in Client, FailRefused(c)
  PROVE  Control' /\ InFlight' = InFlight
<1> USE DEF Control
<1>1. /\ client[c].at = "refuse" /\ client[c].job \in Job
      /\ job[client[c].job].status = "Queued"
      /\ client[c].job \notin queue \cup musicQueue
      /\ \A w \in Worker : client[c].job # worker[w].job
  BY DEF FailRefused, Requests, ControlTyped, ClientState
<1>2. /\ job' = [job EXCEPT ![client[c].job].status = "Failed"]
      /\ client' = [client EXCEPT ![c] = [at |-> "idle", job |-> None]]
      /\ UNCHANGED <<queue, musicQueue, slots, worker>>
  BY DEF FailRefused, Answers
<1>3. /\ job'[client[c].job] = [job[client[c].job] EXCEPT !.status = "Failed"]
      /\ \A k \in Job : k # client[c].job => job'[k] = job[k]
  BY <1>1, <1>2 DEF ControlTyped
<1>4. ControlTyped'
  <2>1. job'[client[c].job] \in JobState
    BY <1>1, <1>3 DEF ControlTyped, JobState
  <2>2. job' \in [Job -> JobState]
    BY <1>2, <1>3, <2>1 DEF ControlTyped
  <2>3. client' \in [Client -> ClientState]
    BY <1>2 DEF ControlTyped, ClientState
  <2> QED
    BY <1>2, <2>2, <2>3 DEF ControlTyped
<1>5. Requests'
  <2>1. \A d \in Client : d # c =>
          /\ client'[d] = client[d]
          /\ client[d].job # None => job'[client[d].job] = job[client[d].job]
    BY <1>1, <1>2, <1>3, JobsAssumption DEF Requests, ControlTyped, ClientState
  <2> QED
    BY <1>1, <1>2, <2>1, JobsAssumption DEF Requests, ControlTyped, ClientState
<1>6. Lanes'
  BY <1>1, <1>2, <1>3 DEF Lanes, ControlTyped, WorkerState, Worker
<1>7. Hands'
  <2>1. job'[client[c].job].status = "Failed"
    BY <1>1, <1>3 DEF ControlTyped, JobState
  <2>2. \A w \in Worker : worker[w].job # None => job'[worker[w].job] = job[worker[w].job]
    BY <1>1, <1>3 DEF ControlTyped, WorkerState
  <2> QED
    BY <1>1, <1>2, <1>3, <2>1, <2>2 DEF Hands
<1>8. InFlight' = InFlight
  BY <1>1, <1>2 DEF InFlight, Mine, ControlTyped
<1> QED
  BY <1>2, <1>4, <1>5, <1>6, <1>7, <1>8 DEF Counted

-----------------------------------------------------------------------------
(* The steps of workers.                                                   *)

Running(w) == worker[w].at \notin {"waiting", "leave"}

(* What holds of a step that changes one job's status only.                *)
LEMMA StatusStep ==
  ASSUME ControlTyped, NEW j \in Job, NEW status \in {"Running", "Completed", "Failed"},
         job' = [job EXCEPT ![j].status = status]
  PROVE  /\ job' \in [Job -> JobState]
         /\ job'[j].status = status /\ job'[j].kind = job[j].kind
         /\ job'[j].scene = job[j].scene
         /\ \A k \in Job : k # j => job'[k] = job[k]
<1>1. job'[j] = [job[j] EXCEPT !.status = status] /\ job[j] \in JobState
  BY DEF ControlTyped
<1>2. /\ job'[j] \in JobState /\ job'[j].status = status /\ job'[j].kind = job[j].kind
      /\ job'[j].scene = job[j].scene
  BY <1>1 DEF JobState
<1>3. \A k \in Job : k # j => job'[k] = job[k]
  BY DEF ControlTyped
<1>4. job' \in [Job -> JobState]
  BY <1>2, <1>3 DEF ControlTyped
<1> QED
  BY <1>2, <1>3, <1>4

(* A worker that takes a job runs it and takes it out of its queue.        *)
LEMMA TakeJobKeeps ==
  ASSUME Control, TakeJob
  PROVE  Control' /\ InFlight' = InFlight
<1> USE DEF Control
<1>1. PICK j \in queue : Starts("main", j) /\ queue' = queue \ {j} /\ UNCHANGED musicQueue
  BY DEF TakeJob
<1>2. /\ worker["main"].at = "waiting" /\ worker["main"].job = None
      /\ job' = [job EXCEPT ![j].status = "Running"]
      /\ worker' = [worker EXCEPT !["main"] = [at |-> "work", job |-> j]]
      /\ UNCHANGED <<client, slots>>
  BY <1>1 DEF Starts, At, Hands, Worker
<1>3. j \in Job /\ j \notin musicQueue /\ job[j].kind # "dialogMusic"
  BY DEF ControlTyped, Lanes
<1>4. /\ job' \in [Job -> JobState]
      /\ job'[j].status = "Running" /\ job'[j].kind = job[j].kind
      /\ \A k \in Job : k # j => job'[k] = job[k]
  BY <1>2, <1>3, StatusStep
<1>5. /\ worker'["main"] = [at |-> "work", job |-> j]
      /\ worker'["music"] = worker["music"]
      /\ worker["music"].job # j
  BY <1>2, <1>3 DEF ControlTyped, Worker, Hands
<1>6. ControlTyped'
  BY <1>1, <1>2, <1>3, <1>4 DEF ControlTyped, WorkerState, Places
<1>7. Requests'
  <2>1. \A c \in Client : client[c].job # j /\ (client[c].job # None => job'[client[c].job] = job[client[c].job])
    <3>1. \A c \in Client : client[c].job # j
      BY <1>3, JobsAssumption DEF Requests
    <3> QED
      BY <1>4, <3>1 DEF ControlTyped, ClientState
  <2>2. \A c \in Client : client[c].at # "idle" => \A w \in Worker : client[c].job # worker'[w].job
    BY <1>5, <2>1 DEF Requests, Worker
  <2> QED
    BY <1>1, <1>2, <2>1, <2>2 DEF Requests
<1>8. Lanes'
  <2>1. \A k \in Job : job'[k].kind = job[k].kind
    BY <1>3, <1>4
  <2>2. \A k \in queue' \cup musicQueue' : k \in Job /\ job'[k] = job[k]
    BY <1>1, <1>3, <1>4 DEF ControlTyped
  <2>3. worker["music"].job # None => worker["music"].job \in Job
    BY DEF ControlTyped, WorkerState, Worker
  <2> QED
    BY <1>1, <1>3, <1>5, <2>1, <2>2, <2>3 DEF Lanes
<1>9. Hands'
  <2>1. \A k \in Job : job'[k].status = "Running" => \E w \in Worker : worker'[w].job = k
    <3> SUFFICES ASSUME NEW k \in Job, k # j, job'[k].status = "Running"
                 PROVE  worker'["music"].job = k
      BY <1>5 DEF Worker
    <3>1. \E w \in Worker : worker[w].job = k
      BY <1>4 DEF Hands
    <3> QED
      BY <1>2, <1>5, <3>1, JobsAssumption DEF Worker
  <2>2. worker["music"].job # None => job'[worker["music"].job] = job[worker["music"].job]
    BY <1>4, <1>5 DEF ControlTyped, WorkerState, Worker
  <2>3. \A w \in Worker : worker'[w].job \notin queue' \cup musicQueue'
    BY <1>1, <1>3, <1>5 DEF Hands, Worker
  <2> QED
    BY <1>3, <1>4, <1>5, <2>1, <2>2, <2>3, JobsAssumption DEF Hands, Worker
<1>10. InFlight' = InFlight
  BY <1>1, <1>2, <1>5 DEF InFlight, Mine
<1> QED
  BY <1>2, <1>6, <1>7, <1>8, <1>9, <1>10 DEF Counted

(* The same of the music thread; the job keeps its slot.                   *)
LEMMA TakeMusicKeeps ==
  ASSUME Control, TakeMusic
  PROVE  Control' /\ InFlight' = InFlight
<1> USE DEF Control
<1>1. PICK j \in musicQueue : Starts("music", j) /\ musicQueue' = musicQueue \ {j} /\ UNCHANGED queue
  BY DEF TakeMusic
<1>2. /\ worker["music"].at = "waiting" /\ worker["music"].job = None
      /\ job' = [job EXCEPT ![j].status = "Running"]
      /\ worker' = [worker EXCEPT !["music"] = [at |-> "work", job |-> j]]
      /\ UNCHANGED <<client, slots>>
  BY <1>1 DEF Starts, At, Hands, Worker
<1>3. j \in Job /\ j \notin queue /\ job[j].kind = "dialogMusic"
  BY DEF ControlTyped, Lanes
<1>4. /\ job' \in [Job -> JobState]
      /\ job'[j].status = "Running" /\ job'[j].kind = job[j].kind
      /\ \A k \in Job : k # j => job'[k] = job[k]
  BY <1>2, <1>3, StatusStep
<1>5. /\ worker'["music"] = [at |-> "work", job |-> j]
      /\ worker'["main"] = worker["main"]
      /\ worker["main"].job # j
  BY <1>2, <1>3 DEF ControlTyped, Worker, Hands
<1>6. ControlTyped'
  BY <1>1, <1>2, <1>3, <1>4 DEF ControlTyped, WorkerState, Places
<1>7. Requests'
  <2>1. \A c \in Client : client[c].job # j /\ (client[c].job # None => job'[client[c].job] = job[client[c].job])
    <3>1. \A c \in Client : client[c].job # j
      BY <1>3, JobsAssumption DEF Requests
    <3> QED
      BY <1>4, <3>1 DEF ControlTyped, ClientState
  <2>2. \A c \in Client : client[c].at # "idle" => \A w \in Worker : client[c].job # worker'[w].job
    BY <1>5, <2>1 DEF Requests, Worker
  <2> QED
    BY <1>1, <1>2, <2>1, <2>2 DEF Requests
<1>8. Lanes'
  BY <1>1, <1>3, <1>4, <1>5 DEF Lanes, ControlTyped, WorkerState, Worker
<1>9. Hands'
  <2>1. \A k \in Job : job'[k].status = "Running" => \E w \in Worker : worker'[w].job = k
    <3> SUFFICES ASSUME NEW k \in Job, k # j, job'[k].status = "Running"
                 PROVE  worker'["main"].job = k
      BY <1>5 DEF Worker
    <3>1. \E w \in Worker : worker[w].job = k
      BY <1>4 DEF Hands
    <3> QED
      BY <1>2, <1>5, <3>1, JobsAssumption DEF Worker
  <2>2. worker["main"].job # None => job'[worker["main"].job] = job[worker["main"].job]
    BY <1>4, <1>5 DEF ControlTyped, WorkerState, Worker
  <2>3. \A w \in Worker : worker'[w].job \notin queue' \cup musicQueue'
    BY <1>1, <1>3, <1>5 DEF Hands, Worker
  <2> QED
    BY <1>3, <1>4, <1>5, <2>1, <2>2, <2>3, JobsAssumption DEF Hands, Worker
<1>10. InFlight' = InFlight
  BY <1>1, <1>2, <1>3, <1>5, JobsAssumption DEF InFlight, Mine
<1> QED
  BY <1>2, <1>6, <1>7, <1>8, <1>9, <1>10 DEF Counted

(* A handler that ends its job leaves it in its thread's hand.             *)
LEMMA EndsKeeps ==
  ASSUME Control, NEW w \in Worker, NEW status \in {"Completed", "Failed"},
         Running(w), Ends(w, status)
  PROVE  /\ Control' /\ InFlight' = InFlight
         /\ worker[w].job \in Job
<1> USE DEF Control
<1>1. worker[w].job \in Job /\ job[worker[w].job].status = "Running"
  BY DEF Hands, Running, ControlTyped, WorkerState
<1>2. /\ job' = [job EXCEPT ![worker[w].job].status = status]
      /\ worker' = [worker EXCEPT ![w].at = "leave"]
      /\ UNCHANGED <<client, queue, musicQueue, slots>>
  BY DEF Ends, Goto, Mine
<1>3. /\ job' \in [Job -> JobState]
      /\ job'[worker[w].job].status = status /\ job'[worker[w].job].kind = job[worker[w].job].kind
      /\ \A k \in Job : k # worker[w].job => job'[k] = job[k]
  BY <1>1, <1>2, StatusStep
<1>4. /\ worker'[w].at = "leave" /\ worker'[w].job = worker[w].job
      /\ \A v \in Worker : v # w => worker'[v] = worker[v]
  BY <1>2 DEF ControlTyped, WorkerState
<1>5. \A v \in Worker : v # w => worker[v].job # worker[w].job
  BY <1>1, JobsAssumption DEF Lanes, Worker
<1>6. ControlTyped'
  BY <1>2, <1>3 DEF ControlTyped, WorkerState, Places
<1>7. Requests'
  <2>1. \A c \in Client : client[c].job # None => job'[client[c].job] = job[client[c].job]
    BY <1>3, JobsAssumption DEF Requests, ControlTyped, ClientState
  <2> QED
    BY <1>2, <1>4, <2>1 DEF Requests
<1>8. \A k \in Job : job'[k].kind = job[k].kind
  BY <1>3
<1>9. Lanes'
  <2>1. \A k \in queue \cup musicQueue : job'[k] = job[k]
    BY <1>3 DEF Hands, ControlTyped
  <2>2. \A v \in Worker : worker'[v].job = worker[v].job /\ worker[v].job \in Job \cup {None}
    BY <1>4 DEF ControlTyped, WorkerState
  <2>3. worker'["music"].at \in {"waiting", "work", "leave"}
    BY <1>4 DEF Lanes, Worker
  <2>4. /\ worker'["main"].job # None => job'[worker'["main"].job].kind # "dialogMusic"
        /\ worker'["music"].job # None => job'[worker'["music"].job].kind = "dialogMusic"
    BY <1>8, <2>2 DEF Lanes, Worker
  <2>5. /\ \A k \in queue' : job'[k].kind # "dialogMusic" /\ job'[k].status = "Queued"
        /\ \A k \in musicQueue' : job'[k].kind = "dialogMusic" /\ job'[k].status = "Queued"
    <3>1. queue' = queue /\ musicQueue' = musicQueue
      BY <1>2
    <3> QED
      BY <2>1, <3>1 DEF Lanes
  <2> QED
    BY <2>3, <2>4, <2>5 DEF Lanes
<1>10. Hands'
  <2>1. \A v \in Worker : v # w /\ worker[v].job # None => job'[worker[v].job] = job[worker[v].job]
    BY <1>3, <1>5 DEF ControlTyped, WorkerState
  <2>2. \A k \in Job : job'[k].status = "Running" => \E v \in Worker : worker'[v].job = k
    <3> SUFFICES ASSUME NEW k \in Job, k # worker[w].job, job'[k].status = "Running"
                 PROVE  \E v \in Worker : worker'[v].job = k
      BY <1>4
    <3> QED
      BY <1>3, <1>4 DEF Hands
  <2>3. ASSUME NEW v \in Worker
        PROVE  /\ worker'[v].at = "waiting" <=> worker'[v].job = None
               /\ worker'[v].at = "leave" => job'[worker'[v].job].status \in {"Completed", "Failed"}
               /\ worker'[v].at \notin {"waiting", "leave"} => job'[worker'[v].job].status = "Running"
               /\ worker'[v].job \notin queue' \cup musicQueue'
    <3>1. CASE v = w
      BY <1>1, <1>2, <1>3, <1>4, <3>1, JobsAssumption DEF Hands
    <3>2. CASE v # w
      <4>1. worker'[v] = worker[v] /\ queue' = queue /\ musicQueue' = musicQueue
        BY <1>2, <1>4, <3>2
      <4>2. worker[v].job # None => job'[worker[v].job] = job[worker[v].job]
        BY <2>1, <3>2
      <4> QED
        BY <4>1, <4>2 DEF Hands
    <3> QED
      BY <3>1, <3>2
  <2> QED
    BY <2>2, <2>3 DEF Hands
<1>11. InFlight' = InFlight
  BY <1>2, <1>4 DEF InFlight, Mine, Worker
<1> QED
  BY <1>1, <1>2, <1>6, <1>7, <1>9, <1>10, <1>11 DEF Counted

(* The main worker's handler goes on to its next place.                    *)
LEMMA GoesKeeps ==
  ASSUME Control, NEW place \in Places, place \notin {"waiting", "leave"},
         Running("main"), Goes("main", place)
  PROVE  Control' /\ InFlight' = InFlight
<1> USE DEF Control
<1>1. /\ worker' = [worker EXCEPT !["main"].at = place]
      /\ UNCHANGED <<job, client, queue, musicQueue, slots>>
  BY DEF Goes, Goto, jobVars
<1>2. /\ worker'["main"].at = place /\ worker'["main"].job = worker["main"].job
      /\ worker'["music"] = worker["music"]
      /\ \A w \in Worker : worker'[w].job = worker[w].job
  BY <1>1 DEF ControlTyped, WorkerState, Worker
<1>3. ControlTyped'
  BY <1>1 DEF ControlTyped, WorkerState
<1>4. Requests'
  BY <1>1, <1>2 DEF Requests
<1>5. Lanes'
  BY <1>1, <1>2 DEF Lanes
<1>6. Hands'
  BY <1>1, <1>2 DEF Hands, Running, Worker
<1>7. InFlight' = InFlight
  BY <1>1, <1>2 DEF InFlight, Mine, Worker
<1> QED
  BY <1>1, <1>3, <1>4, <1>5, <1>6, <1>7 DEF Counted

(* A worker that is done has no job, and the music thread gives one slot   *)
(* back for it.                                                            *)
LEMMA LeaveKeeps ==
  ASSUME Control, NEW w \in Worker, LeaveJob(w)
  PROVE  /\ Control'
         /\ w = "main" => InFlight' = InFlight
         /\ w = "music" => InFlight' = InFlight \ {worker["music"].job}
<1> USE DEF Control
<1>1. /\ worker[w].at = "leave" /\ worker[w].job \in Job
      /\ job[worker[w].job].status \in {"Completed", "Failed"}
  BY DEF LeaveJob, At, Hands, ControlTyped, WorkerState
<1>2. /\ worker' = [worker EXCEPT ![w] = [at |-> "waiting", job |-> None]]
      /\ slots' = IF w = "music" THEN slots - 1 ELSE slots
      /\ UNCHANGED <<job, client, queue, musicQueue>>
  BY DEF LeaveJob
<1>3. /\ worker'[w] = [at |-> "waiting", job |-> None]
      /\ \A v \in Worker : v # w => worker'[v] = worker[v]
  BY <1>2 DEF ControlTyped
<1>4. Requests'
  <2>1. \A c \in Client : client[c].at # "idle" => \A v \in Worker : client[c].job # worker'[v].job
    BY <1>3 DEF Requests
  <2> QED
    BY <1>2, <2>1 DEF Requests
<1>5. Lanes'
  BY <1>2, <1>3 DEF Lanes, Worker
<1>6. Hands'
  <2>1. None \notin queue \cup musicQueue
    BY JobsAssumption DEF ControlTyped
  <2>2. \A k \in Job : job[k].status = "Running" => \E v \in Worker : worker'[v].job = k
    BY <1>1, <1>3 DEF Hands
  <2> QED
    BY <1>2, <1>3, <2>1, <2>2 DEF Hands
<1>7. CASE w = "main"
  <2>1. worker'["music"] = worker["music"]
    BY <1>3, <1>7 DEF Worker
  <2>2. InFlight' = InFlight
    BY <1>2, <2>1 DEF InFlight, Mine
  <2>3. ControlTyped'
    BY <1>2, <1>7 DEF ControlTyped, WorkerState, Places
  <2> QED
    BY <1>2, <1>4, <1>5, <1>6, <1>7, <2>2, <2>3 DEF Counted
<1>8. CASE w = "music"
  <2> DEFINE j == worker["music"].job
  <2>1. /\ j \in InFlight /\ j # None
        /\ j \notin musicQueue
        /\ \A c \in Client : client[c].job # j
    BY <1>1, <1>8, JobsAssumption DEF InFlight, Mine, Hands, Requests
  <2>2. InFlight' = InFlight \ {j}
    BY <1>2, <1>3, <1>8, <2>1 DEF InFlight, Mine
  <2>3. Cardinality(InFlight') = Cardinality(InFlight) - 1
    BY <2>1, <2>2, InFlightIsFinite, FS_RemoveElement
  <2>4. Cardinality(InFlight') \in Nat
    BY <2>2, InFlightIsFinite, FS_RemoveElement, FS_CardinalityType
  <2>5. slots' = Cardinality(InFlight')
    BY <1>2, <1>8, <2>3 DEF Counted
  <2>6. ControlTyped'
    BY <1>2, <2>4, <2>5 DEF ControlTyped, WorkerState, Places
  <2> QED
    BY <1>4, <1>5, <1>6, <1>8, <2>2, <2>5, <2>6 DEF Counted
<1> QED
  BY <1>7, <1>8 DEF Worker

-----------------------------------------------------------------------------
(* What renders leave behind.                                              *)

MainJob == worker["main"].job

MainAt == worker["main"].at

Dialogs == {"dialog", "dialogAdHoc"}

EndedStatus == {"Completed", "Failed"}

\* Nobody but a document at stake refers to the sound.
Unreferred(s) ==
  \A a \in Show : library[a] # None /\ library[a].sound = s => library[a].risky

\* Which handler may be where.
Handlers ==
  /\ MainAt \in {"lookup", "write", "publish", "count", "delete"} => job[MainJob].kind \in Dialogs
  /\ MainAt \in {"store", "play", "sync", "next", "republish"} => job[MainJob].kind \notin Dialogs

\* Every document has its sound, unless it was at stake.
SoundsKept ==
  \A a \in Show : library[a] # None /\ ~library[a].risky => library[a].sound \in sounds

\* The file of a render is guarded until its animation is stored, and only
\* documents at stake refer to it so far.
Guarded ==
  /\ render.guard => /\ MainAt \in {"publish", "leave"}
                     /\ Unreferred(MainJob)
                     /\ MainJob \notin adhoc
  /\ MainAt = "publish" => render.guard /\ MainJob \in sounds

\* What is about to be deleted is not referred to; what is about to be
\* written back has its sound.
Pending ==
  /\ MainAt = "delete" => Unreferred(render.old)
  /\ MainAt \in {"sync", "republish"} =>
       render.copy # None /\ (~render.copy.risky => render.copy.sound \in sounds)

\* A job has no sound and no ad-hoc animation before its handler makes one.
Owners ==
  \A j \in Job : j \in sounds \cup adhoc =>
    \/ job[j].status \in EndedStatus
    \/ j = MainJob /\ MainAt \in {"publish", "count", "delete", "finish", "play"}

\* A failed render keeps nothing but a file that is about to be removed.
FailedKeepNothing ==
  \A j \in Job : job[j].kind \in Dialogs /\ job[j].status = "Failed" =>
    /\ j \in sounds => j = MainJob /\ render.guard
    /\ j \notin adhoc

Whole == Handlers /\ SoundsKept /\ Guarded /\ Pending /\ Owners /\ FailedKeepNothing

\* The inductive invariant.
IInv == Control /\ DataTyped /\ Whole

(* The invariant has what RendersAreWhole says of jobs that are in nobody's*)
(* hand any more.                                                          *)
LEMMA WholeIsEnough == IInv => RendersAreWhole
<1> SUFFICES ASSUME IInv PROVE RendersAreWhole
  OBVIOUS
<1>1. ASSUME NEW a \in Library, ~library[a].risky PROVE library[a].sound \in sounds
  BY <1>1 DEF IInv, Whole, SoundsKept, Library
<1>2. ASSUME NEW j \in Job \ Taken, job[j].kind \in {"dialog", "dialogAdHoc"}, job[j].status = "Failed"
      PROVE  /\ j \notin sounds \cup adhoc
             /\ \A a \in Library : library[a].sound = j => library[a].risky
  <2>1. j # MainJob
    BY JobsAssumption DEF Taken, Mine, MainJob, Worker
  <2>2. j \notin sounds \cup adhoc
    BY <1>2, <2>1 DEF IInv, Whole, FailedKeepNothing, Dialogs
  <2> QED
    BY <1>1, <2>2
<1> QED
  BY <1>1, <1>2 DEF RendersAreWhole

(* A server starts with nothing rendered.                                  *)
LEMMA InitIInv == Init => IInv
<1> SUFFICES ASSUME Init PROVE IInv
  OBVIOUS
<1>1. DataTyped
  BY JobsAssumption DEF Init, DataTyped, Render, Blank, Sound
<1>2. Whole
  BY JobsAssumption
  DEF Init, Whole, Handlers, SoundsKept, Guarded, Pending, Owners, FailedKeepNothing,
      MainAt, MainJob, Worker, Blank, Unborn
<1> QED
  BY <1>1, <1>2, ControlInit DEF IInv

(* A step that neither the main worker nor a client's edit takes: jobs     *)
(* that are not the main worker's, and have not ended, change.             *)
LEMMA ElsewhereKeeps ==
  ASSUME IInv, Control', UNCHANGED <<render, library, adhoc, sounds, edits>>,
         worker'["main"] = worker["main"], stopping' \in BOOLEAN,
         \A j \in Job :
           \/ job'[j] = job[j]
           \/ /\ j # MainJob /\ job[j].status \notin EndedStatus
              /\ job'[j].kind \notin Dialogs \/ job'[j].status # "Failed"
  PROVE  IInv'
<1> USE DEF IInv
<1>1. DataTyped'
  BY DEF DataTyped
<1>2. MainAt' = MainAt /\ MainJob' = MainJob
  BY DEF MainAt, MainJob
<1>3. MainAt \notin {"waiting"} => MainJob \in Job /\ job'[MainJob] = job[MainJob]
  BY DEF MainAt, MainJob, Control, Hands, ControlTyped, WorkerState, Worker
<1>4. Handlers'
  BY <1>2, <1>3 DEF Whole, Handlers
<1>5. SoundsKept' /\ Guarded' /\ Pending'
  BY <1>2 DEF Whole, SoundsKept, Guarded, Pending, Unreferred
<1>6. Owners'
  BY <1>2 DEF Whole, Owners
<1>7. FailedKeepNothing'
  BY <1>2 DEF Whole, FailedKeepNothing, Owners
<1> QED
  BY <1>1, <1>4, <1>5, <1>6, <1>7 DEF Whole

(* The control part depends on jobs, requests, queues and workers only.    *)
LEMMA ControlFrame ==
  ASSUME Control, UNCHANGED <<jobVars, worker>>
  PROVE  Control' /\ InFlight' = InFlight
<1>1. UNCHANGED <<job, client, queue, musicQueue, slots, worker>>
  BY DEF jobVars
<1> QED
  BY <1>1
  DEF Control, ControlTyped, Requests, Lanes, Hands, Counted, InFlight, Mine

(* Requests create and submit jobs that have nothing yet.                  *)
LEMMA CreateKeepsAll ==
  ASSUME IInv, NEW c \in Client, NEW j \in Job, NEW kind \in Kinds, CreateJob(c, j, kind)
  PROVE  IInv'
<1>1. Control'
  BY CreateKeeps DEF IInv
<1>2. /\ job[j].status = "none" /\ job'[j].status = "Queued"
      /\ \A k \in Job : k # j => job'[k] = job[k]
  BY DEF CreateJob, NextJob, IInv, Control, ControlTyped
<1>3. j # MainJob
  BY <1>2, JobsAssumption DEF MainJob, IInv, Control, Hands, Worker
<1>4. /\ UNCHANGED <<render, library, adhoc, sounds, edits, worker, stopping>>
      /\ stopping' \in BOOLEAN
  BY DEF CreateJob, libraryVars, IInv, DataTyped
<1>5. \A k \in Job :
        \/ job'[k] = job[k]
        \/ /\ k # MainJob /\ job[k].status \notin EndedStatus
           /\ job'[k].kind \notin Dialogs \/ job'[k].status # "Failed"
  BY <1>2, <1>3 DEF EndedStatus
<1> QED
  BY <1>1, <1>4, <1>5, ElsewhereKeeps

(* Submitting a job, or failing the one that got no slot.                  *)
LEMMA ClientStepKeepsAll ==
  ASSUME IInv, NEW c \in Client, ClientStep(c)
  PROVE  IInv'
<1>1. Control'
  BY QueueKeeps, ReserveKeeps, EnqueueKeeps, RefuseKeeps, FailRefusedKeeps DEF ClientStep, IInv
<1>2. /\ UNCHANGED <<render, library, adhoc, sounds, edits, worker, stopping>>
      /\ stopping' \in BOOLEAN
  BY DEF ClientStep, QueueJob, ReserveSlot, EnqueueMusic, RefuseMusic, FailRefused, libraryVars,
         IInv, DataTyped
<1>3. CASE FailRefused(c)
  <2>1. /\ client[c].job \in Job /\ job[client[c].job].status = "Queued"
        /\ job[client[c].job].kind = "dialogMusic"
        /\ client[c].job # MainJob
        /\ job' = [job EXCEPT ![client[c].job].status = "Failed"]
    BY <1>3 DEF FailRefused, IInv, Control, Requests, ControlTyped, ClientState, MainJob, Worker
  <2>2. /\ job'[client[c].job].kind = "dialogMusic"
        /\ \A k \in Job : k # client[c].job => job'[k] = job[k]
    BY <2>1, StatusStep DEF IInv, Control
  <2>3. \A k \in Job :
          \/ job'[k] = job[k]
          \/ /\ k # MainJob /\ job[k].status \notin EndedStatus
             /\ job'[k].kind \notin Dialogs \/ job'[k].status # "Failed"
    BY <2>1, <2>2 DEF EndedStatus, Dialogs
  <2> QED
    BY <1>1, <1>2, <2>3, ElsewhereKeeps
<1>4. CASE ~FailRefused(c)
  <2>1. job' = job
    BY <1>4 DEF ClientStep, QueueJob, ReserveSlot, EnqueueMusic, RefuseMusic
  <2> QED
    BY <1>1, <1>2, <2>1, ElsewhereKeeps
<1> QED
  BY <1>3, <1>4

(* The music thread works on jobs that are no renders.                     *)
LEMMA MusicStepKeepsAll ==
  ASSUME IInv, MusicStep
  PROVE  IInv'
<1>1. CASE TakeMusic
  <2>1. Control'
    BY <1>1, TakeMusicKeeps DEF IInv
  <2>2. PICK j \in musicQueue : Starts("music", j)
    BY <1>1 DEF TakeMusic
  <2>3. /\ j \in Job /\ job[j].status = "Queued" /\ j # MainJob
        /\ job' = [job EXCEPT ![j].status = "Running"]
    BY <2>2 DEF Starts, IInv, Control, ControlTyped, Lanes, Hands, MainJob, Worker
  <2>4. /\ job'[j].status = "Running"
        /\ \A k \in Job : k # j => job'[k] = job[k]
    BY <2>3, StatusStep DEF IInv, Control
  <2>5. /\ UNCHANGED <<render, library, adhoc, sounds, edits, stopping>>
        /\ worker'["main"] = worker["main"] /\ stopping' \in BOOLEAN
    BY <2>2 DEF Starts, libraryVars, IInv, DataTyped, Control, ControlTyped, Worker
  <2>6. \A k \in Job :
          \/ job'[k] = job[k]
          \/ /\ k # MainJob /\ job[k].status \notin EndedStatus
             /\ job'[k].kind \notin Dialogs \/ job'[k].status # "Failed"
    BY <2>3, <2>4 DEF EndedStatus
  <2> QED
    BY <2>1, <2>5, <2>6, ElsewhereKeeps
<1>2. CASE DialogMusic
  <2>1. PICK status \in {"Completed", "Failed"} :
          Ends("music", status) /\ UNCHANGED <<render, libraryVars>>
    BY <1>2 DEF DialogMusic, OneStep, Completes, Fails
  <2>2. Running("music")
    BY <1>2 DEF DialogMusic, OneStep, Handles, At, Running
  <2>3. "music" \in Worker
    BY DEF Worker
  <2>4. Control' /\ worker["music"].job \in Job
    BY <2>1, <2>2, <2>3, EndsKeeps DEF IInv
  <2>5. /\ job[worker["music"].job].status = "Running"
        /\ job[worker["music"].job].kind = "dialogMusic"
        /\ worker["music"].job # MainJob
        /\ job' = [job EXCEPT ![worker["music"].job].status = status]
    BY <2>1, <2>2, <2>3, <2>4, JobsAssumption
    DEF Ends, Mine, Running, IInv, Control, Hands, Lanes, MainJob
  <2>6. /\ job'[worker["music"].job].kind = "dialogMusic"
        /\ \A k \in Job : k # worker["music"].job => job'[k] = job[k]
    BY <2>4, <2>5, StatusStep DEF IInv, Control
  <2>7. /\ UNCHANGED <<render, library, adhoc, sounds, edits>>
        /\ worker'["main"] = worker["main"] /\ stopping' \in BOOLEAN
    BY <2>1 DEF Ends, Goto, libraryVars, IInv, DataTyped, Control, ControlTyped, Worker
  <2>8. \A k \in Job :
          \/ job'[k] = job[k]
          \/ /\ k # MainJob /\ job[k].status \notin EndedStatus
             /\ job'[k].kind \notin Dialogs \/ job'[k].status # "Failed"
    BY <2>5, <2>6 DEF EndedStatus, Dialogs
  <2> QED
    BY <2>4, <2>7, <2>8, ElsewhereKeeps
<1>3. CASE LeaveJob("music")
  <2>1. Control'
    BY <1>3, LeaveKeeps DEF IInv, Worker
  <2>2. /\ UNCHANGED <<render, library, adhoc, sounds, edits, job, stopping>>
        /\ worker'["main"] = worker["main"] /\ stopping' \in BOOLEAN
    BY <1>3 DEF LeaveJob, IInv, DataTyped, Control, ControlTyped, Worker
  <2> QED
    BY <2>1, <2>2, ElsewhereKeeps
<1> QED
  BY <1>1, <1>2, <1>3 DEF MusicStep

(* The stop request touches nothing a job has.                             *)
LEMMA StopKeepsAll ==
  ASSUME IInv, RequestStop
  PROVE  IInv'
<1>1. Control'
  BY ControlFrame DEF IInv, RequestStop
<1>2. UNCHANGED <<render, library, adhoc, sounds, edits, job, worker>> /\ stopping' \in BOOLEAN
  BY DEF RequestStop, libraryVars, jobVars
<1> QED
  BY <1>1, <1>2, ElsewhereKeeps

(* Clients' edits: a document that is saved with a sound at stake says so. *)
LEMMA SaveKeepsAll ==
  ASSUME IInv, NEW a \in Show, NEW s \in Sound, SaveAnimation(a, s)
  PROVE  IInv'
<1> USE DEF IInv
<1>1. Control'
  BY ControlFrame DEF SaveAnimation
<1>2. PICK scene \in Scene \cup {None} :
        library' = [library EXCEPT ![a] = [scene |-> scene, sound |-> s, risky |-> AtStake(s)]]
  <2>1. library[a] # None => library[a].scene \in Scene \cup {None}
    BY DEF DataTyped, Animation
  <2> QED
    BY <2>1 DEF SaveAnimation
<1>3. /\ UNCHANGED <<job, worker, stopping, render, adhoc, sounds>>
      /\ edits' = edits + 1
  BY DEF SaveAnimation, Edits, jobVars
<1>4. AtStake(s) \in BOOLEAN
  BY DEF AtStake
<1>5. /\ library'[a] = [scene |-> scene, sound |-> s, risky |-> AtStake(s)]
      /\ \A b \in Show : b # a => library'[b] = library[b]
  BY <1>2 DEF DataTyped
<1>6. library' \in [Show -> Animation \cup {None}]
  BY <1>2, <1>4 DEF DataTyped, Animation
<1>7. DataTyped'
  BY <1>3, <1>6 DEF DataTyped
<1>8. SoundsKept'
  <2>1. ~AtStake(s) => s \in sounds
    BY DEF AtStake
  <2> QED
    BY <1>3, <1>5, <2>1 DEF Whole, SoundsKept
<1>9. \A r : Unreferred(r) /\ (r = s => AtStake(s)) => Unreferred(r)'
  BY <1>5 DEF Unreferred
<1>10. Handlers' /\ Owners' /\ FailedKeepNothing'
  BY <1>3 DEF Whole, Handlers, Owners, FailedKeepNothing, MainAt, MainJob
<1>11. Guarded'
  <2>1. render.guard => Unreferred(MainJob)'
    <3>1. MainJob' = MainJob
      BY <1>3 DEF MainJob
    <3>2. render.guard /\ MainJob = s => AtStake(s)
      BY DEF AtStake, Mine, MainJob
    <3> QED
      BY <1>9, <3>1, <3>2 DEF Whole, Guarded, Unreferred
  <2> QED
    BY <1>3, <2>1 DEF Whole, Guarded, MainAt, MainJob
<1>12. Pending'
  <2>1. MainAt = "delete" => Unreferred(render.old)'
    <3>1. MainAt = "delete" /\ render.old = s => AtStake(s)
      BY DEF AtStake, At, MainAt
    <3> QED
      BY <1>3, <1>9, <3>1 DEF Whole, Pending, Unreferred
  <2> QED
    BY <1>3, <2>1 DEF Whole, Pending, MainAt
<1> QED
  BY <1>1, <1>7, <1>8, <1>10, <1>11, <1>12 DEF Whole

(* A document that is gone refers to nothing.                              *)
LEMMA DeleteKeepsAll ==
  ASSUME IInv, NEW a \in Show, DeleteAnimation(a)
  PROVE  IInv'
<1> USE DEF IInv
<1>1. Control'
  BY ControlFrame DEF DeleteAnimation
<1>2. /\ UNCHANGED <<job, worker, stopping, render, adhoc, sounds>>
      /\ edits' = edits + 1
      /\ library' = [library EXCEPT ![a] = None]
  BY DEF DeleteAnimation, Edits, jobVars
<1>3. DataTyped'
  BY <1>2 DEF DataTyped
<1>4. \A b \in Show : library'[b] # None => library'[b] = library[b]
  BY <1>2 DEF DataTyped
<1>5. SoundsKept' /\ Handlers' /\ Owners' /\ FailedKeepNothing'
  BY <1>2, <1>4 DEF Whole, SoundsKept, Handlers, Owners, FailedKeepNothing, MainAt, MainJob
<1>6. Guarded' /\ Pending'
  BY <1>2, <1>4 DEF Whole, Guarded, Pending, Unreferred, MainAt, MainJob
<1> QED
  BY <1>1, <1>3, <1>5, <1>6 DEF Whole

-----------------------------------------------------------------------------
(* The steps of the main worker.                                           *)

(* The job it takes has nothing yet.                                       *)
LEMMA TakeJobKeepsAll ==
  ASSUME IInv, TakeJob
  PROVE  IInv'
<1> USE DEF IInv
<1>1. Control'
  BY TakeJobKeeps
<1>2. PICK j \in queue : Starts("main", j)
  BY DEF TakeJob
<1>3. /\ j \in Job /\ job[j].status = "Queued"
      /\ MainAt = "waiting" /\ MainJob = None
      /\ job' = [job EXCEPT ![j].status = "Running"]
      /\ worker' = [worker EXCEPT !["main"] = [at |-> "work", job |-> j]]
      /\ UNCHANGED <<stopping, render, library, adhoc, sounds, edits>>
  BY <1>2 DEF Starts, At, MainAt, MainJob, Control, ControlTyped, Lanes, Hands, Worker, libraryVars
<1>4. /\ job'[j].status = "Running" /\ \A k \in Job : k # j => job'[k] = job[k]
  BY <1>3, StatusStep DEF Control
<1>5. MainAt' = "work" /\ MainJob' = j
  BY <1>3 DEF MainAt, MainJob, Control, ControlTyped, Worker
<1>6. ~render.guard
  BY <1>3 DEF Whole, Guarded
<1>7. DataTyped'
  BY <1>3 DEF DataTyped
<1>8. Handlers' /\ SoundsKept' /\ Guarded' /\ Pending'
  BY <1>3, <1>5, <1>6 DEF Whole, Handlers, SoundsKept, Guarded, Pending
<1>9. Owners' /\ FailedKeepNothing'
  BY <1>3, <1>4, <1>5, <1>6 DEF Whole, Owners, FailedKeepNothing, EndedStatus
<1> QED
  BY <1>1, <1>7, <1>8, <1>9 DEF Whole

(* A handler that ends its job without touching what it has made.  If it   *)
(* fails a render, the render has made nothing yet, or its file is still   *)
(* guarded.                                                                *)
LEMMA MainEnds ==
  ASSUME IInv, Running("main"), NEW status \in {"Completed", "Failed"}, Ends("main", status),
         UNCHANGED <<render, library, adhoc, sounds, edits>>,
         status = "Failed" /\ job[MainJob].kind \in Dialogs => MainAt \in {"work", "publish"}
  PROVE  IInv'
<1> USE DEF IInv
<1>1. Control' /\ MainJob \in Job
  BY EndsKeeps DEF Worker, MainJob
<1>2. /\ job' = [job EXCEPT ![MainJob].status = status]
      /\ worker' = [worker EXCEPT !["main"].at = "leave"]
      /\ stopping' = stopping
  BY DEF Ends, Goto, Mine, MainJob
<1>3. /\ job'[MainJob].status = status /\ job'[MainJob].kind = job[MainJob].kind
      /\ \A k \in Job : k # MainJob => job'[k] = job[k]
  BY <1>1, <1>2, StatusStep DEF Control
<1>4. MainAt' = "leave" /\ MainJob' = MainJob /\ job[MainJob].status = "Running"
  BY <1>2 DEF MainAt, MainJob, Control, ControlTyped, WorkerState, Worker, Hands, Running
<1>5. DataTyped'
  BY <1>2 DEF DataTyped
<1>6. Handlers' /\ SoundsKept' /\ Pending'
  BY <1>4 DEF Whole, Handlers, SoundsKept, Pending
<1>7. Guarded'
  BY <1>4 DEF Whole, Guarded, Unreferred
<1>8. Owners'
  BY <1>3, <1>4 DEF Whole, Owners, EndedStatus
<1>9. FailedKeepNothing'
  <2>1. MainAt = "work" => MainJob \notin sounds \cup adhoc
    BY <1>1, <1>4 DEF Whole, Owners, EndedStatus
  <2>2. MainAt = "publish" => render.guard /\ MainJob \notin adhoc
    BY DEF Whole, Guarded
  <2> QED
    BY <1>3, <1>4, <2>1, <2>2 DEF Whole, FailedKeepNothing
<1> QED
  BY <1>1, <1>5, <1>6, <1>7, <1>8, <1>9 DEF Whole

Making == {"publish", "count", "delete", "finish", "play"}

(* A handler that goes on having read, but changed, documents and files.   *)
LEMMA MainGoes ==
  ASSUME IInv, Running("main"), NEW place \in Places, place \notin {"waiting", "leave", "publish"},
         Goes("main", place), UNCHANGED <<library, adhoc, sounds, edits>>,
         render' \in Render, ~render.guard, ~render'.guard,
         MainAt \in Making => place \in Making,
         place \in {"lookup", "write", "count", "delete"} => job[MainJob].kind \in Dialogs,
         place \in {"store", "play", "sync", "next", "republish"} => job[MainJob].kind \notin Dialogs,
         place = "delete" => Unreferred(render'.old),
         place \in {"sync", "republish"} =>
           render'.copy # None /\ (~render'.copy.risky => render'.copy.sound \in sounds)
  PROVE  IInv'
<1> USE DEF IInv
<1>1. Control'
  BY GoesKeeps
<1>2. MainAt' = place /\ MainJob' = MainJob /\ job' = job /\ stopping' = stopping
  BY DEF Goes, Goto, jobVars, MainAt, MainJob, Control, ControlTyped, WorkerState, Worker
<1>3. DataTyped'
  BY <1>2 DEF DataTyped
<1>4. Handlers' /\ SoundsKept'
  BY <1>2 DEF Whole, Handlers, SoundsKept
<1>5. Guarded'
  BY <1>2 DEF Guarded
<1>6. Pending'
  BY <1>2 DEF Pending, Unreferred
<1>7. Owners' /\ FailedKeepNothing'
  BY <1>2 DEF Whole, Owners, FailedKeepNothing, Making
<1> QED
  BY <1>1, <1>3, <1>4, <1>5, <1>6, <1>7 DEF Whole

(* What the handler's place says, for use with the two lemmas above.       *)
LEMMA PlaceFacts ==
  ASSUME IInv
  PROVE  /\ MainAt \notin {"publish", "leave"} => ~render.guard
         /\ MainAt \notin {"waiting", "leave"} => Running("main") /\ MainJob \in Job
         /\ render \in Render /\ MainAt \in Places
         /\ \A a \in Library : library[a] \in Animation /\ a \in Show
                             /\ (~library[a].risky => library[a].sound \in sounds)
<1> USE DEF IInv
<1>1. MainAt \notin {"publish", "leave"} => ~render.guard
  BY DEF Whole, Guarded
<1>2. MainAt \notin {"waiting", "leave"} => Running("main") /\ MainJob \in Job
  BY DEF MainAt, MainJob, Running, Control, Hands, ControlTyped, WorkerState, Worker
<1>3. render \in Render /\ MainAt \in Places
  BY DEF DataTyped, MainAt, Control, ControlTyped, WorkerState, Worker
<1>4. \A a \in Library : library[a] \in Animation /\ a \in Show
                         /\ (~library[a].risky => library[a].sound \in sounds)
  BY DEF Library, DataTyped, Whole, SoundsKept
<1> QED
  BY <1>1, <1>2, <1>3, <1>4

(* Handlers that end their job where no render can have made anything, or  *)
(* where nothing fails.                                                    *)
LEMMA EndingsKeepAll ==
  ASSUME IInv,
         \/ LipSync \/ DialogPreview \/ DialogPreviewExport \/ VoiceFile \/ VoiceTakeAccept
         \/ SpeechPlay \/ RerenderEnd \/ Finish
  PROVE  IInv'
<1> USE DEF Completes, Fails, libraryVars
<1>1. ASSUME NEW kind \in Kinds \ Dialogs, OneStep("main", kind) PROVE IInv'
  <2>1. MainAt = "work" /\ job[MainJob].kind = kind
    BY <1>1 DEF OneStep, Handles, At, Mine, MainAt, MainJob
  <2> QED
    BY <1>1, <2>1, PlaceFacts, MainEnds DEF OneStep
<1>2. ASSUME SpeechPlay PROVE IInv'
  <2>1. MainAt = "play" /\ job[MainJob].kind \notin Dialogs
    BY <1>2 DEF SpeechPlay, At, MainAt, IInv, Whole, Handlers
  <2> QED
    BY <1>2, <2>1, PlaceFacts, MainEnds DEF SpeechPlay
<1>3. ASSUME RerenderEnd PROVE IInv'
  <2>1. MainAt = "next" /\ job[MainJob].kind \notin Dialogs
    BY <1>3 DEF RerenderEnd, At, MainAt, IInv, Whole, Handlers
  <2> QED
    BY <1>3, <2>1, PlaceFacts, MainEnds DEF RerenderEnd
<1>4. ASSUME Finish PROVE IInv'
  <2>1. MainAt = "finish"
    BY <1>4 DEF Finish, At, MainAt
  <2> QED
    BY <1>4, <2>1, PlaceFacts, MainEnds DEF Finish
<1> QED
  BY <1>1, <1>2, <1>3, <1>4
  DEF LipSync, DialogPreview, DialogPreviewExport, VoiceFile, VoiceTakeAccept, Kinds, Dialogs

(* Handlers that read documents and go on.                                 *)
LEMMA ReadsKeepAll ==
  ASSUME IInv,
         \/ SpeechGenerate \/ AnimationRead \/ RerenderStart \/ RerenderRead
         \/ DialogAssemble \/ DialogLookup \/ DialogCount
  PROVE  IInv'
<1> USE DEF Fails, libraryVars
<1>1. ASSUME SpeechGenerate PROVE IInv'
  <2>1. MainAt = "work" /\ job[MainJob].kind \notin Dialogs
    BY <1>1 DEF SpeechGenerate, Handles, At, Mine, MainAt, MainJob, Dialogs
  <2>2. CASE Goes("main", "store") /\ UNCHANGED <<render, libraryVars>>
    BY <2>1, <2>2, PlaceFacts, MainGoes DEF Making, Places
  <2>3. CASE Fails("main")
    BY <2>1, <2>3, PlaceFacts, MainEnds
  <2> QED
    BY <1>1, <2>2, <2>3 DEF SpeechGenerate
<1>2. ASSUME AnimationRead PROVE IInv'
  <2>1. MainAt = "work" /\ job[MainJob].kind \notin Dialogs
    BY <1>2 DEF AnimationRead, Handles, At, Mine, MainAt, MainJob, Dialogs
  <2>2. ASSUME NEW a \in Library,
               render' = [render EXCEPT !.show = a, !.copy = library[a]],
               Goes("main", "sync"), UNCHANGED libraryVars
        PROVE  IInv'
    <3>1. /\ render' \in Render /\ render'.copy = library[a] /\ render'.guard = render.guard
          /\ library[a] # None
      BY <2>2, PlaceFacts DEF Render, Library
    <3> QED
      BY <2>1, <2>2, <3>1, PlaceFacts, MainGoes DEF Making, Places
  <2>3. CASE Fails("main")
    BY <2>1, <2>3, PlaceFacts, MainEnds
  <2> QED
    BY <1>2, <2>2, <2>3 DEF AnimationRead
<1>3. ASSUME RerenderStart PROVE IInv'
  <2>1. MainAt = "work" /\ job[MainJob].kind \notin Dialogs
    BY <1>3 DEF RerenderStart, Handles, At, Mine, MainAt, MainJob, Dialogs
  <2>2. render' \in Render /\ render'.guard = render.guard
    <3>1. job[MainJob].targets \subseteq Show
      BY <2>1, PlaceFacts DEF IInv, Control, ControlTyped, JobState
    <3> QED
      BY <1>3, <3>1, PlaceFacts DEF RerenderStart, Render, Mine, MainJob
  <2> QED
    BY <1>3, <2>1, <2>2, PlaceFacts, MainGoes DEF RerenderStart, Making, Places
<1>4. ASSUME RerenderRead PROVE IInv'
  <2>1. MainAt = "next" /\ job[MainJob].kind \notin Dialogs
    BY <1>4 DEF RerenderRead, At, MainAt, IInv, Whole, Handlers
  <2>2. PICK a \in render.left :
          \/ /\ library[a] # None
             /\ render' = [render EXCEPT !.left = @ \ {a}, !.show = a, !.copy = library[a]]
             /\ Goes("main", "republish")
          \/ /\ render' = [render EXCEPT !.left = @ \ {a}]
             /\ Goes("main", "next")
    BY <1>4 DEF RerenderRead
  <2>3. a \in Show /\ render.left \ {a} \subseteq Show /\ UNCHANGED libraryVars
    BY <1>4, PlaceFacts DEF Render, RerenderRead
  <2>4. CASE /\ library[a] # None
             /\ render' = [render EXCEPT !.left = @ \ {a}, !.show = a, !.copy = library[a]]
             /\ Goes("main", "republish")
    <3>1. a \in Library
      BY <2>3, <2>4 DEF Library
    <3>2. /\ render' \in Render /\ render'.copy = library[a] /\ render'.guard = render.guard
      BY <2>3, <2>4, <3>1, PlaceFacts DEF Render
    <3> QED
      BY <2>1, <2>3, <2>4, <3>1, <3>2, PlaceFacts, MainGoes DEF Making, Places
  <2>5. CASE render' = [render EXCEPT !.left = @ \ {a}] /\ Goes("main", "next")
    <3>1. render' \in Render /\ render'.guard = render.guard
      BY <2>3, <2>5, PlaceFacts DEF Render
    <3> QED
      BY <2>1, <2>3, <2>5, <3>1, PlaceFacts, MainGoes DEF Making, Places
  <2> QED
    BY <2>2, <2>4, <2>5
<1>5. ASSUME DialogAssemble PROVE IInv'
  <2>1. MainAt = "work" /\ job[MainJob].kind \in Dialogs
    BY <1>5 DEF DialogAssemble, Handles, At, Mine, MainAt, MainJob, Dialogs
  <2>2. CASE /\ Goes("main", "lookup") \/ Goes("main", "write")
             /\ UNCHANGED <<render, libraryVars>>
    BY <2>1, <2>2, PlaceFacts, MainGoes DEF Making, Places
  <2>3. CASE Fails("main")
    BY <2>1, <2>3, PlaceFacts, MainEnds
  <2> QED
    BY <1>5, <2>2, <2>3 DEF DialogAssemble
<1>6. ASSUME DialogLookup PROVE IInv'
  <2>1. MainAt = "lookup" /\ job[MainJob].kind \in Dialogs
    BY <1>6 DEF DialogLookup, At, MainAt, IInv, Whole, Handlers
  <2>2. /\ Goes("main", "write") /\ UNCHANGED libraryVars
        /\ \/ \E a \in Library : \E old \in {library[a].sound, None} :
                render' = [render EXCEPT !.show = a, !.old = old]
           \/ render' = [render EXCEPT !.show = MainJob]
    BY <1>6 DEF DialogLookup, Mine, MainJob
  <2>3. render' \in Render /\ render'.guard = render.guard
    <3>1. \A a \in Library : library[a].sound \in Sound
      BY PlaceFacts DEF Animation
    <3>2. MainJob \in Show
      BY <2>1, PlaceFacts DEF Show
    <3> QED
      BY <2>2, <3>1, <3>2, PlaceFacts DEF Render
  <2> QED
    BY <2>1, <2>2, <2>3, PlaceFacts, MainGoes DEF Making, Places
<1>7. ASSUME DialogCount PROVE IInv'
  <2>1. MainAt = "count" /\ job[MainJob].kind \in Dialogs
    BY <1>7 DEF DialogCount, At, MainAt, IInv, Whole, Handlers
  <2>2. UNCHANGED <<render, library, adhoc, sounds, edits>>
    BY <1>7 DEF DialogCount
  <2>3. CASE (\A a \in Library : library[a].sound # render.old) /\ Goes("main", "delete")
    <3>1. Unreferred(render'.old)
      BY <2>2, <2>3 DEF Unreferred, Library
    <3> QED
      BY <2>1, <2>2, <2>3, <3>1, PlaceFacts, MainGoes DEF Making, Places
  <2>4. CASE Goes("main", "finish")
    BY <2>1, <2>2, <2>4, PlaceFacts, MainGoes DEF Making, Places
  <2> QED
    BY <1>7, <2>3, <2>4 DEF DialogCount
<1> QED
  BY <1>1, <1>2, <1>3, <1>4, <1>5, <1>6, <1>7

(* A handler that goes on to a place with no file of its own pending,      *)
(* having written the library or the ad-hoc animations: the documents have *)
(* their sounds, and a new ad-hoc animation is the job's own.              *)
LEMMA MainWrites ==
  ASSUME IInv, Running("main"), NEW place \in {"next", "finish", "count", "play"},
         Goes("main", place), UNCHANGED <<sounds, edits>>,
         render' \in Render, ~render'.guard,
         place = "count" => job[MainJob].kind \in Dialogs,
         place \in {"next", "play"} => job[MainJob].kind \notin Dialogs,
         MainAt \in Making => place \in Making,
         library' \in [Show -> Animation \cup {None}], SoundsKept',
         adhoc' = adhoc \/ (place \in Making /\ adhoc' = adhoc \cup {MainJob})
  PROVE  IInv'
<1> USE DEF IInv
<1>1. Control'
  BY GoesKeeps DEF Places
<1>2. MainAt' = place /\ MainJob' = MainJob /\ job' = job /\ stopping' = stopping
  BY DEF Goes, Goto, jobVars, MainAt, MainJob, Control, ControlTyped, WorkerState, Worker
<1>3. MainJob \in Job /\ job[MainJob].status = "Running"
  BY DEF MainJob, Running, Control, Hands, ControlTyped, WorkerState, Worker
<1>4. DataTyped'
  BY <1>2, <1>3 DEF DataTyped
<1>5. Handlers' /\ Guarded' /\ Pending'
  BY <1>2 DEF Handlers, Guarded, Pending
<1>6. Owners'
  BY <1>2 DEF Whole, Owners, Making
<1>7. FailedKeepNothing'
  <2>1. ASSUME NEW j \in Job, job[j].kind \in Dialogs, job[j].status = "Failed"
        PROVE  j \notin sounds' \cup adhoc'
    <3>1. j # MainJob
      BY <1>3, <2>1
    <3> QED
      BY <2>1, <3>1 DEF Whole, FailedKeepNothing
  <2> QED
    BY <1>2, <2>1 DEF FailedKeepNothing
<1> QED
  BY <1>1, <1>4, <1>5, <1>6, <1>7 DEF Whole

(* Handlers that store documents.                                          *)
LEMMA WritesKeepAll ==
  ASSUME IInv, SpeechPublish \/ AnimationSync \/ RerenderPublish
  PROVE  IInv'
<1> USE DEF Fails, libraryVars
<1>1. ASSUME SpeechPublish PROVE IInv'
  <2>1. MainAt = "store" /\ job[MainJob].kind \notin Dialogs
    BY <1>1 DEF SpeechPublish, At, MainAt, IInv, Whole, Handlers
  <2>2. CASE /\ Goes("main", "play")
             /\ adhoc' = adhoc \cup {Mine("main")}
             /\ UNCHANGED <<render, library, sounds, edits>>
    <3>1. library' \in [Show -> Animation \cup {None}] /\ SoundsKept'
      BY <2>2 DEF IInv, DataTyped, Whole, SoundsKept
    <3> QED
      BY <2>1, <2>2, <3>1, PlaceFacts, MainWrites DEF Making, Mine, MainJob
  <2>3. CASE Fails("main")
    BY <2>1, <2>3, PlaceFacts, MainEnds
  <2> QED
    BY <1>1, <2>2, <2>3 DEF SpeechPublish
<1>2. ASSUME NEW entry \in Animation, ~entry.risky => entry.sound \in sounds,
             library' = [library EXCEPT ![render.show] = entry], sounds' = sounds
      PROVE  library' \in [Show -> Animation \cup {None}] /\ SoundsKept'
  <2>1. \A a \in Show : library'[a] = library[a] \/ library'[a] = entry
    BY <1>2 DEF IInv, DataTyped
  <2>2. SoundsKept'
    BY <1>2, <2>1 DEF IInv, Whole, SoundsKept
  <2> QED
    BY <1>2, <2>2 DEF IInv, DataTyped
<1>3. ASSUME AnimationSync PROVE IInv'
  <2>1. /\ MainAt = "sync" /\ job[MainJob].kind \notin Dialogs
        /\ render.copy \in Animation /\ (~render.copy.risky => render.copy.sound \in sounds)
    BY <1>3, PlaceFacts DEF AnimationSync, At, MainAt, IInv, Whole, Handlers, Pending, Render
  <2>2. CASE /\ library' = [library EXCEPT ![render.show] = render.copy]
             /\ Goes("main", "finish")
             /\ UNCHANGED <<render, adhoc, sounds, edits>>
    <3>1. library' \in [Show -> Animation \cup {None}] /\ SoundsKept'
      BY <1>2, <2>1, <2>2
    <3> QED
      BY <2>1, <2>2, <3>1, PlaceFacts, MainWrites DEF Making
  <2>3. CASE Fails("main")
    BY <2>1, <2>3, PlaceFacts, MainEnds
  <2> QED
    BY <1>3, <2>2, <2>3 DEF AnimationSync
<1>4. ASSUME RerenderPublish PROVE IInv'
  <2>1. /\ MainAt = "republish" /\ job[MainJob].kind \notin Dialogs
        /\ render.copy \in Animation /\ (~render.copy.risky => render.copy.sound \in sounds)
    BY <1>4, PlaceFacts DEF RerenderPublish, At, MainAt, IInv, Whole, Handlers, Pending, Render
  <2>2. CASE /\ \E scene \in Scene \cup {render.copy.scene} :
                   library' = [library EXCEPT ![render.show] = [render.copy EXCEPT !.scene = scene]]
             /\ render' = [render EXCEPT !.done = TRUE]
             /\ Goes("main", "next")
             /\ UNCHANGED <<adhoc, sounds, edits>>
    <3>1. PICK scene \in Scene \cup {None} :
            library' = [library EXCEPT ![render.show] = [render.copy EXCEPT !.scene = scene]]
      BY <2>1, <2>2 DEF Animation
    <3> DEFINE entry == [render.copy EXCEPT !.scene = scene]
    <3>2. /\ entry \in Animation /\ entry.risky = render.copy.risky
          /\ entry.sound = render.copy.sound
      BY <2>1 DEF Animation
    <3>3. library' \in [Show -> Animation \cup {None}] /\ SoundsKept'
      BY <1>2, <2>1, <2>2, <3>1, <3>2
    <3>4. render' \in Render /\ render'.guard = render.guard
      BY <2>2, PlaceFacts DEF Render
    <3> QED
      BY <2>1, <2>2, <3>3, <3>4, PlaceFacts, MainWrites DEF Making
  <2>3. CASE Goes("main", "next") /\ UNCHANGED <<render, libraryVars>>
    BY <2>1, <2>3, PlaceFacts, MainGoes DEF Making, Places
  <2> QED
    BY <1>4, <2>2, <2>3 DEF RerenderPublish
<1> QED
  BY <1>1, <1>3, <1>4

(* The WAV of a render is written under its guard.                         *)
LEMMA WriteKeepsAll ==
  ASSUME IInv, DialogWrite
  PROVE  IInv'
<1> USE DEF IInv
<1>1. /\ MainAt = "write" /\ job[MainJob].kind \in Dialogs /\ MainJob \in Job
      /\ Running("main") /\ job[MainJob].status = "Running"
      /\ MainJob \notin sounds \cup adhoc
  <2>1. MainAt = "write" /\ job[MainJob].kind \in Dialogs
    BY DEF DialogWrite, At, MainAt, Whole, Handlers
  <2>2. MainJob \in Job /\ Running("main") /\ job[MainJob].status = "Running"
    BY <2>1, PlaceFacts DEF Control, Hands, MainAt, MainJob, Worker
  <2> QED
    BY <2>1, <2>2 DEF Whole, Owners, EndedStatus
<1>2. /\ render' = [render EXCEPT !.guard = TRUE]
      /\ UNCHANGED <<library, adhoc, edits>>
      /\ sounds' \in {sounds, sounds \cup {MainJob}}
  BY DEF DialogWrite, Mine, MainJob
<1>3. render' \in Render /\ render'.guard
  BY <1>2, PlaceFacts DEF Render
<1>4. Unreferred(MainJob)'  /\ SoundsKept'
  <2>1. Unreferred(MainJob)
    BY <1>1 DEF Whole, SoundsKept, Unreferred
  <2>2. MainJob' = MainJob
    BY DEF DialogWrite, Goes, Ends, Goto, MainJob, Control, ControlTyped, WorkerState, Worker
  <2> QED
    BY <1>2, <2>1, <2>2 DEF Whole, SoundsKept, Unreferred
<1>5. CASE sounds' = sounds \cup {MainJob} /\ Goes("main", "publish")
  <2>1. Control'
    BY <1>1, <1>5, GoesKeeps DEF Places
  <2>2. MainAt' = "publish" /\ MainJob' = MainJob /\ job' = job /\ stopping' = stopping
    BY <1>5 DEF Goes, Goto, jobVars, MainAt, MainJob, Control, ControlTyped, WorkerState, Worker
  <2>3. DataTyped'
    BY <1>1, <1>2, <1>3, <2>2 DEF DataTyped, Sound
  <2>4. Handlers' /\ Guarded' /\ Pending'
    BY <1>1, <1>2, <1>3, <1>4, <1>5, <2>2 DEF Handlers, Guarded, Pending
  <2>5. Owners' /\ FailedKeepNothing'
    BY <1>1, <1>2, <1>5, <2>2, PlaceFacts DEF Whole, Owners, FailedKeepNothing
  <2> QED
    BY <1>4, <2>1, <2>3, <2>4, <2>5 DEF Whole
<1>6. CASE Ends("main", "Failed")
  <2>1. Control'
    BY <1>1, <1>6, EndsKeeps DEF Worker
  <2>2. /\ MainAt' = "leave" /\ MainJob' = MainJob /\ stopping' = stopping
        /\ job' = [job EXCEPT ![MainJob].status = "Failed"]
    BY <1>6 DEF Ends, Goto, Mine, MainAt, MainJob, Control, ControlTyped, WorkerState, Worker
  <2>3. /\ job'[MainJob].status = "Failed"
        /\ \A k \in Job : k # MainJob => job'[k] = job[k]
    BY <1>1, <2>2, StatusStep DEF Control
  <2>4. DataTyped'
    BY <1>1, <1>2, <1>3, <2>2 DEF DataTyped, Sound
  <2>5. Handlers' /\ Guarded' /\ Pending'
    BY <1>1, <1>2, <1>3, <1>4, <2>2 DEF Handlers, Guarded, Pending
  <2>6. Owners'
    BY <1>1, <1>2, <2>2, <2>3 DEF Whole, Owners, EndedStatus
  <2>7. FailedKeepNothing'
    BY <1>1, <1>2, <1>3, <2>2, <2>3, PlaceFacts DEF Whole, FailedKeepNothing
  <2> QED
    BY <1>4, <2>1, <2>4, <2>5, <2>6, <2>7 DEF Whole
<1> QED
  BY <1>2, <1>5, <1>6 DEF DialogWrite, Mine, MainJob

(* The guard is lifted by the step that stores the animation.              *)
LEMMA PublishKeepsAll ==
  ASSUME IInv, DialogPublish
  PROVE  IInv'
<1>1. /\ MainAt = "publish" /\ job[MainJob].kind \in Dialogs /\ MainJob \in Job /\ MainJob \in sounds
      /\ Running("main") /\ job[MainJob] \in JobState
  <2>1. MainAt = "publish" /\ job[MainJob].kind \in Dialogs /\ MainJob \in sounds
    BY DEF DialogPublish, At, MainAt, IInv, Whole, Handlers, Guarded
  <2> QED
    BY <2>1, PlaceFacts DEF IInv, Control, ControlTyped
<1>2. ASSUME Published, render' = [render EXCEPT !.guard = FALSE], UNCHANGED <<sounds, edits>>,
             Goes("main", IF render.old \in {None, Mine("main")} THEN "finish" ELSE "count")
      PROVE  IInv'
  <2>1. PICK place \in {"finish", "count"} : Goes("main", place)
    BY <1>2
  <2>2. render' \in Render /\ ~render'.guard
    BY <1>2, PlaceFacts DEF Render
  <2> DEFINE entry == [scene |-> job[MainJob].scene, sound |-> MainJob, risky |-> FALSE]
  <2>3. entry \in Animation
    BY <1>1 DEF Animation, Sound, JobState
  <2>4. /\ library' \in [Show -> Animation \cup {None}]
        /\ \A a \in Show : library'[a] = library[a] \/ library'[a] = entry
        /\ adhoc' = adhoc \/ adhoc' = adhoc \cup {MainJob}
    BY <1>2, <2>3 DEF Published, Mine, MainJob, IInv, DataTyped
  <2>5. SoundsKept'
    BY <1>1, <1>2, <2>4 DEF IInv, Whole, SoundsKept
  <2> HIDE DEF entry
  <2> QED
    BY <1>1, <1>2, <2>1, <2>2, <2>4, <2>5, MainWrites DEF Making
<1>3. CASE Fails("main")
  BY <1>1, <1>3, MainEnds DEF Fails, libraryVars
<1> QED
  BY <1>2, <1>3 DEF DialogPublish

(* What is deleted was not referred to, and is no job's that failed.       *)
LEMMA DeleteSoundKeepsAll ==
  ASSUME IInv, DialogDelete
  PROVE  IInv'
<1> USE DEF IInv
<1>1. MainAt = "delete" /\ Unreferred(render.old) /\ Running("main") /\ ~render.guard
  BY PlaceFacts DEF DialogDelete, At, MainAt, Whole, Pending
<1>2. /\ sounds' \in {sounds, sounds \ {render.old}}
      /\ UNCHANGED <<render, library, adhoc, edits>>
      /\ Goes("main", "finish")
  BY DEF DialogDelete
<1>3. Control'
  BY <1>1, <1>2, GoesKeeps DEF Places
<1>4. MainAt' = "finish" /\ MainJob' = MainJob /\ job' = job /\ stopping' = stopping
  BY <1>2 DEF Goes, Goto, jobVars, MainAt, MainJob, Control, ControlTyped, WorkerState, Worker
<1>5. DataTyped'
  BY <1>2, <1>4 DEF DataTyped
<1>6. SoundsKept'
  BY <1>1, <1>2 DEF Whole, SoundsKept, Unreferred
<1>7. Handlers' /\ Guarded' /\ Pending'
  BY <1>1, <1>2, <1>4 DEF Handlers, Guarded, Pending
<1>8. Owners' /\ FailedKeepNothing'
  BY <1>1, <1>2, <1>4 DEF Whole, Owners, FailedKeepNothing
<1> QED
  BY <1>3, <1>5, <1>6, <1>7, <1>8 DEF Whole

(* A file that is still guarded goes with the handler.                     *)
LEMMA LeaveMainKeepsAll ==
  ASSUME IInv, LeaveJob("main")
  PROVE  IInv'
<1> USE DEF IInv
<1>1. /\ MainAt = "leave" /\ MainJob \in Job /\ job[MainJob].status \in EndedStatus
  BY DEF LeaveJob, At, MainAt, MainJob, Control, Hands, ControlTyped, WorkerState, Worker, EndedStatus
<1>2. /\ sounds' = IF render.guard THEN sounds \ {MainJob} ELSE sounds
      /\ render' = Blank
      /\ worker' = [worker EXCEPT !["main"] = [at |-> "waiting", job |-> None]]
      /\ UNCHANGED <<job, stopping, library, adhoc, edits>>
  BY DEF LeaveJob, Mine, MainJob
<1>3. Control'
  BY LeaveKeeps DEF Worker
<1>4. MainAt' = "waiting" /\ MainJob' = None
  BY <1>2 DEF MainAt, MainJob, Control, ControlTyped, Worker
<1>5. DataTyped'
  BY <1>2 DEF DataTyped, Blank, Render
<1>6. SoundsKept'
  BY <1>2 DEF Whole, SoundsKept, Guarded, Unreferred
<1>7. Handlers' /\ Guarded' /\ Pending'
  BY <1>2, <1>4 DEF Handlers, Guarded, Pending, Blank
<1>8. Owners' /\ FailedKeepNothing'
  BY <1>1, <1>2, <1>4 DEF Whole, Owners, FailedKeepNothing
<1> QED
  BY <1>3, <1>5, <1>6, <1>7, <1>8 DEF Whole

-----------------------------------------------------------------------------
(* Every step keeps the inductive invariant.                               *)
LEMMA StepIInv == IInv /\ [Next]_vars => IInv'
<1> SUFFICES ASSUME IInv, [Next]_vars PROVE IInv'
  OBVIOUS
<1>1. ASSUME NEW c \in Client, NEW j \in Job, NEW kind \in Offered[j], CreateJob(c, j, kind)
      PROVE  IInv'
  <2>1. kind \in Kinds
    BY JobsAssumption
  <2> QED
    BY <1>1, <2>1, CreateKeepsAll
<1>2. ASSUME NEW c \in Client, ClientStep(c) PROVE IInv'
  BY <1>2, ClientStepKeepsAll
<1>3. ASSUME NEW a \in Show, DeleteAnimation(a) PROVE IInv'
  BY <1>3, DeleteKeepsAll
<1>4. ASSUME NEW a \in Show, NEW s \in Sound, SaveAnimation(a, s) PROVE IInv'
  BY <1>4, SaveKeepsAll
<1>5. ASSUME Handler PROVE IInv'
  BY <1>5, EndingsKeepAll, ReadsKeepAll, WritesKeepAll, WriteKeepsAll, PublishKeepsAll,
     DeleteSoundKeepsAll
  DEF Handler
<1>6. ASSUME MainStep PROVE IInv'
  BY <1>5, <1>6, TakeJobKeepsAll, LeaveMainKeepsAll DEF MainStep
<1>7. ASSUME MusicStep PROVE IInv'
  BY <1>7, MusicStepKeepsAll
<1>8. ASSUME RequestStop PROVE IInv'
  BY <1>8, StopKeepsAll
<1>9. ASSUME UNCHANGED vars PROVE IInv'
  <2>1. Control'
    BY <1>9, ControlFrame DEF IInv, vars
  <2>2. UNCHANGED <<render, library, adhoc, sounds, edits, job, worker, stopping>> /\ stopping' \in BOOLEAN
    BY <1>9 DEF vars, jobVars, libraryVars, IInv, DataTyped
  <2> QED
    BY <2>1, <2>2, ElsewhereKeeps
<1> QED
  BY <1>1, <1>2, <1>3, <1>4, <1>6, <1>7, <1>8, <1>9 DEF Next

(* Jobs are where their status says, and every slot that is counted is     *)
(* some job's (tryQueueMusicJob, runMusicJobs).                            *)
THEOREM JobsStayConsistent == Spec => []JobsConsistent
<1>1. IInv => JobsConsistent
  BY ControlIsConsistent DEF IInv
<1> QED
  BY <1>1, InitIInv, StepIInv, PTL DEF Spec

(* Animations have their sounds and failed renders leave nothing behind,   *)
(* whatever fails and whatever clients do meanwhile (handleDialogJob).     *)
THEOREM RendersStayWhole == Spec => []RendersAreWhole
  BY WholeIsEnough, InitIInv, StepIInv, PTL DEF Spec

-----------------------------------------------------------------------------
(* Music generation implements the bounded service.                        *)

\* A job that does not exist yet is of no kind.
Fresh == \A j \in Job : job[j].status = "none" => job[j].kind # "dialogMusic"

StatusOnly ==
  \A j \in Job : /\ job'[j].kind = job[j].kind
                 /\ job'[j].status = "none" => job[j].status = "none"

(* A handler changes the status of its own job at most, and no music job's *)
(* place.                                                                  *)
LEMMA HandlerFrame ==
  ASSUME IInv, Handler
  PROVE  UNCHANGED <<client, musicQueue>> /\ worker'["music"] = worker["music"] /\ StatusOnly
<1>1. \/ \E place \in Places : Goes("main", place)
      \/ Ends("main", "Completed") \/ Ends("main", "Failed")
  <2>1. CASE \/ LipSync \/ DialogPreview \/ DialogPreviewExport \/ VoiceFile \/ VoiceTakeAccept
             \/ SpeechPlay \/ RerenderEnd \/ Finish
    BY <2>1
    DEF LipSync, DialogPreview, DialogPreviewExport, VoiceFile, VoiceTakeAccept, OneStep,
        SpeechPlay, RerenderEnd, Finish, Completes, Fails
  <2>2. CASE \/ SpeechGenerate \/ SpeechPublish \/ AnimationRead \/ AnimationSync
             \/ RerenderStart \/ RerenderRead \/ RerenderPublish
    BY <2>2
    DEF SpeechGenerate, SpeechPublish, AnimationRead, AnimationSync, RerenderStart, RerenderRead,
        RerenderPublish, Fails, Places
  <2>3. CASE \/ DialogAssemble \/ DialogLookup \/ DialogWrite \/ DialogCount \/ DialogDelete
    BY <2>3
    DEF DialogAssemble, DialogLookup, DialogWrite, DialogCount, DialogDelete, Fails, Places
  <2>4. CASE DialogPublish
    BY <2>4 DEF DialogPublish, Fails, Places
  <2> QED
    BY <2>1, <2>2, <2>3, <2>4 DEF Handler
<1>2. ASSUME NEW place \in Places, Goes("main", place)
      PROVE  UNCHANGED <<client, musicQueue>> /\ worker'["music"] = worker["music"] /\ StatusOnly
  BY <1>2 DEF Goes, Goto, jobVars, StatusOnly, IInv, Control, ControlTyped, Worker
<1>3. ASSUME NEW status \in {"Completed", "Failed"}, Ends("main", status)
      PROVE  UNCHANGED <<client, musicQueue>> /\ worker'["music"] = worker["music"] /\ StatusOnly
  <2>1. UNCHANGED <<client, musicQueue>> /\ worker'["music"] = worker["music"]
    BY <1>3 DEF Ends, Goto, IInv, Control, ControlTyped, Worker
  <2>2. CASE Mine("main") \in Job
    BY <1>3, <2>1, <2>2, StatusStep DEF Ends, StatusOnly, IInv, Control
  <2>3. CASE Mine("main") \notin Job
    BY <1>3, <2>1, <2>3 DEF Ends, StatusOnly, IInv, Control, ControlTyped
  <2> QED
    BY <2>2, <2>3
<1> QED
  BY <1>1, <1>2, <1>3

(* A step that leaves requests, the music queue and the music thread alone *)
(* is a stutter of the service.                                            *)
LEMMA ServiceStutters ==
  ASSUME UNCHANGED <<client, musicQueue>>, Mine("music")' = Mine("music"), StatusOnly
  PROVE  Admission' = Admission
<1>1. InFlight' = InFlight
  BY DEF InFlight
<1> QED
  BY <1>1 DEF Admission, StatusOnly

(* What a job's admission is.                                              *)
LEMMA AdmissionOf ==
  ASSUME NEW j \in Job
  PROVE  /\ j \in InFlight => Admission[j] = "held"
         /\ j \notin InFlight => Admission[j] = "new" \/ Admission[j] = "over"
<1>1. CASE j \in InFlight
  BY <1>1 DEF Admission
<1>2. CASE j \notin InFlight
  <2>1. CASE \/ job[j].kind # "dialogMusic"
             \/ \E c \in Client : client[c] = [at |-> "submit", job |-> j]
    BY <1>2, <2>1 DEF Admission
  <2>2. CASE ~ (\/ job[j].kind # "dialogMusic"
                \/ \E c \in Client : client[c] = [at |-> "submit", job |-> j])
    BY <1>2, <2>2 DEF Admission
  <2> QED
    BY <2>1, <2>2
<1> QED
  BY <1>1, <1>2

(* The outstanding tasks of the service are the jobs that have a slot.     *)
LEMMA OutstandingIsInFlight ==
  ASSUME Control
  PROVE  Service!Outstanding = InFlight /\ InFlight \subseteq Job
<1>1. \A j \in InFlight : j \in Job
  BY DEF InFlight, Mine, Control, ControlTyped, ClientState, WorkerState, Worker, Requests
<1>2. \A j \in Job : Admission[j] = "held" <=> j \in InFlight
  BY AdmissionOf
<1>3. Service!Outstanding = {j \in Job : Admission[j] = "held"}
  BY DEF Service!Outstanding
<1> HIDE DEF Admission
<1> QED
  BY <1>1, <1>2, <1>3

(* The step that decides a job's request changes its admission alone.      *)
LEMMA OnlyOneDecided ==
  ASSUME NEW j \in Job, NEW answer, Admission'[j] = answer,
         \A k \in Job : k # j => Admission'[k] = Admission[k]
  PROVE  Admission' = [Service!Over({}) EXCEPT ![j] = answer]
<1>1. Service!Over({}) = [k \in Job |-> Admission[k]]
  BY DEF Service!Over
<1>2. Admission' = [k \in Job |-> Admission'[k]]
  BY DEF Admission
<1>3. [Service!Over({}) EXCEPT ![j] = answer] = [k \in Job |-> IF k = j THEN answer ELSE Admission[k]]
  BY <1>1
<1> HIDE DEF Admission
<1> QED
  BY <1>2, <1>3

(* A job is admitted or refused at its request's compare-exchange, and is  *)
(* over when the music thread has returned from it.                        *)
LEMMA ServiceStep ==
  ASSUME IInv, Fresh, [Next]_vars
  PROVE  [Service!Next]_(Service!vars) /\ Fresh'
<1> USE DEF IInv
<1>1. ASSUME Admission' = Admission PROVE [Service!Next]_(Service!vars)
  BY <1>1 DEF Service!vars
<1>2. ASSUME StatusOnly PROVE Fresh'
  BY <1>2 DEF StatusOnly, Fresh
<1>3. ASSUME NEW c \in Client, NEW j \in Job, NEW kind \in Offered[j], CreateJob(c, j, kind)
      PROVE  Admission' = Admission /\ Fresh'
  <2>1. /\ client[c].at = "idle" /\ job[j].status = "none"
        /\ job'[j].kind = kind /\ job'[j].status = "Queued"
        /\ \A k \in Job : k # j => job'[k] = job[k]
        /\ client' = [client EXCEPT ![c] = [at |-> "submit", job |-> j]]
        /\ UNCHANGED <<musicQueue, worker>>
    BY <1>3 DEF CreateJob, NextJob, Control, ControlTyped
  <2>2. InFlight' = InFlight
    BY <2>1 DEF InFlight, Mine, Control, ControlTyped
  <2>3. j \notin InFlight
    BY <2>1, JobsAssumption DEF InFlight, Mine, Control, Requests, Lanes, Hands, Worker
  <2>4. Admission[j] = "new" /\ Admission'[j] = "new"
    <3>1. client'[c] = [at |-> "submit", job |-> j]
      BY <2>1 DEF Control, ControlTyped
    <3> QED
      BY <2>1, <2>2, <2>3, <3>1 DEF Admission, Fresh
  <2>5. ASSUME NEW k \in Job, k # j PROVE Admission'[k] = Admission[k]
    <3>1. \A d \in Client : client[d] = [at |-> "submit", job |-> k]
                              <=> client'[d] = [at |-> "submit", job |-> k]
      BY <2>1, <2>5 DEF Control, ControlTyped
    <3> QED
      BY <2>1, <2>2, <2>5, <3>1 DEF Admission
  <2>6. Admission' = Admission
    BY <2>4, <2>5 DEF Admission
  <2> QED
    BY <2>1, <2>6 DEF Fresh
<1>4. ASSUME NEW c \in Client, QueueJob(c) PROVE Admission' = Admission /\ StatusOnly
  <2>1. /\ client[c].at = "submit" /\ job[client[c].job].kind # "dialogMusic" /\ client[c].job \in Job
        /\ client' = [client EXCEPT ![c] = [at |-> "idle", job |-> None]]
        /\ UNCHANGED <<job, musicQueue, worker>>
    BY <1>4 DEF QueueJob, Submits, Answers, Control, Requests, ControlTyped, ClientState
  <2>2. InFlight' = InFlight
    BY <2>1 DEF InFlight, Mine, Control, ControlTyped
  <2>3. ASSUME NEW k \in Job, job[k].kind = "dialogMusic"
        PROVE  \A d \in Client : client[d] = [at |-> "submit", job |-> k]
                                 <=> client'[d] = [at |-> "submit", job |-> k]
    BY <2>1, <2>3 DEF Control, ControlTyped
  <2> QED
    BY <2>1, <2>2, <2>3 DEF Admission, StatusOnly
<1>5. ASSUME NEW c \in Client, ReserveSlot(c) PROVE Service!Next /\ StatusOnly
  <2> DEFINE j == client[c].job
  <2>1. /\ j \in Job \ InFlight /\ InFlight' = InFlight \cup {j}
        /\ client[c].at = "submit" /\ slots < MusicSlots
        /\ client' = [client EXCEPT ![c].at = "enqueue"]
        /\ job' = job
    BY <1>5, ReserveKeeps DEF ReserveSlot, Submits
  <2>2. client[c] = [at |-> "submit", job |-> j]
    BY <2>1 DEF Control, ControlTyped, ClientState
  <2>3. Admission[j] = "new"
    BY <2>1, <2>2 DEF Admission
  <2>4. Cardinality(Service!Outstanding \ {}) < MusicSlots
    BY <2>1, OutstandingIsInFlight DEF Control, Counted
  <2>5. Admission' = [Service!Over({}) EXCEPT ![j] = "held"]
    <3>1. ASSUME NEW k \in Job, k # j PROVE Admission'[k] = Admission[k]
      <4>1. \A d \in Client : client[d] = [at |-> "submit", job |-> k]
                                <=> client'[d] = [at |-> "submit", job |-> k]
        BY <2>1, <2>2, <3>1 DEF Control, ControlTyped
      <4> QED
        BY <2>1, <3>1, <4>1 DEF Admission
    <3>2. Admission'[j] = "held"
      <4>1. j \in InFlight' /\ j \in Job
        BY <2>1
      <4> QED
        BY <4>1 DEF Admission
    <3> QED
      BY <2>1, <3>1, <3>2, OnlyOneDecided
  <2>6. Service!Admit(j, {})
    BY <2>3, <2>4, <2>5 DEF Service!Admit, Service!Cardinality, Cardinality
  <2> QED
    BY <2>1, <2>6 DEF Service!Next, StatusOnly
<1>6. ASSUME NEW c \in Client, EnqueueMusic(c) PROVE Admission' = Admission /\ StatusOnly
  <2>1. /\ client[c].at = "enqueue" /\ InFlight' = InFlight /\ job' = job
        /\ client' = [client EXCEPT ![c] = [at |-> "idle", job |-> None]]
    BY <1>6, EnqueueKeeps DEF EnqueueMusic, Answers
  <2>2. ASSUME NEW k \in Job
        PROVE  \A d \in Client : client[d] = [at |-> "submit", job |-> k]
                                 <=> client'[d] = [at |-> "submit", job |-> k]
    BY <2>1 DEF Control, ControlTyped
  <2> QED
    BY <2>1, <2>2 DEF Admission, StatusOnly
<1>7. ASSUME NEW c \in Client, RefuseMusic(c) PROVE Service!Next /\ StatusOnly
  <2> DEFINE j == client[c].job
  <2>1. /\ client[c].at = "submit" /\ job[j].kind = "dialogMusic" /\ slots >= MusicSlots
        /\ client' = [client EXCEPT ![c].at = "refuse"]
        /\ job' = job /\ InFlight' = InFlight
    BY <1>7, RefuseKeeps DEF RefuseMusic, Submits
  <2>2. client[c] = [at |-> "submit", job |-> j] /\ j \in Job
    BY <2>1 DEF Control, Requests, ControlTyped, ClientState
  <2>3. j \notin InFlight
    BY <2>1, <2>2, JobsAssumption DEF InFlight, Mine, Control, Requests, Worker
  <2>4. Admission[j] = "new"
    BY <2>2, <2>3 DEF Admission
  <2>5. Cardinality(Service!Outstanding \ {}) >= MusicSlots
    BY <2>1, OutstandingIsInFlight DEF Control, Counted
  <2>6. Admission' = [Service!Over({}) EXCEPT ![j] = "over"]
    <3>1. ASSUME NEW k \in Job, k # j PROVE Admission'[k] = Admission[k]
      <4>1. \A d \in Client : client[d] = [at |-> "submit", job |-> k]
                                <=> client'[d] = [at |-> "submit", job |-> k]
        BY <2>1, <2>2, <3>1 DEF Control, ControlTyped
      <4> QED
        BY <2>1, <4>1 DEF Admission
    <3>2. \A d \in Client : client'[d] # [at |-> "submit", job |-> j]
      BY <2>1, <2>2, JobsAssumption DEF Control, ControlTyped, ClientState, Requests
    <3>3. Admission'[j] = "over"
      BY <2>1, <2>2, <2>3, <3>2 DEF Admission
    <3> QED
      BY <2>2, <3>1, <3>3, OnlyOneDecided
  <2>7. Service!Refuse(j, {})
    BY <2>4, <2>5, <2>6 DEF Service!Refuse, Service!Cardinality, Cardinality
  <2> QED
    BY <2>1, <2>2, <2>7 DEF Service!Next, StatusOnly
<1>8. ASSUME NEW c \in Client, FailRefused(c) PROVE Admission' = Admission /\ StatusOnly
  <2>1. /\ client[c].at = "refuse" /\ client[c].job \in Job
        /\ job' = [job EXCEPT ![client[c].job].status = "Failed"]
        /\ client' = [client EXCEPT ![c] = [at |-> "idle", job |-> None]]
        /\ InFlight' = InFlight
    BY <1>8, FailRefusedKeeps DEF FailRefused, Answers, Control, Requests, ControlTyped, ClientState
  <2>2. StatusOnly
    BY <2>1, StatusStep DEF StatusOnly, Control
  <2>3. ASSUME NEW k \in Job
        PROVE  \A d \in Client : client[d] = [at |-> "submit", job |-> k]
                                 <=> client'[d] = [at |-> "submit", job |-> k]
    BY <2>1 DEF Control, ControlTyped
  <2> QED
    BY <2>1, <2>2, <2>3 DEF Admission, StatusOnly
<1>9. ASSUME MainStep PROVE Admission' = Admission /\ StatusOnly
  <2>1. CASE Handler
    BY <2>1, HandlerFrame, ServiceStutters DEF Mine
  <2>2. CASE TakeJob
    <3>1. PICK j \in queue : Starts("main", j) /\ UNCHANGED musicQueue
      BY <2>2 DEF TakeJob
    <3>2. /\ j \in Job /\ job' = [job EXCEPT ![j].status = "Running"]
          /\ client' = client /\ worker'["music"] = worker["music"]
      BY <3>1 DEF Starts, Control, ControlTyped, Worker
    <3>3. StatusOnly
      BY <3>2, StatusStep DEF StatusOnly, Control
    <3> QED
      BY <3>1, <3>2, <3>3, ServiceStutters DEF Mine
  <2>3. CASE LeaveJob("main")
    <3>1. UNCHANGED <<client, musicQueue, job>> /\ worker'["music"] = worker["music"]
      BY <2>3 DEF LeaveJob, Control, ControlTyped, Worker
    <3> QED
      BY <3>1, ServiceStutters DEF Mine, StatusOnly
  <2> QED
    BY <1>9, <2>1, <2>2, <2>3 DEF MainStep
<1>10. ASSUME MusicStep PROVE [Service!Next]_(Service!vars) /\ StatusOnly
  <2>1. CASE TakeMusic
    <3>1. PICK j \in musicQueue : Starts("music", j)
      BY <2>1 DEF TakeMusic
    <3>2. /\ j \in Job /\ job' = [job EXCEPT ![j].status = "Running"] /\ client' = client
          /\ InFlight' = InFlight
      BY <2>1, <3>1, TakeMusicKeeps DEF Starts, Control, ControlTyped
    <3>3. StatusOnly
      BY <3>2, StatusStep DEF StatusOnly, Control
    <3>4. Admission' = Admission
      BY <3>2, <3>3 DEF Admission, StatusOnly
    <3> QED
      BY <1>1, <3>3, <3>4
  <2>2. CASE DialogMusic
    <3>1. PICK status \in {"Completed", "Failed"} : Ends("music", status)
      BY <2>2 DEF DialogMusic, OneStep, Completes, Fails
    <3>2. Running("music") /\ "music" \in Worker
      BY <2>2 DEF DialogMusic, OneStep, Handles, At, Running, Worker
    <3>3. InFlight' = InFlight /\ worker["music"].job \in Job
      BY <3>1, <3>2, EndsKeeps
    <3>4. job' = [job EXCEPT ![worker["music"].job].status = status] /\ client' = client
      BY <3>1 DEF Ends, Mine
    <3>5. StatusOnly
      BY <3>3, <3>4, StatusStep DEF StatusOnly, Control
    <3>6. Admission' = Admission
      BY <3>3, <3>4, <3>5 DEF Admission, StatusOnly
    <3> QED
      BY <1>1, <3>5, <3>6
  <2>3. CASE LeaveJob("music")
    <3> DEFINE j == worker["music"].job
    <3>1. /\ InFlight' = InFlight \ {j} /\ UNCHANGED <<job, client>>
          /\ j \in Job /\ worker["music"].at = "leave"
      BY <2>3, LeaveKeeps DEF LeaveJob, At, Control, Hands, ControlTyped, WorkerState, Worker
    <3>2. job[j].kind = "dialogMusic" /\ \A d \in Client : client[d].job # j
      BY <3>1, JobsAssumption DEF Control, Lanes, Requests, Worker
    <3>3. j \in InFlight
      BY <3>1, JobsAssumption DEF InFlight, Mine
    <3>4. Admission' = Service!Over({j})
      <4>1. Admission'[j] = "over"
        BY <3>1, <3>2 DEF Admission
      <4>2. ASSUME NEW k \in Job, k # j PROVE Admission'[k] = Admission[k]
        BY <3>1, <4>2 DEF Admission
      <4> QED
        BY <4>1, <4>2 DEF Admission, Service!Over
    <3>5. Service!Finish({j}) /\ {j} \in SUBSET Service!Outstanding
      BY <3>3, <3>4, OutstandingIsInFlight DEF Service!Finish
    <3> QED
      BY <3>1, <3>5 DEF Service!Next, StatusOnly
  <2> QED
    BY <1>10, <2>1, <2>2, <2>3 DEF MusicStep
<1>11. ASSUME \/ \E a \in Show : DeleteAnimation(a) \/ \E s \in Sound : SaveAnimation(a, s)
              \/ RequestStop \/ UNCHANGED vars
       PROVE  Admission' = Admission /\ StatusOnly
  <2>1. UNCHANGED <<job, client, musicQueue, worker>>
    BY <1>11 DEF DeleteAnimation, SaveAnimation, RequestStop, vars, jobVars
  <2> QED
    BY <2>1, ServiceStutters DEF Mine, StatusOnly
<1>12. ASSUME NEW c \in Client, ClientStep(c) PROVE [Service!Next]_(Service!vars) /\ Fresh'
  BY <1>1, <1>2, <1>4, <1>5, <1>6, <1>7, <1>8, <1>12 DEF ClientStep
<1> QED
  BY <1>1, <1>2, <1>3, <1>9, <1>10, <1>11, <1>12 DEF Next

(* "Returns false without queueing when both slots are already             *)
(* queued/running" (JobWorker.h), and only then: music generation is a     *)
(* bounded service, for every number of slots.                             *)
THEOREM MusicStaysBounded == Spec => MusicIsBounded
<1>1. Init => Service!Init /\ Fresh
  <2> SUFFICES ASSUME Init PROVE Service!Init /\ Fresh
    OBVIOUS
  <2>1. InFlight = {}
    BY DEF Init, InFlight, Mine, Worker
  <2>2. \A j \in Job : job[j].kind # "dialogMusic"
    BY JobsAssumption DEF Init, Unborn, Kinds
  <2>3. Admission = [j \in Job |-> "new"]
    BY <2>1, <2>2 DEF Admission
  <2> QED
    BY <2>2, <2>3 DEF Service!Init, Fresh
<1>2. IInv /\ Fresh /\ [Next]_vars => [Service!Next]_(Service!vars) /\ Fresh'
  BY ServiceStep
<1> QED
  BY <1>1, <1>2, InitIInv, StepIInv, PTL DEF Spec, MusicIsBounded, Service!Spec
=============================================================================
