------------------------- MODULE AudioLoadExecutor -------------------------
(***************************************************************************)
(* The fixed-size executor that loads and encodes the audio of cooperative *)
(* animations (rtp/AudioLoadExecutor.cpp).  A scheduling thread reserves a *)
(* slot before it builds a session, and commits the reservation with a job *)
(* or drops it.  Workers take jobs in order; a job whose session was       *)
(* cancelled is skipped, or pruned from the queue by a later admission.    *)
(*                                                                         *)
(* Every action is one critical section of queueMutex_, or one step of a   *)
(* worker outside it.  The condition variable of the workers is modelled   *)
(* with its sleepers and its notifications, which are sent after the mutex *)
(* is released; that of shutdown() is the guard of Close.                  *)
(***************************************************************************)
EXTENDS Naturals, FiniteSets

CONSTANTS
  MaxJobs,    \* bound: loads that ever ask for admission
  MaxCancels, \* bound: loads whose session is cancelled
  Scheduler,  \* threads that schedule animations
  Worker,     \* the executor's threads
  Capacity,   \* queueCapacity_
  ScanLimit   \* MAX_CANCELLATION_CHECKS_PER_ADMISSION

ASSUME ExecutorAssumption ==
  /\ MaxJobs \in Nat /\ MaxCancels \in Nat
  /\ IsFiniteSet(Scheduler)
  /\ IsFiniteSet(Worker) /\ Worker # {}
  /\ Scheduler \cap Worker = {}
  /\ Capacity \in Nat \ {0}
  /\ ScanLimit \in Nat \ {0}

VARIABLES
  phase,         \* how far each job has got
  arrival,       \* job -> its place in the order of commits (queue_)
  accepted,      \* accepted_
  reservations,  \* reservations_
  inFlight,      \* inFlight_
  notices,       \* cancellationNotifications_; their order means nothing
  cancelled,     \* jobs whose isCancelled() is true
  told,          \* job -> times its onCancelled ran (history)
  holds,         \* thread -> job it holds a Reservation for
  waking,        \* threads about to notify one sleeping worker
  worker,        \* worker -> where it is, and the job in its hands
  closer         \* progress of shutdown()

queueVars  == <<phase, arrival, accepted, notices, told>>
countVars  == <<reservations, inFlight>>
threadVars == <<holds, waking>>
vars == <<queueVars, countVars, threadVars, cancelled, worker, closer>>

Thread == Scheduler \cup Worker

\* Loads are numbered in the order in which they ask for admission.
Job == 1 .. MaxJobs

NoJob == 0

\* A job ran, or was taken out cancelled; or it never got into the queue.
Final == {"ran", "cancelled", "rejected"}

Phase == {"new", "reserved", "queued", "taken"} \cup Final

Place == {"waiting", "asleep", "check", "run", "failed", "settle", "exited"}

Limit == Cardinality(Worker) + Capacity

Queued  == {j \in Job : phase[j] = "queued"}
Holding == {t \in Thread : holds[t] # NoJob}
Busy    == {w \in Worker : worker[w].job # NoJob}

\* Jobs of S that were committed before j.
Ahead(S, j) == {k \in S : arrival[k] < arrival[j]}

FirstOf(S, n) == {j \in S : Cardinality(Ahead(S, j)) < n}

Stopping == closer # "open"

ShutDown == closer \in {"closing", "joining", "closed"}

-----------------------------------------------------------------------------
Init ==
  /\ phase = [j \in Job |-> "new"]
  /\ arrival = [j \in Job |-> 0]
  /\ accepted = 0
  /\ reservations = 0
  /\ inFlight = 0
  /\ notices = {}
  /\ cancelled = {}
  /\ told = [j \in Job |-> 0]
  /\ holds = [t \in Thread |-> NoJob]
  /\ waking = {}
  /\ worker = [w \in Worker |-> [at |-> "waiting", job |-> NoJob]]
  /\ closer = "open"

\* The session of an admitted job is cancelled, by whoever replaces it; once
\* a worker has asked isCancelled() the executor takes no further notice.
CancelSession(j) ==
  /\ \/ phase[j] \in {"reserved", "queued"}
     \/ \E w \in Worker : worker[w] = [at |-> "check", job |-> j]
  /\ Cardinality(cancelled) < MaxCancels
  /\ cancelled' = cancelled \cup {j}
  /\ UNCHANGED <<queueVars, countVars, threadVars, worker, closer>>

-----------------------------------------------------------------------------
(* Admission.                                                              *)

\* A scheduling thread, or a worker whose failed load restarts idle playback.
Schedules(t) ==
  /\ t \in Scheduler \/ (t \in Worker /\ worker[t].at = "failed")
  /\ holds[t] = NoJob
  /\ t \notin waking

\* The next load to ask.
Asks(j) == phase[j] = "new" /\ \A k \in Job : k < j => phase[k] # "new"

\* takeCancelledJobsLocked: cancelled jobs among the first ones queued.
Stale == FirstOf(Queued, ScanLimit) \cap cancelled

\* enqueueCancellationNotificationsLocked, with room for Capacity of them.
Prune(t) ==
  /\ notices' = notices \cup IF Cardinality(notices) < Capacity
                             THEN FirstOf(Stale, Capacity - Cardinality(notices)) ELSE {}
  /\ waking' = IF Stale = {} THEN waking ELSE waking \cup {t}

\* The phases after an admission that pruned the queue and left j in p.
PrunedWith(j, p) ==
  [k \in Job |-> IF k = j THEN p ELSE IF k \in Stale THEN "cancelled" ELSE phase[k]]

\* Mutant: the limit is compared with the queue and the workers' jobs alone.
ReserveUncounted(t, j) ==
  /\ Schedules(t) /\ Asks(j) /\ ~Stopping
  /\ Cardinality(Queued \ Stale) + Cardinality(Busy) < Limit
  /\ inFlight' = inFlight - Cardinality(Stale) + 1
  /\ reservations' = reservations + 1
  /\ holds' = [holds EXCEPT ![t] = j]
  /\ phase' = PrunedWith(j, "reserved")
  /\ Prune(t)
  /\ UNCHANGED <<arrival, accepted, told, cancelled, worker, closer>>

\* tryReserve: accepted.
Reserve(t, j) ==
  /\ Schedules(t) /\ Asks(j) /\ ~Stopping
  /\ inFlight - Cardinality(Stale) < Limit
  /\ inFlight' = inFlight - Cardinality(Stale) + 1
  /\ reservations' = reservations + 1
  /\ holds' = [holds EXCEPT ![t] = j]
  /\ phase' = PrunedWith(j, "reserved")
  /\ Prune(t)
  /\ UNCHANGED <<arrival, accepted, told, cancelled, worker, closer>>

\* tryReserve: every slot is in use even without the pruned jobs.
ReserveFull(t, j) ==
  /\ Schedules(t) /\ Asks(j) /\ ~Stopping
  /\ inFlight - Cardinality(Stale) >= Limit
  /\ inFlight' = inFlight - Cardinality(Stale)
  /\ phase' = PrunedWith(j, "rejected")
  /\ Prune(t)
  /\ UNCHANGED <<arrival, accepted, told, reservations, holds, cancelled, worker, closer>>

\* tryReserve: shutdown has begun.
ReserveStopping(t, j) ==
  /\ Schedules(t) /\ Asks(j) /\ Stopping
  /\ phase' = [phase EXCEPT ![j] = "rejected"]
  /\ UNCHANGED <<arrival, accepted, notices, told, countVars, threadVars, cancelled, worker, closer>>

\* Mutant: an idle worker is not notified of the job.
SubmitUnnotified(t) ==
  /\ holds[t] # NoJob /\ t \notin waking
  /\ reservations' = reservations - 1
  /\ holds' = [holds EXCEPT ![t] = NoJob]
  /\ IF ShutDown
     THEN /\ inFlight' = inFlight - 1
          /\ phase' = [phase EXCEPT ![holds[t]] = "rejected"]
          /\ UNCHANGED <<arrival, accepted, waking>>
     ELSE /\ phase' = [phase EXCEPT ![holds[t]] = "queued"]
          /\ accepted' = accepted + 1
          /\ arrival' = [arrival EXCEPT ![holds[t]] = accepted + 1]
          /\ UNCHANGED <<inFlight, waking>>
  /\ UNCHANGED <<notices, told, cancelled, worker, closer>>

\* submit: commits the reservation t holds, then notifies one worker.
Submit(t) ==
  /\ holds[t] # NoJob /\ t \notin waking
  /\ reservations' = reservations - 1
  /\ holds' = [holds EXCEPT ![t] = NoJob]
  /\ IF ShutDown
     THEN /\ inFlight' = inFlight - 1
          /\ phase' = [phase EXCEPT ![holds[t]] = "rejected"]
          /\ UNCHANGED <<arrival, accepted, waking>>
     ELSE /\ phase' = [phase EXCEPT ![holds[t]] = "queued"]
          /\ accepted' = accepted + 1
          /\ arrival' = [arrival EXCEPT ![holds[t]] = accepted + 1]
          /\ waking' = waking \cup {t}
          /\ UNCHANGED inFlight
  /\ UNCHANGED <<notices, told, cancelled, worker, closer>>

\* Mutant: a dropped token gives back its reservation but not its slot.
DropReservationKeepsSlot(t) ==
  /\ holds[t] # NoJob /\ t \notin waking
  /\ holds' = [holds EXCEPT ![t] = NoJob]
  /\ phase' = [phase EXCEPT ![holds[t]] = "rejected"]
  /\ reservations' = reservations - 1
  /\ UNCHANGED <<arrival, accepted, notices, told, waking, inFlight, cancelled, worker, closer>>

\* releaseReservation: the token is destroyed, its session was not built.
DropReservation(t) ==
  /\ holds[t] # NoJob /\ t \notin waking
  /\ holds' = [holds EXCEPT ![t] = NoJob]
  /\ phase' = [phase EXCEPT ![holds[t]] = "rejected"]
  /\ IF reservations = 0 \/ inFlight = 0 THEN UNCHANGED countVars
     ELSE reservations' = reservations - 1 /\ inFlight' = inFlight - 1
  /\ UNCHANGED <<arrival, accepted, notices, told, waking, cancelled, worker, closer>>

Awake(S) == [w \in Worker |-> IF w \in S /\ worker[w].at = "asleep"
                              THEN [worker[w] EXCEPT !.at = "waiting"] ELSE worker[w]]

\* notify_one, after the critical section that put t into waking.
NotifyOne(t) ==
  /\ t \in waking
  /\ waking' = waking \ {t}
  /\ IF \E w \in Worker : worker[w].at = "asleep"
     THEN \E w \in Worker : worker[w].at = "asleep" /\ worker' = Awake({w})
     ELSE UNCHANGED worker
  /\ UNCHANGED <<queueVars, countVars, holds, cancelled, closer>>

-----------------------------------------------------------------------------
(* workerLoop.                                                             *)

At(w, place) == worker[w].at = place

Move(w, place) == worker' = [worker EXCEPT ![w].at = place]

Sleep(w) ==
  /\ At(w, "waiting")
  /\ ~ShutDown /\ notices = {} /\ Queued = {}
  /\ Move(w, "asleep")
  /\ UNCHANGED <<queueVars, countVars, threadVars, cancelled, closer>>

\* A notification, its callback included; the worker comes back for more.
TakeNotice(w) ==
  /\ At(w, "waiting")
  /\ \E j \in notices :
       /\ notices' = notices \ {j}
       /\ told' = [told EXCEPT ![j] = @ + 1]
  /\ UNCHANGED <<phase, arrival, accepted, countVars, threadVars, cancelled, worker, closer>>

Exit(w) ==
  /\ At(w, "waiting")
  /\ notices = {} /\ ShutDown
  /\ Move(w, "exited")
  /\ UNCHANGED <<queueVars, countVars, threadVars, cancelled, closer>>

TakeJob(w) ==
  /\ At(w, "waiting")
  /\ notices = {} /\ ~ShutDown
  /\ \E j \in FirstOf(Queued, 1) :
       /\ phase' = [phase EXCEPT ![j] = "taken"]
       /\ worker' = [worker EXCEPT ![w] = [at |-> "check", job |-> j]]
  /\ UNCHANGED <<arrival, accepted, notices, told, countVars, threadVars, cancelled, closer>>

Check(w) ==
  /\ At(w, "check")
  /\ worker[w].job \notin cancelled
  /\ Move(w, "run")
  /\ UNCHANGED <<queueVars, countVars, threadVars, cancelled, closer>>

\* Mutant: a skipped job also runs its failure path.
SkipAndFail(w) ==
  LET j == worker[w].job
  IN  /\ At(w, "check")
      /\ j \in cancelled
      /\ phase' = [phase EXCEPT ![j] = "cancelled"]
      /\ told' = [told EXCEPT ![j] = @ + 1]
      /\ Move(w, "run")
      /\ UNCHANGED <<arrival, accepted, notices, countVars, threadVars, cancelled, closer>>

Skip(w) ==
  LET j == worker[w].job
  IN  /\ At(w, "check")
      /\ j \in cancelled
      /\ phase' = [phase EXCEPT ![j] = "cancelled"]
      /\ told' = [told EXCEPT ![j] = @ + 1]
      /\ Move(w, "settle")
      /\ UNCHANGED <<arrival, accepted, notices, countVars, threadVars, cancelled, closer>>

\* job.run() returned, or threw and onFailure goes on.
RunEnds(w) ==
  /\ At(w, "run")
  /\ phase' = [phase EXCEPT ![worker[w].job] = "ran"]
  /\ Move(w, "settle") \/ Move(w, "failed")
  /\ UNCHANGED <<arrival, accepted, notices, told, countVars, threadVars, cancelled, closer>>

\* recordFailure is done, with the scheduling it may have caused.
Recovered(w) ==
  /\ At(w, "failed")
  /\ holds[w] = NoJob /\ w \notin waking
  /\ Move(w, "settle")
  /\ UNCHANGED <<queueVars, countVars, threadVars, cancelled, closer>>

\* The slot is given back.
Settle(w) ==
  /\ At(w, "settle")
  /\ inFlight' = IF inFlight = 0 THEN 0 ELSE inFlight - 1
  /\ worker' = [worker EXCEPT ![w] = [at |-> "waiting", job |-> NoJob]]
  /\ UNCHANGED <<queueVars, reservations, threadVars, cancelled, closer>>

-----------------------------------------------------------------------------
(* shutdown.                                                               *)

RequestStop ==
  /\ closer = "open"
  /\ closer' = "stopping"
  /\ UNCHANGED <<queueVars, countVars, threadVars, cancelled, worker>>

\* Every reservation is back; the queue is discarded, and its jobs are told
\* as soon as the mutex is released.
Close ==
  /\ closer = "stopping"
  /\ reservations = 0
  /\ closer' = "closing"
  /\ phase' = [j \in Job |-> IF j \in Queued THEN "cancelled" ELSE phase[j]]
  /\ inFlight' = inFlight - Cardinality(Queued)
  /\ told' = [j \in Job |-> IF j \in Queued THEN told[j] + 1 ELSE told[j]]
  /\ UNCHANGED <<arrival, accepted, notices, reservations, threadVars, cancelled, worker>>

NotifyAll ==
  /\ closer = "closing"
  /\ closer' = "joining"
  /\ worker' = Awake(Worker)
  /\ UNCHANGED <<queueVars, countVars, threadVars, cancelled>>

Join ==
  /\ closer = "joining"
  /\ \A w \in Worker : At(w, "exited")
  /\ closer' = "closed"
  /\ UNCHANGED <<queueVars, countVars, threadVars, cancelled, worker>>

-----------------------------------------------------------------------------
WorkerStep(w) ==
  \/ Sleep(w) \/ TakeNotice(w) \/ Exit(w) \/ TakeJob(w)
  \/ Check(w) \/ Skip(w) \/ RunEnds(w) \/ Recovered(w) \/ Settle(w)

TokenStep(t) == Submit(t) \/ DropReservation(t)

CloserStep == Close \/ NotifyAll \/ Join

Next ==
  \/ \E t \in Thread, j \in Job : Reserve(t, j) \/ ReserveFull(t, j) \/ ReserveStopping(t, j)
  \/ \E t \in Thread : TokenStep(t) \/ NotifyOne(t)
  \/ \E w \in Worker : WorkerStep(w)
  \/ \E j \in Job : CancelSession(j)
  \/ RequestStop \/ CloserStep

\* A thread inside the executor, or with a token in its scope, goes on; loads
\* return.  Nothing makes anyone schedule, cancel or request the shutdown.
Fairness ==
  /\ \A t \in Thread : WF_vars(TokenStep(t)) /\ WF_vars(NotifyOne(t))
  /\ \A w \in Worker : WF_vars(WorkerStep(w))
  /\ WF_vars(CloserStep)

Spec == Init /\ [][Next]_vars

FairSpec == Spec /\ Fairness

-----------------------------------------------------------------------------
TypeOK ==
  /\ phase \in [Job -> Phase]
  /\ arrival \in [Job -> Nat]
  /\ accepted \in Nat
  /\ reservations \in Nat
  /\ inFlight \in Nat
  /\ notices \subseteq Job
  /\ cancelled \subseteq Job
  /\ told \in [Job -> Nat]
  /\ holds \in [Thread -> Job \cup {NoJob}]
  /\ waking \subseteq Thread
  /\ worker \in [Worker -> [at : Place, job : Job \cup {NoJob}]]
  /\ closer \in {"open", "stopping", "closing", "joining", "closed"}

\* The two counters say what they count, so the underflow guards of
\* releaseReservation and workerLoop never apply and no slot leaks.
Accounting ==
  /\ reservations = Cardinality(Holding)
  /\ inFlight = Cardinality(Holding) + Cardinality(Queued) + Cardinality(Busy)

(* Loads reserved, queued and running never exceed the workers and the     *)
(* queue together, whoever is admitted between two checks.                 *)
Bounded == Cardinality(Holding) + Cardinality(Queued) + Cardinality(Busy) <= Limit

\* "Saturation cannot reject a valid token; shutdown waits for outstanding
\* reservations": a thread that replaced a session on the strength of its
\* token always gets its job into the queue.
CommitIsAccepted == ShutDown => Holding = {}

(* Action property: a job is settled once; a job that ran, was skipped,    *)
(* pruned, discarded or refused does none of these again.                  *)
SettledOnce == [][\A j \in Job : phase[j] \in Final => phase'[j] = phase[j]]_vars

\* A job is told of its cancellation at most once, and only if it was taken
\* out without running.
ToldOnce ==
  \A j \in Job : /\ told[j] <= 1
                 /\ told[j] = 1 \/ j \in notices => phase[j] = "cancelled"
                 /\ told[j] = 1 => j \notin notices

(* Safety: through every rejection, prune, dropped token, cancellation and *)
(* shutdown the counters count, a token is honoured, and whoever must be   *)
(* told is told once.                                                      *)
ExecutorConsistent == TypeOK /\ Accounting /\ CommitIsAccepted /\ ToldOnce

QueuedIsTaken == \A j \in Job : phase[j] = "queued" ~> phase[j] # "queued"

ShutdownEnds == closer = "stopping" ~> closer = "closed"

(* Liveness: a committed job is taken or discarded, where a notification   *)
(* lost between two sleeping workers would leave it in the queue; and      *)
(* shutdown ends, although it waits for tokens and joins workers whose     *)
(* failed loads may schedule again.                                        *)
LoadsEnd == QueuedIsTaken /\ ShutdownEnds

\* Loads someone holds a token for, queued ones, and those a worker has.
InHand ==
  {holds[t] : t \in Holding} \cup Queued \cup {worker[w].job : w \in Busy}

\* Refinement mapping: a load is outstanding while it is in somebody's hand.
Admission ==
  [j \in Job |-> IF j \in InHand THEN "held" ELSE IF phase[j] = "new" THEN "new" ELSE "over"]

Service == INSTANCE BoundedService
  WITH Tasks <- Job, Capacity <- Limit, task <- Admission, closed <- Stopping

(* "Saturation" means what it says: the executor is a bounded service, in  *)
(* which a load is refused only because as many are outstanding as there   *)
(* are workers and queue places, or because shutdown has begun.            *)
LoadsAreBounded == Service!Spec
=============================================================================
