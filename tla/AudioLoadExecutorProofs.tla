---------------------- MODULE AudioLoadExecutorProofs ----------------------
(***************************************************************************)
(* Machine-checked proofs about module AudioLoadExecutor, for every number *)
(* of loads, scheduling threads, workers and queue places, and for every   *)
(* bound on the cancellation checks of one admission.                      *)
(***************************************************************************)
EXTENDS AudioLoadExecutor, FiniteSetTheorems, FunctionTheorems, TLAPS

(* Job numbers start above NoJob.                                          *)
LEMMA JobIsNumber == Job \subseteq Nat /\ NoJob \notin Job /\ IsFiniteSet(Job)
<1>1. IsFiniteSet(1 .. MaxJobs)
  BY FS_Interval, ExecutorAssumption
<1> QED
  BY <1>1, ExecutorAssumption DEF Job, NoJob

(* The three sets that inFlight_ counts are finite in every state.         *)
LEMMA CountedAreFinite ==
  /\ IsFiniteSet(Queued) /\ Cardinality(Queued) \in Nat
  /\ IsFiniteSet(Holding) /\ Cardinality(Holding) \in Nat
  /\ IsFiniteSet(Busy) /\ Cardinality(Busy) \in Nat
<1>1. IsFiniteSet(Thread)
  BY FS_Union, ExecutorAssumption DEF Thread
<1>2. IsFiniteSet(Queued) /\ IsFiniteSet(Holding) /\ IsFiniteSet(Busy)
  <2>1. Queued \in SUBSET Job /\ Holding \in SUBSET Thread /\ Busy \in SUBSET Worker
    BY DEF Queued, Holding, Busy
  <2> QED
    BY <1>1, <2>1, JobIsNumber, ExecutorAssumption, FS_Subset
<1> QED
  BY <1>2, FS_CardinalityType

(* The admission limit is a number.                                        *)
LEMMA LimitIsNumber == Limit \in Nat
  BY ExecutorAssumption, FS_CardinalityType DEF Limit

(* The queue after an admission loses the pruned jobs and no others, so    *)
(* subtracting their number from inFlight_ keeps it exact.                 *)
LEMMA PruningCounts ==
  /\ Stale \subseteq Queued
  /\ Cardinality(Stale) \in Nat
  /\ Cardinality(Queued \ Stale) \in Nat
  /\ Cardinality(Queued \ Stale) = Cardinality(Queued) - Cardinality(Stale)
<1>1. Stale \in SUBSET Queued
  BY DEF Stale, FirstOf
<1>2. IsFiniteSet(Stale) /\ Queued \cap Stale = Stale
  BY <1>1, CountedAreFinite, FS_Subset
<1>3. /\ IsFiniteSet(Queued \ Stale)
      /\ Cardinality(Queued \ Stale) = Cardinality(Queued) - Cardinality(Queued \cap Stale)
  BY CountedAreFinite, FS_Difference
<1> QED
  BY <1>1, <1>2, <1>3, FS_CardinalityType

-----------------------------------------------------------------------------
\* A token belongs to one thread and to a job that is still reserved.
Tokens ==
  /\ \A t \in Thread : holds[t] # NoJob => phase[holds[t]] = "reserved"
  /\ \A t, u \in Thread : holds[t] # NoJob /\ holds[t] = holds[u] => t = u

Unsettled == {"check", "run"}

\* A worker that has a job is busy with it; until the job is settled it is
\* "taken" and in no other worker's hands.
Hands ==
  /\ \A w \in Worker :
       worker[w].job = NoJob <=> worker[w].at \in {"waiting", "asleep", "exited"}
  /\ \A w \in Worker : worker[w].at \in Unsettled => phase[worker[w].job] = "taken"
  /\ \A v, w \in Worker :
       /\ worker[v].at \in Unsettled /\ worker[w].at \in Unsettled
       /\ worker[v].job = worker[w].job
       => v = w

Room == inFlight <= Limit

\* The inductive invariant.
IInv == /\ TypeOK /\ Accounting /\ Tokens /\ Hands
        /\ Room /\ CommitIsAccepted /\ ToldOnce

(* Executors start with every count at zero and every worker idle.         *)
LEMMA InitIInv == Init => IInv
<1> SUFFICES ASSUME Init PROVE IInv
  OBVIOUS
<1>1. TypeOK
  BY JobIsNumber DEF Init, TypeOK, Phase, Place, NoJob
<1>2. Queued = {} /\ Holding = {} /\ Busy = {}
  BY DEF Init, Queued, Holding, Busy
<1>3. Accounting /\ Room
  BY <1>2, FS_EmptySet, LimitIsNumber DEF Init, Accounting, Room
<1>4. Tokens /\ Hands /\ CommitIsAccepted /\ ToldOnce
  BY <1>2, JobIsNumber DEF Init, Tokens, Hands, CommitIsAccepted, ToldOnce, Unsettled
<1> QED
  BY <1>1, <1>3, <1>4 DEF IInv

(* tryReserve keeps the invariant: the slot it takes is one below the      *)
(* limit, and the pruned jobs leave the queue and the count together.      *)
LEMMA ReserveKeeps ==
  ASSUME IInv, NEW t \in Thread, NEW j \in Job, Reserve(t, j)
  PROVE  IInv'
<1> USE DEF IInv
<1>1. /\ holds[t] = NoJob /\ phase[j] = "new" /\ ~Stopping
      /\ j \notin Queued /\ t \notin Holding
  BY DEF Reserve, Schedules, Asks, Queued, Holding
<1>2. TypeOK'
  <2>1. phase' \in [Job -> Phase]
    BY DEF Reserve, TypeOK, PrunedWith, Phase, Final
  <2>2. inFlight' \in Nat
    BY CountedAreFinite, PruningCounts DEF Reserve, TypeOK, Accounting
  <2>3. notices' \subseteq Job
    BY DEF Reserve, Prune, TypeOK, Stale, FirstOf, Queued
  <2>4. waking' \subseteq Thread
    BY DEF Reserve, Prune, TypeOK
  <2> QED
    BY <2>1, <2>2, <2>3, <2>4 DEF Reserve, TypeOK
<1>3. Accounting' /\ Room'
  <2>1. Queued' = Queued \ Stale
    BY <1>1, PruningCounts DEF Reserve, Queued, PrunedWith
  <2>2. Holding' = Holding \cup {t}
    BY JobIsNumber DEF Reserve, TypeOK, Holding
  <2>3. Busy' = Busy
    BY DEF Reserve, Busy
  <2>4. Cardinality(Holding') = Cardinality(Holding) + 1
    BY <1>1, <2>2, CountedAreFinite, FS_AddElement
  <2> QED
    BY <2>1, <2>3, <2>4, CountedAreFinite, PruningCounts, LimitIsNumber
    DEF Reserve, Accounting, Room, TypeOK
<1>4. Tokens'
  <2>1. \A u \in Thread : holds[u] # NoJob => holds[u] # j /\ phase'[holds[u]] = "reserved"
    BY <1>1, PruningCounts DEF Tokens, TypeOK, Reserve, PrunedWith, Queued
  <2> QED
    BY <1>1, <2>1, JobIsNumber DEF Tokens, TypeOK, Reserve, PrunedWith
<1>5. Hands'
  <2>1. \A w \in Worker : worker[w].at \in Unsettled => phase'[worker[w].job] = "taken"
    <3> SUFFICES ASSUME NEW w \in Worker, worker[w].at \in Unsettled
                 PROVE  phase'[worker[w].job] = "taken"
      OBVIOUS
    <3>1. worker[w].job \in Job /\ phase[worker[w].job] = "taken"
      BY DEF Hands, TypeOK, Unsettled
    <3> QED
      BY <1>1, <3>1, PruningCounts DEF Reserve, PrunedWith, Queued
  <2> QED
    BY <2>1 DEF Hands, Reserve
<1>6. CommitIsAccepted'
  BY <1>1 DEF CommitIsAccepted, Reserve, ShutDown, Stopping
<1>7. ToldOnce'
  BY <1>1, PruningCounts
  DEF ToldOnce, Reserve, Prune, PrunedWith, Queued, TypeOK, FirstOf
<1> QED
  BY <1>2, <1>3, <1>4, <1>5, <1>6, <1>7

(* A refused admission keeps the invariant although it prunes the queue.   *)
LEMMA ReserveFullKeeps ==
  ASSUME IInv, NEW t \in Thread, NEW j \in Job, ReserveFull(t, j)
  PROVE  IInv'
<1> USE DEF IInv
<1>1. phase[j] = "new" /\ j \notin Queued
  BY DEF ReserveFull, Asks, Queued
<1>2. TypeOK'
  <2>1. phase' \in [Job -> Phase]
    BY DEF ReserveFull, TypeOK, PrunedWith, Phase, Final
  <2>2. inFlight' \in Nat
    BY CountedAreFinite, PruningCounts DEF ReserveFull, TypeOK, Accounting
  <2>3. notices' \subseteq Job /\ waking' \subseteq Thread
    BY DEF ReserveFull, Prune, TypeOK, Stale, FirstOf, Queued
  <2> QED
    BY <2>1, <2>2, <2>3 DEF ReserveFull, TypeOK
<1>3. Accounting' /\ Room'
  <2>1. Queued' = Queued \ Stale
    BY <1>1, PruningCounts DEF ReserveFull, Queued, PrunedWith
  <2>2. Holding' = Holding /\ Busy' = Busy
    BY DEF ReserveFull, Holding, Busy
  <2> QED
    BY <2>1, <2>2, CountedAreFinite, PruningCounts, LimitIsNumber
    DEF ReserveFull, Accounting, Room, TypeOK
<1>4. Tokens'
  BY <1>1, PruningCounts DEF Tokens, TypeOK, ReserveFull, PrunedWith, Queued
<1>5. Hands'
  <2>1. \A w \in Worker : worker[w].at \in Unsettled => phase'[worker[w].job] = "taken"
    <3> SUFFICES ASSUME NEW w \in Worker, worker[w].at \in Unsettled
                 PROVE  phase'[worker[w].job] = "taken"
      OBVIOUS
    <3>1. worker[w].job \in Job /\ phase[worker[w].job] = "taken"
      BY DEF Hands, TypeOK, Unsettled
    <3> QED
      BY <1>1, <3>1, PruningCounts DEF ReserveFull, PrunedWith, Queued
  <2> QED
    BY <2>1 DEF Hands, ReserveFull
<1>6. CommitIsAccepted'
  BY DEF CommitIsAccepted, ReserveFull, ShutDown, Holding
<1>7. ToldOnce'
  BY <1>1, PruningCounts
  DEF ToldOnce, ReserveFull, Prune, PrunedWith, Queued, TypeOK, FirstOf
<1> QED
  BY <1>2, <1>3, <1>4, <1>5, <1>6, <1>7

(* An admission after shutdown began takes nothing.                        *)
LEMMA ReserveStoppingKeeps ==
  ASSUME IInv, NEW t \in Thread, NEW j \in Job, ReserveStopping(t, j)
  PROVE  IInv'
<1> USE DEF IInv
<1>1. phase[j] = "new"
  BY DEF ReserveStopping, Asks
<1>2. Queued' = Queued /\ Holding' = Holding /\ Busy' = Busy
  BY <1>1 DEF ReserveStopping, Queued, Holding, Busy, TypeOK, countVars, threadVars
<1>3. TypeOK' /\ Tokens' /\ Hands' /\ ToldOnce'
  BY <1>1 DEF ReserveStopping, TypeOK, Tokens, Hands, ToldOnce, Unsettled, Phase, Final,
              countVars, threadVars
<1>4. Accounting' /\ Room' /\ CommitIsAccepted'
  BY <1>2 DEF ReserveStopping, Accounting, Room, CommitIsAccepted, ShutDown, countVars
<1> QED
  BY <1>3, <1>4

(* submit: while a token is out, shutdown has not discarded the queue, so  *)
(* the job is queued and its slot moves from the token to the queue.       *)
LEMMA SubmitKeeps ==
  ASSUME IInv, NEW t \in Thread, Submit(t)
  PROVE  IInv'
<1> USE DEF IInv
<1> DEFINE j == holds[t]
<1>1. /\ j \in Job /\ j # NoJob /\ phase[j] = "reserved" /\ j \notin Queued
      /\ t \in Holding /\ ~ShutDown
  BY DEF Submit, TypeOK, Tokens, Queued, Holding, CommitIsAccepted
<1>2. /\ phase' = [phase EXCEPT ![j] = "queued"]
      /\ accepted' = accepted + 1
      /\ arrival' = [arrival EXCEPT ![j] = accepted + 1]
      /\ waking' = waking \cup {t}
      /\ reservations' = reservations - 1
      /\ holds' = [holds EXCEPT ![t] = NoJob]
      /\ UNCHANGED <<inFlight, notices, told, cancelled, worker, closer>>
  BY <1>1 DEF Submit
<1> HIDE DEF j
<1>3. Queued' = Queued \cup {j}
  BY <1>1, <1>2 DEF Queued, TypeOK
<1>4. Holding' = Holding \ {t}
  BY <1>2 DEF Holding, TypeOK
<1>5. Busy' = Busy
  BY <1>2 DEF Busy
<1>6. /\ Cardinality(Queued') = Cardinality(Queued) + 1
      /\ Cardinality(Holding') = Cardinality(Holding) - 1
      /\ Cardinality(Holding') \in Nat
  <2>1. IsFiniteSet(Holding')
    BY <1>4, CountedAreFinite, FS_RemoveElement
  <2> QED
    BY <1>1, <1>3, <1>4, <2>1, CountedAreFinite, FS_AddElement, FS_RemoveElement, FS_CardinalityType
<1>7. TypeOK'
  <2>1. reservations' \in Nat
    BY <1>2, <1>6 DEF Accounting
  <2> QED
    BY <1>1, <1>2, <2>1 DEF TypeOK, Phase
<1>8. Accounting' /\ Room'
  BY <1>2, <1>5, <1>6, CountedAreFinite DEF Accounting, Room
<1>9. Tokens'
  <2>1. \A u \in Thread : u # t /\ holds[u] # NoJob => holds[u] # j
    BY <1>1 DEF Tokens, j
  <2> QED
    BY <1>2, <2>1 DEF Tokens, TypeOK
<1>10. Hands'
  BY <1>1, <1>2 DEF Hands, TypeOK, Unsettled
<1>11. CommitIsAccepted' /\ ToldOnce'
  BY <1>1, <1>2 DEF CommitIsAccepted, ShutDown, ToldOnce, TypeOK
<1> QED
  BY <1>7, <1>8, <1>9, <1>10, <1>11

(* releaseReservation: the slot comes back, and never below zero.          *)
LEMMA DropReservationKeeps ==
  ASSUME IInv, NEW t \in Thread, DropReservation(t)
  PROVE  IInv'
<1> USE DEF IInv
<1> DEFINE j == holds[t]
<1>1. /\ j \in Job /\ j # NoJob /\ phase[j] = "reserved" /\ t \in Holding
  BY DEF DropReservation, TypeOK, Tokens, Holding
<1>2. /\ phase' = [phase EXCEPT ![j] = "rejected"]
      /\ holds' = [holds EXCEPT ![t] = NoJob]
      /\ UNCHANGED <<arrival, accepted, notices, told, waking, cancelled, worker, closer>>
  BY DEF DropReservation
<1>3. Holding' = Holding \ {t}
  BY <1>2 DEF Holding, TypeOK
<1>4. Cardinality(Holding') = Cardinality(Holding) - 1 /\ Cardinality(Holding') \in Nat
  BY <1>1, <1>3, CountedAreFinite, FS_RemoveElement, FS_CardinalityType
<1>5. reservations' = reservations - 1 /\ inFlight' = inFlight - 1
  BY <1>4, CountedAreFinite DEF DropReservation, Accounting
<1> HIDE DEF j
<1>6. Queued' = Queued /\ Busy' = Busy
  BY <1>1, <1>2 DEF Queued, Busy, TypeOK
<1>7. TypeOK'
  <2>1. reservations' \in Nat /\ inFlight' \in Nat
    BY <1>4, <1>5, CountedAreFinite DEF Accounting
  <2> QED
    BY <1>2, <2>1 DEF TypeOK, Phase, Final
<1>8. Accounting' /\ Room'
  BY <1>4, <1>5, <1>6, CountedAreFinite, LimitIsNumber DEF Accounting, Room
<1>9. Tokens'
  <2>1. \A u \in Thread : u # t /\ holds[u] # NoJob => holds[u] # j
    BY <1>1 DEF Tokens, j
  <2> QED
    BY <1>2, <2>1 DEF Tokens, TypeOK
<1>10. Hands'
  BY <1>1, <1>2 DEF Hands, TypeOK, Unsettled
<1>11. CommitIsAccepted' /\ ToldOnce'
  BY <1>1, <1>2, <1>3 DEF CommitIsAccepted, ShutDown, ToldOnce, TypeOK
<1> QED
  BY <1>7, <1>8, <1>9, <1>10, <1>11

(* Steps that only move a worker between places where it has the same job  *)
(* (waking up, going to sleep, exiting, between run and settle), or that   *)
(* only concern wake-ups, cancellations or the progress of shutdown.       *)
LEMMA QuietStepKeeps ==
  ASSUME IInv,
         UNCHANGED <<phase, arrival, accepted, notices, told, countVars, holds>>,
         waking' \subseteq Thread,
         cancelled' \subseteq Job,
         closer' \in {"open", "stopping", "closing", "joining", "closed"},
         ShutDown' => ShutDown,
         worker' \in [Worker -> [at : Place, job : Job \cup {NoJob}]],
         \A w \in Worker : worker'[w].job = worker[w].job,
         \A w \in Worker :
           worker'[w].at \in {"waiting", "asleep", "exited"}
             <=> worker[w].at \in {"waiting", "asleep", "exited"},
         \A w \in Worker : worker'[w].at \in Unsettled => worker[w].at \in Unsettled
  PROVE  IInv'
<1> USE DEF IInv
<1>1. Queued' = Queued /\ Holding' = Holding /\ Busy' = Busy
  BY DEF Queued, Holding, Busy
<1>2. TypeOK' /\ Tokens' /\ ToldOnce'
  BY DEF TypeOK, Tokens, ToldOnce, countVars
<1>3. Accounting' /\ Room' /\ CommitIsAccepted'
  BY <1>1 DEF Accounting, Room, CommitIsAccepted, countVars
<1>4. Hands'
  BY DEF Hands
<1> QED
  BY <1>2, <1>3, <1>4

(* A worker that tells a cancellation keeps the invariant: the job was not *)
(* told before.                                                            *)
LEMMA TakeNoticeKeeps ==
  ASSUME IInv, NEW w \in Worker, TakeNotice(w)
  PROVE  IInv'
<1> USE DEF IInv
<1>1. Queued' = Queued /\ Holding' = Holding /\ Busy' = Busy
  BY DEF TakeNotice, Queued, Holding, Busy, threadVars
<1>2. PICK j \in notices : /\ notices' = notices \ {j}
                           /\ told' = [told EXCEPT ![j] = @ + 1]
  BY DEF TakeNotice
<1>3. TypeOK' /\ Tokens' /\ Hands'
  BY <1>2 DEF TakeNotice, TypeOK, Tokens, Hands, countVars, threadVars
<1>4. Accounting' /\ Room' /\ CommitIsAccepted'
  BY <1>1 DEF TakeNotice, Accounting, Room, CommitIsAccepted, ShutDown, countVars
<1>5. ToldOnce'
  <2>1. j \in Job /\ told[j] = 0 /\ phase[j] = "cancelled"
    BY DEF TypeOK, ToldOnce
  <2>2. told'[j] = 1 /\ \A k \in Job \ {j} : told'[k] = told[k]
    BY <1>2, <2>1 DEF TypeOK
  <2> QED
    BY <1>2, <2>1, <2>2 DEF ToldOnce, TakeNotice
<1> QED
  BY <1>3, <1>4, <1>5

(* A job taken from the queue stays in the count, in a worker's hands.     *)
LEMMA TakeJobKeeps ==
  ASSUME IInv, NEW w \in Worker, TakeJob(w)
  PROVE  IInv'
<1> USE DEF IInv
<1>1. PICK j \in Queued : /\ phase' = [phase EXCEPT ![j] = "taken"]
                          /\ worker' = [worker EXCEPT ![w] = [at |-> "check", job |-> j]]
  BY DEF TakeJob, FirstOf
<1>2. j \in Job /\ j # NoJob /\ phase[j] = "queued" /\ worker[w].job = NoJob /\ w \notin Busy
  BY JobIsNumber DEF Queued, TakeJob, At, Hands, Busy
<1>3. Queued' = Queued \ {j} /\ Busy' = Busy \cup {w} /\ Holding' = Holding
  BY <1>1, <1>2 DEF Queued, Busy, Holding, TakeJob, TypeOK, threadVars
<1>4. /\ Cardinality(Queued') = Cardinality(Queued) - 1
      /\ Cardinality(Busy') = Cardinality(Busy) + 1
  BY <1>1, <1>2, <1>3, CountedAreFinite, FS_AddElement, FS_RemoveElement
<1>5. TypeOK' /\ Tokens' /\ ToldOnce'
  BY <1>1, <1>2
  DEF TakeJob, TypeOK, Tokens, ToldOnce, Phase, Place, countVars, threadVars
<1>6. Accounting' /\ Room' /\ CommitIsAccepted'
  BY <1>3, <1>4, CountedAreFinite
  DEF TakeJob, Accounting, Room, CommitIsAccepted, ShutDown, countVars
<1>7. Hands'
  <2>1. \A v \in Worker : worker[v].at \in Unsettled => worker[v].job # j
    BY <1>2 DEF Hands
  <2>2. \A v \in Worker : v # w => worker'[v] = worker[v]
    BY <1>1 DEF TypeOK
  <2>3. worker'[w] = [at |-> "check", job |-> j]
    BY <1>1 DEF TypeOK
  <2>4. phase'[j] = "taken" /\ \A k \in Job \ {j} : phase'[k] = phase[k]
    BY <1>1, <1>2 DEF TypeOK
  <2>5. \A v \in Worker : worker[v].job \in Job \cup {NoJob}
    BY DEF TypeOK
  <2>6. \A v \in Worker :
          worker'[v].job = NoJob <=> worker'[v].at \in {"waiting", "asleep", "exited"}
    BY <1>2, <2>2, <2>3 DEF Hands
  <2>7. \A v \in Worker : worker'[v].at \in Unsettled => phase'[worker'[v].job] = "taken"
    <3> SUFFICES ASSUME NEW v \in Worker, v # w, worker[v].at \in Unsettled
                 PROVE  phase'[worker[v].job] = "taken"
      BY <2>2, <2>3, <2>4
    <3>1. worker[v].job \in Job \ {j} /\ phase[worker[v].job] = "taken"
      BY <2>1, <2>5 DEF Hands, Unsettled
    <3> QED
      BY <2>4, <3>1
  <2>8. \A u, v \in Worker :
          worker'[u].at \in Unsettled /\ worker'[v].at \in Unsettled
            /\ worker'[u].job = worker'[v].job => u = v
    BY <2>1, <2>2, <2>3 DEF Hands
  <2> QED
    BY <2>6, <2>7, <2>8 DEF Hands
<1> QED
  BY <1>5, <1>6, <1>7

(* A worker that runs a job, or skips it, turns it from taken to settled.  *)
LEMMA EndOfJobKeeps ==
  ASSUME IInv, NEW w \in Worker, Skip(w) \/ RunEnds(w)
  PROVE  IInv'
<1> USE DEF IInv
<1> DEFINE j == worker[w].job
<1>1. j \in Job /\ phase[j] = "taken" /\ worker[w].at \in Unsettled
  BY DEF Skip, RunEnds, At, Hands, TypeOK, Unsettled
<1>2. PICK p \in {"ran", "cancelled"}, a \in {"settle", "failed"} :
        /\ phase' = [phase EXCEPT ![j] = p]
        /\ worker' = [worker EXCEPT ![w].at = a]
        /\ p = "ran" => told' = told
        /\ p = "cancelled" => told' = [told EXCEPT ![j] = @ + 1]
  BY DEF Skip, RunEnds, Move
<1>3. UNCHANGED <<arrival, accepted, notices, countVars, threadVars, cancelled, closer>>
  BY DEF Skip, RunEnds
<1> HIDE DEF j
<1>4. /\ \A v \in Worker : worker'[v].job = worker[v].job
      /\ \A v \in Worker : v # w => worker'[v] = worker[v]
      /\ worker'[w].at = a
      /\ worker' \in [Worker -> [at : Place, job : Job \cup {NoJob}]]
  BY <1>2 DEF TypeOK, Place
<1>5. Queued' = Queued /\ Busy' = Busy /\ Holding' = Holding
  BY <1>1, <1>2, <1>3, <1>4 DEF Queued, Busy, Holding, TypeOK, threadVars
<1>6. TypeOK' /\ Tokens'
  BY <1>1, <1>2, <1>3, <1>4 DEF TypeOK, Tokens, Phase, Final, countVars, threadVars
<1>7. Accounting' /\ Room' /\ CommitIsAccepted'
  BY <1>3, <1>5 DEF Accounting, Room, CommitIsAccepted, ShutDown, countVars
<1>8. Hands'
  <2>1. \A v \in Worker : worker'[v].at \in Unsettled => v # w /\ worker[v].at \in Unsettled
    BY <1>4 DEF Unsettled
  <2>2. \A v \in Worker : worker'[v].at \in Unsettled => worker[v].job # j
    BY <1>1, <2>1 DEF Hands, j
  <2>3. \A v \in Worker : worker'[v].at \in Unsettled => phase'[worker'[v].job] = "taken"
    BY <1>2, <1>4, <2>1, <2>2 DEF Hands, TypeOK
  <2>4. \A v \in Worker :
          worker'[v].job = NoJob <=> worker'[v].at \in {"waiting", "asleep", "exited"}
    BY <1>1, <1>4 DEF Hands, Unsettled
  <2> QED
    BY <1>4, <2>1, <2>3, <2>4 DEF Hands
<1>9. ToldOnce'
  <2>1. told[j] = 0 /\ j \notin notices
    BY <1>1 DEF ToldOnce, TypeOK
  <2>2. \A k \in Job \ {j} : told'[k] = told[k] /\ phase'[k] = phase[k]
    BY <1>1, <1>2 DEF TypeOK
  <2>3. phase'[j] = p /\ told'[j] \in {0, 1} /\ (told'[j] = 1 => p = "cancelled")
    BY <1>1, <1>2, <2>1 DEF TypeOK
  <2> QED
    BY <1>3, <2>1, <2>2, <2>3 DEF ToldOnce
<1> QED
  BY <1>6, <1>7, <1>8, <1>9

(* The worker gives back the slot of its job; the underflow guard of       *)
(* workerLoop does not apply.                                              *)
LEMMA SettleKeeps ==
  ASSUME IInv, NEW w \in Worker, Settle(w)
  PROVE  IInv'
<1> USE DEF IInv
<1>1. w \in Busy
  BY DEF Settle, At, Hands, Busy
<1>2. Busy' = Busy \ {w} /\ Queued' = Queued /\ Holding' = Holding
  BY DEF Settle, Busy, Queued, Holding, TypeOK, queueVars, threadVars
<1>3. Cardinality(Busy') = Cardinality(Busy) - 1 /\ Cardinality(Busy') \in Nat
  BY <1>1, <1>2, CountedAreFinite, FS_RemoveElement, FS_CardinalityType
<1>4. inFlight' = inFlight - 1 /\ inFlight' \in Nat
  BY <1>3, CountedAreFinite DEF Settle, Accounting
<1>5. TypeOK' /\ Tokens' /\ ToldOnce'
  BY <1>4 DEF Settle, TypeOK, Tokens, ToldOnce, Place, queueVars, threadVars
<1>6. Accounting' /\ Room' /\ CommitIsAccepted'
  BY <1>2, <1>3, <1>4, CountedAreFinite, LimitIsNumber
  DEF Settle, Accounting, Room, CommitIsAccepted, ShutDown
<1>7. Hands'
  <2>1. /\ worker'[w] = [at |-> "waiting", job |-> NoJob]
        /\ \A v \in Worker : v # w => worker'[v] = worker[v]
    BY DEF Settle, TypeOK
  <2>2. \A v \in Worker : worker'[v].at \in Unsettled => v # w
    BY <2>1 DEF Unsettled
  <2> QED
    BY <2>1, <2>2 DEF Hands, Settle, queueVars
<1> QED
  BY <1>5, <1>6, <1>7

(* shutdown() discards the queue: its wait for reservations_ = 0 means no  *)
(* thread holds a token from here on.                                      *)
LEMMA CloseKeeps ==
  ASSUME IInv, Close
  PROVE  IInv'
<1> USE DEF IInv
<1>1. Holding = {}
  BY CountedAreFinite, FS_EmptySet DEF Close, Accounting
<1>2. Queued' = {} /\ Busy' = Busy /\ Holding' = {}
  BY <1>1 DEF Close, Queued, Busy, Holding, TypeOK, threadVars
<1>3. inFlight' = Cardinality(Busy) /\ inFlight' \in Nat /\ inFlight' <= inFlight
  BY <1>1, CountedAreFinite, FS_EmptySet DEF Close, Accounting
<1>4. TypeOK'
  BY <1>3 DEF Close, TypeOK, Phase, Final, threadVars
<1>5. Accounting' /\ Room' /\ CommitIsAccepted'
  <2>1. /\ Cardinality(Queued') = 0 /\ Cardinality(Holding') = 0
        /\ Cardinality(Busy') = Cardinality(Busy)
    BY <1>2, FS_EmptySet
  <2>2. reservations' = 0
    BY DEF Close
  <2>3. inFlight' <= Limit
    BY <1>3, LimitIsNumber DEF Room, TypeOK
  <2> QED
    BY <1>2, <1>3, <2>1, <2>2, <2>3, CountedAreFinite DEF Accounting, Room, CommitIsAccepted, Limit
<1>6. Tokens'
  BY <1>1 DEF Close, Tokens, Holding, threadVars
<1>7. Hands'
  <2>1. \A w \in Worker : worker[w].at \in Unsettled => phase'[worker[w].job] = "taken"
    BY DEF Close, Hands, TypeOK, Queued, Unsettled
  <2> QED
    BY <2>1 DEF Close, Hands
<1>8. ToldOnce'
  BY DEF Close, ToldOnce, Queued, TypeOK
<1> QED
  BY <1>4, <1>5, <1>6, <1>7, <1>8

(* A notification moves sleeping workers to the head of their loop.        *)
LEMMA WakingMoves ==
  ASSUME TypeOK, NEW S \in SUBSET Worker
  PROVE  /\ Awake(S) \in [Worker -> [at : Place, job : Job \cup {NoJob}]]
         /\ \A w \in Worker : Awake(S)[w].job = worker[w].job
         /\ \A w \in Worker : \/ Awake(S)[w].at = worker[w].at
                              \/ worker[w].at = "asleep" /\ Awake(S)[w].at = "waiting"
<1> DEFINE Record == [at : Place, job : Job \cup {NoJob}]
<1>1. ASSUME NEW w \in Worker
      PROVE  /\ worker[w] \in Record
             /\ [worker[w] EXCEPT !.at = "waiting"] \in Record
             /\ [worker[w] EXCEPT !.at = "waiting"].job = worker[w].job
             /\ [worker[w] EXCEPT !.at = "waiting"].at = "waiting"
  BY DEF TypeOK, Place
<1> HIDE DEF Record
<1>2. ASSUME NEW w \in Worker
      PROVE  /\ Awake(S)[w] \in Record
             /\ Awake(S)[w].job = worker[w].job
             /\ \/ Awake(S)[w].at = worker[w].at
                \/ worker[w].at = "asleep" /\ Awake(S)[w].at = "waiting"
  BY <1>1 DEF Awake
<1>3. Awake(S) \in [Worker -> Record]
  BY <1>2 DEF Awake
<1> QED
  BY <1>2, <1>3 DEF Record

(* Every step keeps the invariant, one case per action.                    *)
LEMMA StepKeepsIInv == IInv /\ [Next]_vars => IInv'
<1> SUFFICES ASSUME IInv, [Next]_vars PROVE IInv'
  OBVIOUS
<1> USE DEF IInv
<1>1. ASSUME NEW t \in Thread, NEW j \in Job,
             Reserve(t, j) \/ ReserveFull(t, j) \/ ReserveStopping(t, j)
      PROVE  IInv'
  BY <1>1, ReserveKeeps, ReserveFullKeeps, ReserveStoppingKeeps
<1>2. ASSUME NEW t \in Thread, TokenStep(t)
      PROVE  IInv'
  BY <1>2, SubmitKeeps, DropReservationKeeps DEF TokenStep
<1>3. ASSUME NEW t \in Thread, NotifyOne(t)
      PROVE  IInv'
  <2>1. worker' = worker \/ \E S \in SUBSET Worker : worker' = Awake(S)
    BY <1>3 DEF NotifyOne
  <2>2. /\ worker' \in [Worker -> [at : Place, job : Job \cup {NoJob}]]
        /\ \A w \in Worker : worker'[w].job = worker[w].job
        /\ \A w \in Worker : \/ worker'[w].at = worker[w].at
                             \/ worker[w].at = "asleep" /\ worker'[w].at = "waiting"
    BY <2>1, WakingMoves DEF TypeOK
  <2> QED
    BY <1>3, <2>2, QuietStepKeeps DEF NotifyOne, TypeOK, ShutDown, Unsettled, queueVars
<1>4. ASSUME NEW w \in Worker, Sleep(w) \/ Exit(w) \/ Check(w) \/ Recovered(w)
      PROVE  IInv'
  <2>1. PICK a \in Place :
          /\ worker' = [worker EXCEPT ![w].at = a]
          /\ \/ a \in {"asleep", "exited"} /\ worker[w].at = "waiting"
             \/ a = "run" /\ worker[w].at = "check"
             \/ a = "settle" /\ worker[w].at = "failed"
    BY <1>4 DEF Sleep, Exit, Check, Recovered, Move, At, Place
  <2>2. /\ worker' \in [Worker -> [at : Place, job : Job \cup {NoJob}]]
        /\ worker'[w].at = a
        /\ \A v \in Worker : /\ worker'[v].job = worker[v].job
                            /\ v # w => worker'[v] = worker[v]
    BY <2>1 DEF TypeOK
  <2>3. UNCHANGED <<queueVars, countVars, threadVars, cancelled, closer>>
    BY <1>4 DEF Sleep, Exit, Check, Recovered
  <2> QED
    BY <2>1, <2>2, <2>3, QuietStepKeeps DEF TypeOK, ShutDown, Unsettled, queueVars, threadVars
<1>5. ASSUME NEW w \in Worker,
             TakeNotice(w) \/ TakeJob(w) \/ Skip(w) \/ RunEnds(w) \/ Settle(w)
      PROVE  IInv'
  BY <1>5, TakeNoticeKeeps, TakeJobKeeps, EndOfJobKeeps, SettleKeeps
<1>6. ASSUME NEW j \in Job, CancelSession(j)
      PROVE  IInv'
  BY <1>6, QuietStepKeeps
  DEF CancelSession, TypeOK, ShutDown, Unsettled, queueVars, threadVars
<1>7. CASE RequestStop
  BY <1>7, QuietStepKeeps
  DEF RequestStop, TypeOK, ShutDown, Unsettled, queueVars, threadVars
<1>8. CASE Close
  BY <1>8, CloseKeeps
<1>9. CASE NotifyAll \/ Join
  <2>1. worker' = worker \/ worker' = Awake(Worker)
    BY <1>9 DEF NotifyAll, Join
  <2>2. /\ worker' \in [Worker -> [at : Place, job : Job \cup {NoJob}]]
        /\ \A w \in Worker : worker'[w].job = worker[w].job
        /\ \A w \in Worker : \/ worker'[w].at = worker[w].at
                             \/ worker[w].at = "asleep" /\ worker'[w].at = "waiting"
    BY <2>1, WakingMoves DEF TypeOK
  <2> QED
    BY <1>9, <2>2, QuietStepKeeps
    DEF NotifyAll, Join, TypeOK, ShutDown, Unsettled, queueVars, threadVars
<1>10. CASE UNCHANGED vars
  BY <1>10, QuietStepKeeps
  DEF vars, TypeOK, ShutDown, Unsettled, queueVars, threadVars
<1> QED
  BY <1>1, <1>2, <1>3, <1>4, <1>5, <1>6, <1>7, <1>8, <1>9, <1>10
  DEF Next, WorkerStep, CloserStep

-----------------------------------------------------------------------------
(* The inductive invariant holds in every reachable state.                 *)
THEOREM Invariance == Spec => []IInv
  BY InitIInv, StepKeepsIInv, PTL DEF Spec

(* reservations_ and inFlight_ equal the tokens and jobs they stand for,   *)
(* whatever is refused, pruned, dropped, failed or discarded, and never    *)
(* underflow; a token taken by tryReserve is never refused by submit,      *)
(* since shutdown() waits for it; and no job is told of its cancellation   *)
(* twice, or although it ran.                                              *)
THEOREM ExecutorStaysConsistent == Spec => []ExecutorConsistent
  BY Invariance, PTL DEF IInv, ExecutorConsistent

(* Reserved, queued and running loads stay within workers plus capacity.   *)
THEOREM BoundHolds == Spec => []Bounded
<1>1. IInv => Bounded
  BY CountedAreFinite, LimitIsNumber DEF IInv, Accounting, Room, Bounded
<1> QED
  BY <1>1, Invariance, PTL

(* A job leaves its final state by no step: it is not run, skipped or      *)
(* discarded a second time.                                                *)
LEMMA FinalIsKept ==
  ASSUME IInv, Next
  PROVE  \A j \in Job : phase[j] \in Final => phase'[j] = phase[j]
<1> SUFFICES ASSUME NEW j \in Job, phase[j] \in Final, phase'[j] # phase[j]
             PROVE  FALSE
  OBVIOUS
<1> USE DEF IInv
<1>1. phase[j] \notin {"new", "reserved", "queued", "taken"} /\ j \notin Queued
  BY DEF Final, Queued
<1>2. ASSUME NEW t \in Thread, NEW k \in Job,
             Reserve(t, k) \/ ReserveFull(t, k) \/ ReserveStopping(t, k)
      PROVE  FALSE
  <2>1. phase[k] = "new" /\ k # j
    BY <1>1, <1>2 DEF Reserve, ReserveFull, ReserveStopping, Asks
  <2>2. \/ \E p \in Phase : phase' = PrunedWith(k, p)
        \/ phase' = [phase EXCEPT ![k] = "rejected"]
    BY <1>2 DEF Reserve, ReserveFull, ReserveStopping, Phase, Final
  <2>3. j \notin Stale
    BY <1>1, PruningCounts
  <2> QED
    BY <2>1, <2>2, <2>3 DEF PrunedWith, TypeOK
<1>3. ASSUME NEW t \in Thread, TokenStep(t) \/ NotifyOne(t)
      PROVE  FALSE
  <2>1. CASE TokenStep(t)
    <3>1. holds[t] # j
      BY <1>1, <2>1 DEF TokenStep, Submit, DropReservation, Tokens
    <3>2. phase' = phase \/ \E p \in Phase : phase' = [phase EXCEPT ![holds[t]] = p]
      BY <2>1 DEF TokenStep, Submit, DropReservation, Phase, Final
    <3> QED
      BY <3>1, <3>2 DEF TypeOK
  <2>2. CASE NotifyOne(t)
    BY <2>2 DEF NotifyOne, queueVars
  <2> QED
    BY <1>3, <2>1, <2>2
<1>4. ASSUME NEW w \in Worker, WorkerStep(w)
      PROVE  FALSE
  <2>1. CASE TakeJob(w)
    <3>1. PICK k \in Queued : phase' = [phase EXCEPT ![k] = "taken"]
      BY <2>1 DEF TakeJob, FirstOf
    <3> QED
      BY <1>1, <3>1 DEF TypeOK
  <2>2. CASE Skip(w) \/ RunEnds(w)
    <3>1. worker[w].job # j
      BY <1>1, <2>2 DEF Skip, RunEnds, At, Hands, Unsettled
    <3> QED
      BY <2>2, <3>1 DEF Skip, RunEnds, TypeOK
  <2>3. CASE ~TakeJob(w) /\ ~Skip(w) /\ ~RunEnds(w)
    BY <1>4, <2>3
    DEF WorkerStep, Sleep, TakeNotice, Exit, Check, Recovered, Settle, queueVars
  <2> QED
    BY <2>1, <2>2, <2>3
<1>5. ASSUME \/ \E k \in Job : CancelSession(k)
             \/ RequestStop \/ CloserStep
      PROVE  FALSE
  BY <1>1, <1>5
  DEF CancelSession, RequestStop, CloserStep, Close, NotifyAll, Join, TypeOK, queueVars
<1> QED
  BY <1>2, <1>3, <1>4, <1>5 DEF Next

(* However loads are pruned, discarded and skipped: a job that is settled  *)
(* stays as it is.                                                         *)
THEOREM JobsSettleOnce == Spec => SettledOnce
<1> DEFINE Once == \A j \in Job : phase[j] \in Final => phase'[j] = phase[j]
<1>1. IInv /\ Next => Once
  BY FinalIsKept
<1>2. ASSUME UNCHANGED vars PROVE Once
  BY <1>2 DEF vars, queueVars
<1>3. IInv /\ [Next]_vars => [Once]_vars
  BY <1>1, <1>2
<1>4. Spec => [][Once]_vars
  BY <1>3, Invariance, PTL DEF Spec
<1> QED
  BY <1>4 DEF SettledOnce

-----------------------------------------------------------------------------
(* The executor implements the bounded service.                            *)

\* No two workers have one job, and a worker that has not given back its
\* slot yet has a job that ran or was skipped.
Apart ==
  /\ \A v, w \in Busy : worker[v].job = worker[w].job => v = w
  /\ \A w \in Busy : worker[w].at \notin Unsettled
                    => phase[worker[w].job] \in {"ran", "cancelled"}

Held == {holds[t] : t \in Holding}
Worked == {worker[w].job : w \in Busy}

(* As many things as there are places that hold one each.                  *)
LEMMA SameSize ==
  ASSUME NEW S, IsFiniteSet(S), NEW F, F = [x \in S |-> F[x]],
         \A x, y \in S : F[x] = F[y] => x = y
  PROVE  LET T == {F[x] : x \in S}
         IN  IsFiniteSet(T) /\ Cardinality(T) = Cardinality(S)
<1> DEFINE T == {F[x] : x \in S}
<1>1. F \in [S -> T]
  OBVIOUS
<1>2. F \in Bijection(S, T)
  <2>1. \A t \in T : \E x \in S : F[x] = t
    OBVIOUS
  <2> HIDE DEF T
  <2> QED
    BY <1>1, <2>1, Fun_IsBij
<1> HIDE DEF T
<1>3. ExistsBijection(S, T)
  BY <1>2, Fun_ExistsBij
<1>4. IsFiniteSet(T) /\ Cardinality(T) = Cardinality(S)
  BY <1>3, FS_Bijection
<1> QED
  BY <1>4 DEF T

(* Where the jobs in hand are, by their phases.                            *)
LEMMA HandsByPhase ==
  ASSUME IInv, Apart
  PROVE  /\ InHand = Held \cup Queued \cup Worked /\ InHand \subseteq Job
         /\ \A j \in Held : phase[j] = "reserved"
         /\ \A j \in Queued : phase[j] = "queued"
         /\ \A j \in Worked : phase[j] \in {"taken", "ran", "cancelled"}
<1>1. \A j \in Held : j \in Job /\ phase[j] = "reserved"
  BY DEF IInv, TypeOK, Tokens, Held, Holding
<1>2. \A j \in Worked : j \in Job /\ phase[j] \in {"taken", "ran", "cancelled"}
  BY DEF IInv, TypeOK, Hands, Apart, Worked, Busy
<1> QED
  BY <1>1, <1>2 DEF InHand, Held, Worked, Queued

(* A pruned load is in nobody's hand but the queue's.                      *)
LEMMA PrunedAreQueued ==
  ASSUME IInv, Apart
  PROVE  Stale \cap Held = {} /\ Stale \cap Worked = {} /\ Stale \subseteq InHand
<1>1. \A j \in Stale : phase[j] = "queued" /\ j \in InHand
  BY HandsByPhase, PruningCounts
<1> QED
  BY <1>1, HandsByPhase

(* inFlight_ is the number of loads in hand, and stays so when the queue   *)
(* is pruned.                                                              *)
LEMMA InFlightCountsHands ==
  ASSUME IInv, Apart
  PROVE  Cardinality(InHand \ Stale) = inFlight - Cardinality(Stale)
<1> DEFINE H == Held
           W == Worked
           Q == Queued \ Stale
<1>1. IsFiniteSet(H) /\ Cardinality(H) = Cardinality(Holding)
  <2> DEFINE F == [t \in Holding |-> holds[t]]
  <2>1. \A t, u \in Holding : F[t] = F[u] => t = u
    BY DEF IInv, Tokens, Holding
  <2>2. {F[t] : t \in Holding} = H
    BY DEF Held
  <2>3. F = [t \in Holding |-> F[t]]
    OBVIOUS
  <2> HIDE DEF F
  <2> QED
    BY <2>1, <2>2, <2>3, CountedAreFinite, SameSize
<1>2. IsFiniteSet(W) /\ Cardinality(W) = Cardinality(Busy)
  <2> DEFINE F == [w \in Busy |-> worker[w].job]
  <2>1. \A v, w \in Busy : F[v] = F[w] => v = w
    BY DEF Apart
  <2>2. {F[w] : w \in Busy} = W
    BY DEF Worked
  <2>3. F = [w \in Busy |-> F[w]]
    OBVIOUS
  <2> HIDE DEF F
  <2> QED
    BY <2>1, <2>2, <2>3, CountedAreFinite, SameSize
<1>3. IsFiniteSet(Q) /\ Cardinality(Q) = Cardinality(Queued) - Cardinality(Stale)
  BY PruningCounts, CountedAreFinite, FS_Difference
<1>4. InHand \ Stale = (H \cup Q) \cup W /\ H \cap Q = {} /\ (H \cup Q) \cap W = {}
  BY HandsByPhase, PruningCounts
<1> HIDE DEF H, W, Q
<1>5. ASSUME NEW A, NEW B, IsFiniteSet(A), IsFiniteSet(B), A \cap B = {}
      PROVE  IsFiniteSet(A \cup B) /\ Cardinality(A \cup B) = Cardinality(A) + Cardinality(B)
  <2>1. IsFiniteSet(A \cup B)
        /\ Cardinality(A \cup B) = Cardinality(A) + Cardinality(B) - Cardinality(A \cap B)
    BY <1>5, FS_Union
  <2>2. Cardinality(A \cap B) = 0
    BY <1>5, FS_EmptySet
  <2>3. Cardinality(A) \in Nat /\ Cardinality(B) \in Nat
    BY <1>5, FS_CardinalityType
  <2> QED
    BY <2>1, <2>2, <2>3
<1>6. Cardinality((H \cup Q) \cup W) = Cardinality(H) + Cardinality(Q) + Cardinality(W)
  <2>1. IsFiniteSet(H \cup Q) /\ Cardinality(H \cup Q) = Cardinality(H) + Cardinality(Q)
    BY <1>1, <1>3, <1>4, <1>5
  <2> QED
    BY <1>2, <1>4, <1>5, <2>1
<1>7. inFlight = Cardinality(Holding) + Cardinality(Queued) + Cardinality(Busy)
  BY DEF IInv, Accounting
<1>8. Cardinality(InHand \ Stale) = Cardinality(H) + Cardinality(Q) + Cardinality(W)
  BY <1>4, <1>6
<1>9. Cardinality(InHand \ Stale)
        = Cardinality(Holding) + (Cardinality(Queued) - Cardinality(Stale)) + Cardinality(Busy)
  BY <1>1, <1>2, <1>3, <1>8
<1> QED
  BY <1>7, <1>9, PruningCounts, CountedAreFinite

(* The service's outstanding tasks are the loads in hand.                  *)
LEMMA OutstandingIsInHand ==
  ASSUME IInv, Apart
  PROVE  Service!Outstanding = InHand
<1>1. \A j \in Job : Admission[j] = "held" <=> j \in InHand
  BY DEF Admission
<1>2. Service!Outstanding = {j \in Job : Admission[j] = "held"}
  BY DEF Service!Outstanding
<1> HIDE DEF Admission
<1> QED
  BY <1>1, <1>2, HandsByPhase

(* A step that only takes loads out of hands finishes them.                *)
LEMMA FinishesOnly ==
  ASSUME IInv, Apart, NEW S \in SUBSET InHand, InHand' = InHand \ S,
         \A k \in Job : phase'[k] = "new" <=> phase[k] = "new",
         Stopping' = Stopping
  PROVE  Service!Next
<1>1. \A k \in S : phase[k] # "new"
  BY HandsByPhase
<1>2. Admission' = Service!Over(S)
  BY <1>1 DEF Admission, Service!Over
<1>3. Service!Finish(S)
  BY <1>2 DEF Service!Finish
<1> QED
  BY <1>3, OutstandingIsInHand DEF Service!Next

(* A step that answers one request, and may prune, changes the admission   *)
(* of that load and of the pruned ones alone.                              *)
LEMMA OnlyOneAnswered ==
  ASSUME IInv, Apart, NEW S \in SUBSET Queued, NEW j \in Job \ InHand, NEW answer,
         Admission'[j] = answer,
         InHand' \ {j} = InHand \ S,
         \A k \in Job : k # j => (phase'[k] = "new" <=> phase[k] = "new")
  PROVE  Admission' = [Service!Over(S) EXCEPT ![j] = answer]
<1>1. \A k \in S : phase[k] # "new" /\ k \in InHand
  BY HandsByPhase
<1>2. ASSUME NEW k \in Job, k # j
      PROVE  Admission'[k] = Service!Over(S)[k]
  BY <1>1, <1>2 DEF Admission, Service!Over
<1>3. Service!Over(S) = [k \in Job |-> Service!Over(S)[k]]
  BY DEF Service!Over
<1>4. Admission' = [k \in Job |-> Admission'[k]]
  BY DEF Admission
<1> DEFINE O == Service!Over(S)
<1> HIDE DEF O, Admission
<1>5. [O EXCEPT ![j] = answer] = [k \in Job |-> IF k = j THEN answer ELSE O[k]]
  BY <1>3 DEF O
<1>6. [k \in Job |-> IF k = j THEN answer ELSE O[k]] = [k \in Job |-> Admission'[k]]
  BY <1>2 DEF O
<1> QED
  BY <1>4, <1>5, <1>6 DEF O

(* Jobs stay apart when workers keep theirs and only one that settles its  *)
(* job stops working on it.                                                *)
LEMMA ApartStays ==
  ASSUME IInv, Apart, Next,
         \A w \in Worker : worker'[w].job = worker[w].job,
         \A w \in Busy : worker'[w].at \notin Unsettled =>
           worker[w].at \notin Unsettled \/ phase'[worker[w].job] \in {"ran", "cancelled"}
  PROVE  Apart' /\ Worked' = Worked
<1>1. Busy' = Busy
  BY DEF Busy
<1>2. \A w \in Busy : w \in Worker /\ worker[w].job \in Job
  BY DEF Busy, IInv, TypeOK
<1>3. ASSUME NEW w \in Busy, worker'[w].at \notin Unsettled
      PROVE  phase'[worker'[w].job] \in {"ran", "cancelled"}
  BY <1>2, <1>3, FinalIsKept DEF Apart, Final
<1>4. \A v, w \in Busy : worker'[v].job = worker'[w].job => v = w
  BY <1>2 DEF Apart
<1> QED
  BY <1>1, <1>2, <1>3, <1>4 DEF Apart, Worked

(* Every step keeps jobs apart.                                            *)
LEMMA StepKeepsApart ==
  ASSUME IInv, Apart, Next
  PROVE  Apart'
<1> USE DEF IInv
<1>1. CASE UNCHANGED worker
  BY <1>1, ApartStays
<1>2. ASSUME NEW S \in SUBSET Worker, worker' = Awake(S)
      PROVE  Apart'
  <2>1. \A w \in Worker : /\ worker'[w].job = worker[w].job
                         /\ \/ worker'[w].at = worker[w].at
                            \/ worker[w].at = "asleep" /\ worker'[w].at = "waiting"
    BY <1>2, WakingMoves
  <2> QED
    BY <2>1, ApartStays DEF Busy, Unsettled
<1>3. ASSUME NEW w \in Worker, NEW a \in Place, Move(w, a),
             a \in Unsettled \/ worker[w].at \notin Unsettled
                \/ phase'[worker[w].job] \in {"ran", "cancelled"}
      PROVE  Apart'
  <2>1. \A v \in Worker : /\ worker'[v].job = worker[v].job
                         /\ worker'[v].at = IF v = w THEN a ELSE worker[v].at
    BY <1>3 DEF Move, TypeOK
  <2> QED
    BY <1>3, <2>1, ApartStays DEF Busy
<1>4. ASSUME NEW w \in Worker, TakeJob(w)
      PROVE  Apart'
  <2>1. PICK j \in Queued : /\ phase' = [phase EXCEPT ![j] = "taken"]
                            /\ worker' = [worker EXCEPT ![w] = [at |-> "check", job |-> j]]
    BY <1>4 DEF TakeJob, FirstOf
  <2>2. w \notin Busy /\ j \in Job /\ j # NoJob
    BY <1>4, JobIsNumber DEF TakeJob, At, Hands, Busy, Queued
  <2>3. /\ worker'[w] = [at |-> "check", job |-> j]
        /\ \A v \in Worker : v # w => worker'[v] = worker[v]
    BY <2>1 DEF TypeOK
  <2>4. Busy' = Busy \cup {w}
    BY <2>2, <2>3 DEF Busy
  <2>5. \A v \in Busy : worker[v].job # j
    BY HandsByPhase DEF Worked, Queued
  <2>6. \A v \in Busy : worker[v].job \in Job /\ worker'[v] = worker[v]
    BY <2>2, <2>3 DEF Busy, TypeOK
  <2>7. \A u, v \in Busy' : worker'[u].job = worker'[v].job => u = v
    BY <2>3, <2>4, <2>5, <2>6 DEF Apart
  <2>8. \A v \in Busy : phase'[worker[v].job] = phase[worker[v].job]
    BY <2>1, <2>5, <2>6 DEF TypeOK
  <2> QED
    BY <2>3, <2>4, <2>6, <2>7, <2>8 DEF Apart, Unsettled
<1>5. ASSUME NEW w \in Worker, Settle(w)
      PROVE  Apart'
  <2>1. /\ phase' = phase
        /\ worker'[w] = [at |-> "waiting", job |-> NoJob]
        /\ \A v \in Worker : v # w => worker'[v] = worker[v]
    BY <1>5 DEF Settle, queueVars, TypeOK
  <2>2. Busy' = Busy \ {w}
    BY <2>1 DEF Busy
  <2>3. \A v \in Busy' : worker'[v] = worker[v]
    BY <2>1, <2>2 DEF Busy
  <2> QED
    BY <2>1, <2>2, <2>3 DEF Apart
<1>6. ASSUME NEW w \in Worker, WorkerStep(w)
      PROVE  Apart'
  <2>1. CASE Sleep(w) \/ Exit(w) \/ Check(w) \/ Recovered(w)
    BY <2>1, <1>3 DEF Sleep, Exit, Check, Recovered, At, Unsettled, Place
  <2>2. CASE Skip(w) \/ RunEnds(w)
    <3>1. worker[w].job \in Job
      BY <2>2 DEF Skip, RunEnds, At, Hands, TypeOK
    <3>2. phase'[worker[w].job] \in {"ran", "cancelled"}
      BY <2>2, <3>1 DEF Skip, RunEnds, TypeOK
    <3> QED
      BY <2>2, <3>2, <1>3 DEF Skip, RunEnds, Place
  <2> QED
    BY <1>1, <1>4, <1>5, <1>6, <2>1, <2>2 DEF WorkerStep, TakeNotice
<1>7. ASSUME NEW t \in Thread, NotifyOne(t)
      PROVE  Apart'
  BY <1>1, <1>2, <1>7 DEF NotifyOne
<1>8. CASE CloserStep
  BY <1>1, <1>2, <1>8 DEF CloserStep, Close, NotifyAll, Join
<1> QED
  BY <1>1, <1>6, <1>7, <1>8
  DEF Next, Reserve, ReserveFull, ReserveStopping, TokenStep, Submit, DropReservation,
      CancelSession, RequestStop

(* What a step of the executor is to the service.                          *)
LEMMA ServiceStep ==
  ASSUME IInv, Apart, Next
  PROVE  Service!Next
<1> USE DEF IInv
<1>1. ASSUME UNCHANGED <<phase, holds>>, Stopping' = Stopping,
             \A w \in Worker : worker'[w].job = worker[w].job
      PROVE  Service!Next
  <2>1. InHand' = InHand
    BY <1>1 DEF InHand, Holding, Queued, Busy
  <2> QED
    BY <1>1, <2>1, FinishesOnly
<1>2. ASSUME NEW t \in Thread, NEW j \in Job, Reserve(t, j)
      PROVE  Service!Next
  <2>1. /\ holds[t] = NoJob /\ phase[j] = "new" /\ ~Stopping
        /\ holds' = [holds EXCEPT ![t] = j] /\ phase' = PrunedWith(j, "reserved")
        /\ inFlight - Cardinality(Stale) < Limit
        /\ UNCHANGED <<worker, closer>>
    BY <1>2 DEF Reserve, Schedules, Asks
  <2>2. j \notin InHand /\ j \notin Stale
    BY <2>1, HandsByPhase, PruningCounts
  <2>3. Held' = Held \cup {j}
    BY <2>1, JobIsNumber DEF Held, Holding, TypeOK
  <2>4. Queued' = Queued \ Stale
    BY <2>1, <2>2 DEF Queued, PrunedWith
  <2>5. InHand' = (InHand \ Stale) \cup {j}
    <3>1. InHand' = Held' \cup Queued' \cup Worked'
      BY DEF InHand, Held, Worked
    <3>2. Worked' = Worked
      BY <2>1 DEF Worked, Busy
    <3> QED
      BY <2>3, <2>4, <3>1, <3>2, HandsByPhase, PrunedAreQueued
  <2>6. Admission[j] = "new" /\ Admission'[j] = "held"
    BY <2>1, <2>2, <2>5 DEF Admission
  <2>7. \A k \in Job : k # j => (phase'[k] = "new" <=> phase[k] = "new")
    BY <2>1, HandsByPhase, PruningCounts DEF PrunedWith
  <2>8. Admission' = [Service!Over(Stale) EXCEPT ![j] = "held"]
    BY <2>2, <2>5, <2>6, <2>7, PruningCounts, OnlyOneAnswered
  <2>9. Cardinality(Service!Outstanding \ Stale) < Limit
    BY <2>1, InFlightCountsHands, OutstandingIsInHand
  <2>10. Service!Admit(j, Stale)
    BY <2>1, <2>6, <2>8, <2>9
    DEF Service!Admit, Service!Cardinality, Cardinality, Stopping
  <2> QED
    BY <2>10, HandsByPhase, PruningCounts, OutstandingIsInHand DEF Service!Next
<1>3. ASSUME NEW t \in Thread, NEW j \in Job, ReserveFull(t, j)
      PROVE  Service!Next
  <2>1. /\ phase[j] = "new" /\ phase' = PrunedWith(j, "rejected")
        /\ inFlight - Cardinality(Stale) >= Limit
        /\ UNCHANGED <<holds, worker, closer>>
    BY <1>3 DEF ReserveFull, Asks
  <2>2. j \notin InHand /\ j \notin Stale
    BY <2>1, HandsByPhase, PruningCounts
  <2>3. Queued' = Queued \ Stale
    BY <2>1, <2>2 DEF Queued, PrunedWith
  <2>4. InHand' = InHand \ Stale
    <3>1. InHand' = Held \cup Queued' \cup Worked
      BY <2>1 DEF InHand, Held, Holding, Worked, Busy
    <3> QED
      BY <2>3, <3>1, HandsByPhase, PrunedAreQueued
  <2>5. Admission[j] = "new" /\ Admission'[j] = "over"
    BY <2>1, <2>2, <2>4 DEF Admission, PrunedWith
  <2>6. \A k \in Job : k # j => (phase'[k] = "new" <=> phase[k] = "new")
    BY <2>1, HandsByPhase, PruningCounts DEF PrunedWith
  <2>7. Admission' = [Service!Over(Stale) EXCEPT ![j] = "over"]
    <3>1. InHand' \ {j} = InHand \ Stale
      BY <2>2, <2>4
    <3> QED
      BY <2>2, <2>5, <2>6, <3>1, PruningCounts, OnlyOneAnswered
  <2>8. Cardinality(Service!Outstanding \ Stale) >= Limit
    BY <2>1, InFlightCountsHands, OutstandingIsInHand
  <2>9. Service!Refuse(j, Stale)
    BY <2>1, <2>5, <2>7, <2>8
    DEF Service!Refuse, Service!Cardinality, Cardinality, Stopping
  <2> QED
    BY <2>9, HandsByPhase, PruningCounts, OutstandingIsInHand DEF Service!Next
<1>4. ASSUME NEW t \in Thread, NEW j \in Job, ReserveStopping(t, j)
      PROVE  Service!Next
  <2>1. /\ phase[j] = "new" /\ phase' = [phase EXCEPT ![j] = "rejected"] /\ Stopping
        /\ UNCHANGED <<holds, worker, closer>>
    BY <1>4 DEF ReserveStopping, Asks, threadVars
  <2>2. j \notin InHand
    BY <2>1, HandsByPhase
  <2>3. InHand' = InHand
    BY <2>1 DEF InHand, Holding, Busy, Queued, TypeOK
  <2>4. Admission[j] = "new" /\ Admission'[j] = "over"
    BY <2>1, <2>2, <2>3 DEF Admission, TypeOK
  <2>5. \A k \in Job : k # j => (phase'[k] = "new" <=> phase[k] = "new")
    BY <2>1 DEF TypeOK
  <2>6. Admission' = [Service!Over({}) EXCEPT ![j] = "over"]
    BY <2>2, <2>3, <2>4, <2>5, OnlyOneAnswered
  <2>7. Service!Refuse(j, {})
    BY <2>1, <2>4, <2>6 DEF Service!Refuse, Stopping
  <2> QED
    BY <2>7 DEF Service!Next
<1>5. ASSUME NEW t \in Thread, Submit(t)
      PROVE  Service!Next
  <2> DEFINE j == holds[t]
  <2>1. /\ j \in Held /\ j \in Job /\ phase[j] = "reserved" /\ ~ShutDown /\ t \in Holding
    BY <1>5 DEF Submit, Held, Holding, Tokens, TypeOK, CommitIsAccepted
  <2>2. /\ phase' = [phase EXCEPT ![j] = "queued"] /\ holds' = [holds EXCEPT ![t] = NoJob]
        /\ UNCHANGED <<worker, closer>>
    BY <1>5, <2>1 DEF Submit
  <2>3. Held' = Held \ {j}
    BY <2>1, <2>2 DEF Held, Holding, Tokens, TypeOK
  <2>4. Queued' = Queued \cup {j}
    BY <2>1, <2>2 DEF Queued, TypeOK
  <2>5. InHand' = InHand
    BY <2>1, <2>2, <2>3, <2>4 DEF InHand, Held, Busy
  <2>6. \A k \in Job : phase'[k] = "new" <=> phase[k] = "new"
    BY <2>1, <2>2 DEF TypeOK
  <2> QED
    BY <2>2, <2>5, <2>6, FinishesOnly DEF Stopping
<1>6. ASSUME NEW t \in Thread, DropReservation(t)
      PROVE  Service!Next
  <2> DEFINE j == holds[t]
  <2>1. /\ j \in Held /\ j \in Job /\ phase[j] = "reserved" /\ t \in Holding
    BY <1>6 DEF DropReservation, Held, Holding, Tokens, TypeOK
  <2>2. /\ phase' = [phase EXCEPT ![j] = "rejected"] /\ holds' = [holds EXCEPT ![t] = NoJob]
        /\ UNCHANGED <<worker, closer>>
    BY <1>6 DEF DropReservation
  <2>3. Held' = Held \ {j}
    BY <2>1, <2>2 DEF Held, Holding, Tokens, TypeOK
  <2>4. Queued' = Queued
    BY <2>1, <2>2 DEF Queued, TypeOK
  <2>5. InHand' = InHand \ {j} /\ {j} \in SUBSET InHand
    BY <2>1, <2>2, <2>3, <2>4, HandsByPhase DEF InHand, Held, Busy, Worked
  <2>6. \A k \in Job : phase'[k] = "new" <=> phase[k] = "new"
    BY <2>1, <2>2 DEF TypeOK
  <2> QED
    BY <2>2, <2>5, <2>6, FinishesOnly DEF Stopping
<1>7. ASSUME NEW w \in Worker, TakeJob(w)
      PROVE  Service!Next
  <2>1. PICK j \in Queued : /\ phase' = [phase EXCEPT ![j] = "taken"]
                            /\ worker' = [worker EXCEPT ![w] = [at |-> "check", job |-> j]]
    BY <1>7 DEF TakeJob, FirstOf
  <2>2. w \notin Busy /\ j \in Job /\ j # NoJob /\ UNCHANGED <<holds, closer>>
    BY <1>7, JobIsNumber DEF TakeJob, At, Hands, Busy, Queued, threadVars
  <2>3. Worked' = Worked \cup {j}
    BY <2>1, <2>2 DEF Worked, Busy, TypeOK
  <2>4. Queued' = Queued \ {j}
    BY <2>1, <2>2 DEF Queued, TypeOK
  <2>5. InHand' = InHand
    BY <2>1, <2>2, <2>3, <2>4 DEF InHand, Worked, Holding
  <2>6. \A k \in Job : phase'[k] = "new" <=> phase[k] = "new"
    BY <2>1, <2>2 DEF TypeOK, Queued
  <2> QED
    BY <2>2, <2>5, <2>6, FinishesOnly DEF Stopping
<1>8. ASSUME NEW w \in Worker, Skip(w) \/ RunEnds(w)
      PROVE  Service!Next
  <2> DEFINE j == worker[w].job
  <2>1. /\ j \in Job /\ phase[j] = "taken" /\ UNCHANGED <<holds, closer>>
        /\ \E a \in Place : Move(w, a)
        /\ \E p \in {"ran", "cancelled"} : phase' = [phase EXCEPT ![j] = p]
    BY <1>8 DEF Skip, RunEnds, At, Hands, TypeOK, Unsettled, Place, threadVars
  <2>2. \A v \in Worker : worker'[v].job = worker[v].job
    BY <2>1 DEF Move, TypeOK
  <2>3. Queued' = Queued
    BY <2>1 DEF Queued, TypeOK
  <2>4. InHand' = InHand
    BY <2>1, <2>2, <2>3 DEF InHand, Holding, Busy
  <2>5. \A k \in Job : phase'[k] = "new" <=> phase[k] = "new"
    BY <2>1 DEF TypeOK
  <2> QED
    BY <2>1, <2>4, <2>5, FinishesOnly DEF Stopping
<1>9. ASSUME NEW w \in Worker, Settle(w)
      PROVE  Service!Next
  <2> DEFINE j == worker[w].job
  <2>1. /\ UNCHANGED <<phase, holds, closer>>
        /\ worker'[w] = [at |-> "waiting", job |-> NoJob]
        /\ \A v \in Worker : v # w => worker'[v] = worker[v]
    BY <1>9 DEF Settle, queueVars, threadVars, TypeOK
  <2>2. w \in Busy /\ Busy' = Busy \ {w}
    BY <1>9, <2>1 DEF Settle, At, Hands, Busy
  <2>3. Worked' = Worked \ {j}
    BY <2>1, <2>2 DEF Worked, Apart, Busy
  <2>4. j \in Worked
    BY <2>2 DEF Worked
  <2>5. InHand' = InHand \ {j} /\ {j} \in SUBSET InHand
    BY <2>1, <2>3, <2>4, HandsByPhase DEF InHand, Held, Holding, Queued, Worked
  <2> QED
    BY <2>1, <2>5, FinishesOnly DEF Stopping
<1>10. CASE Close
  <2>1. /\ phase' = [j \in Job |-> IF j \in Queued THEN "cancelled" ELSE phase[j]]
        /\ UNCHANGED <<holds, worker>> /\ Stopping' = Stopping
    BY <1>10 DEF Close, threadVars, Stopping
  <2>2. Queued' = {}
    BY <2>1 DEF Queued
  <2>3. InHand' = InHand \ Queued
    BY <2>1, <2>2, HandsByPhase DEF InHand, Held, Worked, Holding, Busy
  <2>4. \A k \in Job : phase'[k] = "new" <=> phase[k] = "new"
    BY <2>1 DEF Queued
  <2> QED
    BY <2>1, <2>3, <2>4, HandsByPhase, FinishesOnly
<1>11. CASE RequestStop
  <2>1. /\ UNCHANGED <<phase, holds, worker>> /\ Stopping'
    BY <1>11 DEF RequestStop, queueVars, threadVars, Stopping
  <2>2. Admission' = Admission
    BY <2>1 DEF Admission, InHand, Holding, Queued, Busy
  <2> QED
    BY <2>1, <2>2 DEF Service!Next, Service!Close
<1>12. ASSUME NEW w \in Worker, Sleep(w) \/ TakeNotice(w) \/ Exit(w) \/ Check(w) \/ Recovered(w)
       PROVE  Service!Next
  <2>1. /\ UNCHANGED <<phase, holds, closer>>
        /\ worker' = worker \/ \E a \in Place : Move(w, a)
    BY <1>12 DEF Sleep, TakeNotice, Exit, Check, Recovered, Place, queueVars, threadVars
  <2>2. \A v \in Worker : worker'[v].job = worker[v].job
    BY <2>1 DEF Move, TypeOK
  <2> QED
    BY <1>1, <2>1, <2>2 DEF Stopping
<1>13. ASSUME NEW t \in Thread, NotifyOne(t)
       PROVE  Service!Next
  <2>1. UNCHANGED <<phase, holds, closer>> /\ \E S \in SUBSET Worker : worker' \in {worker, Awake(S)}
    BY <1>13 DEF NotifyOne, queueVars
  <2> QED
    BY <1>1, <2>1, WakingMoves DEF Stopping
<1>14. CASE NotifyAll \/ Join
  <2>1. /\ UNCHANGED <<phase, holds>> /\ Stopping' = Stopping
        /\ worker' \in {worker, Awake(Worker)}
    BY <1>14 DEF NotifyAll, Join, Stopping, queueVars, threadVars
  <2> QED
    BY <1>1, <2>1, WakingMoves
<1>15. ASSUME NEW j \in Job, CancelSession(j)
       PROVE  Service!Next
  BY <1>1, <1>15 DEF CancelSession, queueVars, threadVars, Stopping
<1> QED
  BY <1>2, <1>3, <1>4, <1>5, <1>6, <1>7, <1>8, <1>9, <1>10, <1>11, <1>12, <1>13, <1>14, <1>15
  DEF Next, TokenStep, WorkerStep, CloserStep

(* The executor is a bounded service for any number of threads, workers    *)
(* and places: tryReserve admits a load only while a slot is free, refuses *)
(* one only when none is or shutdown has begun, and no slot is given back  *)
(* twice.                                                                  *)
THEOREM LoadsStayBounded == Spec => LoadsAreBounded
<1>1. Init => Service!Init /\ Apart
  <2> SUFFICES ASSUME Init PROVE Service!Init /\ Apart
    OBVIOUS
  <2>1. InHand = {} /\ Busy = {}
    BY DEF Init, InHand, Holding, Queued, Busy
  <2>2. Admission = [j \in Job |-> "new"]
    BY <2>1 DEF Admission, Init
  <2> QED
    BY <2>1, <2>2 DEF Init, Service!Init, Stopping, Apart
<1>2. IInv /\ Apart /\ [Next]_vars => [Service!Next]_(Service!vars) /\ Apart'
  <2> SUFFICES ASSUME IInv, Apart, [Next]_vars PROVE [Service!Next]_(Service!vars) /\ Apart'
    OBVIOUS
  <2>1. CASE Next
    BY <2>1, ServiceStep, StepKeepsApart
  <2>2. CASE UNCHANGED vars
    BY <2>2
    DEF vars, queueVars, threadVars, Service!vars, Admission, InHand, Holding, Queued, Busy, Stopping, Apart
  <2> QED
    BY <2>1, <2>2
<1> QED
  BY <1>1, <1>2, InitIInv, StepKeepsIInv, PTL DEF Spec, LoadsAreBounded, Service!Spec
=============================================================================
