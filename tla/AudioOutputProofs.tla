-------------------------- MODULE AudioOutputProofs --------------------------
(***************************************************************************)
(* Machine-checked proofs about the two ways sound leaves the server: the  *)
(* RTP output, for every set of playbacks, every number of frames, queue   *)
(* capacity and threshold, and the local playback coordinator with its     *)
(* device, for any clients, number of requests and queue lengths.          *)
(***************************************************************************)
EXTENDS RtpOutput, LocalAudio, SequenceTheorems, FiniteSetTheorems, TLAPS

-----------------------------------------------------------------------------
(* The RTP output: RtpOutput.                                              *)

(***************************************************************************)
(* The inductive invariant, part by part.                                  *)
(***************************************************************************)

\* A generation is claimed once, and the active one is the newest claimed.
Generations ==
  /\ active \in {None, next}
  /\ \A p \in Player : /\ player[p].gen <= next
                       /\ player[p].gen = None <=> player[p].stage = "new"
  /\ \A p, q \in Player : player[p].gen = player[q].gen /\ player[p].gen # None => p = q
  /\ active # None => \E p \in Player : player[p].gen = active

\* The stages in which a handler may stand at a spot, when a playback has an
\* outcome, and that frames are left until the last one is queued.
Placed(p) ==
  /\ player[p].at = "push" => player[p].stage \in {"reset", "prime", "play"}
  /\ player[p].at = "enqueue" => player[p].stage = "play"
  /\ player[p].at \in {"current", "recheck"} => player[p].stage \in {"play", "drain", "skipped"}
  /\ player[p].at = "owned" => player[p].stage \in {"drain", "skipped"}
  /\ player[p].at # "rest" => player[p].stage \notin {"new", "claimed", "done"}
  /\ player[p].outcome # "none" => player[p].at \in {"release", "purge"} \/ player[p].stage = "done"
  /\ player[p].at \in {"release", "purge"} /\ player[p].outcome = "none"
       => player[p].stage \in {"reset", "prime", "skipped"}
  /\ player[p].stage \notin {"drain", "skipped", "done"} => player[p].frame < Frames

Places == \A p \in Player : Placed(p)

\* Stages of a playback that has not queued its reset.
Early == {"new", "claimed", "reset"}

Known(g) ==
  /\ 0 < g /\ g <= next
  /\ \A p \in Player : player[p].gen = g => player[p].stage \notin Early

\* Commands, and the ready generation, are of playbacks that queued a reset.
CommandsKnown ==
  /\ \A n \in DOMAIN queue : Known(queue[n].gen)
  /\ worker.at # "idle" => Known(Cmd.gen)
  /\ ready # None => Known(ready)

IsFrame(c, g) == c.gen = g /\ c.kind # "reset"

IsReset(c, g) == c.gen = g /\ c.kind = "reset"

\* A generation is ready, or in the worker's hand to be made ready, or its
\* reset is queued before all its frames.
Prepared(g) ==
  \/ ready = g
  \/ IsReset(Cmd, g) /\ worker.at \in {"popped", "inside", "trip", "break"}
  \/ /\ ~(IsFrame(Cmd, g) /\ worker.at \in {"popped", "inside"})
     /\ \E n \in DOMAIN queue :
          /\ IsReset(queue[n], g)
          /\ \A m \in DOMAIN queue : m < n => ~IsFrame(queue[m], g)

ReadyFollows ==
  \A p \in Player :
    player[p].gen = active /\ player[p].stage \notin Early => Prepared(active)

\* Those who have seen the lease lost, or given it back, have lost it.
Lost ==
  /\ \A p \in Player :
       player[p].at \in {"recheck", "purge"} \/ player[p].outcome = "delivered"
         => player[p].gen # active
  /\ worker.at = "drop" => Cmd.gen # active

\* The ring is ascending, as a generation trips once, and it knows every
\* generation that the breaker released.
RingAscends ==
  /\ \A i, j \in DOMAIN ring : i <= j => ring[i] + (j - i) <= ring[j]
  /\ \A i \in DOMAIN ring :
       /\ 0 < ring[i] /\ ring[i] <= next
       /\ ring[i] = active => worker.at = "break" /\ Cmd.gen = active
  /\ worker.at \in {"inside", "trip"} => \A i \in DOMAIN ring : ring[i] < Cmd.gen
  /\ worker.at = "break" => \E i \in DOMAIN ring : ring[i] = Cmd.gen
  /\ \A g \in broken : \E i \in DOMAIN ring : ring[i] = g

\* p released its lease itself, and will not take it for answered.
GaveUp(p) ==
  \/ player[p].at = "purge" \/ player[p].outcome # "none" \/ player[p].stage = "skipped"
  \/ player[p].stage = "play" /\ player[p].at \in {"rest", "current", "recheck"}

\* The newest generation loses its lease to the worker, or its owner gives up.
LossesExplained ==
  \A p \in Player :
    player[p].gen = next /\ next # None /\ active # next
      => next \in answered \cup broken \/ GaveUp(p)

IInv ==
  /\ TypeOK /\ Generations /\ Places /\ SendsNewest /\ CommandsKnown /\ ReadyFollows
  /\ Lost /\ RingAscends /\ LossesExplained /\ DeliveredIsAnswered

-----------------------------------------------------------------------------
(* What a compare-and-swap to zero leaves behind.                          *)
LEMMA ClearedValue ==
  ASSUME NEW v, NEW g
  PROVE  /\ Cleared(v, g) \in {None, v}
         /\ Cleared(v, g) = g => g = None
         /\ v # None /\ Cleared(v, g) = None => g = v
         /\ v # g => Cleared(v, g) = v
  BY DEF Cleared, None

(* The queue after a purge.                                                *)
LEMMA Purged ==
  ASSUME NEW g
  PROVE  /\ DOMAIN Without(g) = {n \in DOMAIN queue : queue[n].gen # g}
         /\ \A n \in DOMAIN Without(g) : Without(g)[n] = queue[n]
         /\ DOMAIN Only(g) = {n \in DOMAIN queue : queue[n].gen = g}
         /\ \A n \in DOMAIN Only(g) : Only(g)[n] = queue[n]
  BY DEF Without, Only, Restrict

LEMMA QueueFinite ==
  ASSUME TypeOK
  PROVE  IsFiniteSet(DOMAIN queue)
<1>1. turn - 1 \in Int /\ DOMAIN queue \subseteq 0 .. turn - 1
  BY DEF TypeOK
<1>2. IsFiniteSet(0 .. turn - 1)
  BY <1>1, FS_Interval
<1> QED
  BY <1>1, <1>2, FS_Subset

(* A queue without some of its commands, or with one more, is well formed. *)
LEMMA QueueShrinks ==
  ASSUME TypeOK, NEW D, D \subseteq DOMAIN queue
  PROVE  Cardinality(D) <= QueueCapacity
<1>1. IsFiniteSet(DOMAIN queue)
  BY QueueFinite
<1>2. IsFiniteSet(D) /\ Cardinality(D) <= Cardinality(DOMAIN queue)
  BY <1>1, FS_Subset
<1>3. Cardinality(D) \in Nat /\ Cardinality(DOMAIN queue) \in Nat
  BY <1>1, <1>2, FS_CardinalityType
<1> QED
  BY <1>2, <1>3, RtpAssumption DEF TypeOK

LEMMA QueueGrows ==
  ASSUME TypeOK, Cardinality(DOMAIN queue) < QueueCapacity
  PROVE  Cardinality(DOMAIN queue \cup {turn}) <= QueueCapacity
<1>1. IsFiniteSet(DOMAIN queue)
  BY QueueFinite
<1>2. turn \notin DOMAIN queue
  BY DEF TypeOK
<1>3. Cardinality(DOMAIN queue \cup {turn}) = Cardinality(DOMAIN queue) + 1
  BY <1>1, <1>2, FS_AddElement
<1>4. Cardinality(DOMAIN queue) \in Nat
  BY <1>1, FS_CardinalityType
<1> QED
  BY <1>3, <1>4, RtpAssumption

-----------------------------------------------------------------------------
(***************************************************************************)
(* The handlers and the loader's abandon change nothing but their playback *)
(* (a push, a release and a purge apart): they are quiet.                  *)
(***************************************************************************)
QuietNext(p) ==
  \/ BeginPriming(p) \/ BeginTick(p) \/ BeginCompletionCheck(p) \/ CheckCurrent(p)
  \/ CheckOwned(p) \/ Recheck(p) \/ Enqueue(p) \/ SkipTail(p) \/ PushRejected(p)
  \/ Cancel(p) \/ LoaderAbandons(p)

\* What a quiet step leaves of everything but its playback's own record.
Quiet(p) ==
  /\ UNCHANGED <<sharedVars, workerVars>>
  /\ loop' \subseteq Player
  /\ player' \in [Player -> [stage : Stage, at : Spot, gen : Nat, frame : 0 .. Frames,
                             outcome : Outcome]]
  /\ \A q \in Player : q # p => player'[q] = player[q]
  /\ player'[p].gen = player[p].gen

LEMMA HandlerForms ==
  ASSUME TypeOK, NEW p \in Player, NEW stage \in Stage, NEW spot \in Spot, NEW outcome \in Outcome
  PROVE  /\ LoopStep /\ Goes(p, spot) => Quiet(p)
         /\ LoopStep /\ Returns(p, stage) => Quiet(p)
         /\ LoopStep /\ Concludes(p, outcome) => Quiet(p)
<1>0. /\ loop \subseteq Player
      /\ player \in [Player -> [stage : Stage, at : Spot, gen : Nat, frame : 0 .. Frames,
                                outcome : Outcome]]
  BY DEF TypeOK
<1>1. LoopStep /\ Goes(p, spot) => Quiet(p)
  BY <1>0 DEF LoopStep, Goes, Quiet
<1>2. LoopStep /\ Returns(p, stage) => Quiet(p)
  <2>1. "rest" \in Spot
    BY DEF Spot
  <2> QED
    BY <1>0, <2>1 DEF LoopStep, Returns, Quiet
<1>3. LoopStep /\ Concludes(p, outcome) => Quiet(p)
  <2>1. "done" \in Stage /\ {"release", "rest"} \subseteq Spot
    BY DEF Stage, Spot
  <2>2. ASSUME LoopStep, player' = [player EXCEPT ![p].outcome = outcome, ![p].at = "release"],
               loop' = {p}
        PROVE  Quiet(p)
    BY <1>0, <2>1, <2>2 DEF LoopStep, Quiet
  <2>3. ASSUME LoopStep, loop' = {},
               player' = [player EXCEPT ![p].outcome = outcome, ![p].at = "rest",
                                        ![p].stage = "done"]
        PROVE  Quiet(p)
    BY <1>0, <2>1, <2>3 DEF LoopStep, Quiet
  <2> QED
    BY <2>2, <2>3 DEF Concludes
<1> QED
  BY <1>1, <1>2, <1>3

(* Every quiet step is one.                                                *)
LEMMA QuietSteps ==
  ASSUME TypeOK, Places, NEW p \in Player, QuietNext(p)
  PROVE  Quiet(p)
<1>0. /\ loop \subseteq Player
      /\ player \in [Player -> [stage : Stage, at : Spot, gen : Nat, frame : 0 .. Frames,
                                outcome : Outcome]]
  BY DEF TypeOK
<1>1. /\ {"push", "current", "recheck", "owned", "enqueue", "release"} \subseteq Spot
      /\ {"play", "drain", "skipped"} \subseteq Stage /\ player[p].stage \in Stage
      /\ {"failed", "timeout", "stale", "delivered", "cut", "rejected", "cancelled"} \subseteq Outcome
  BY DEF Spot, Stage, Outcome, TypeOK
<1>2. CASE BeginPriming(p) \/ BeginTick(p) \/ BeginCompletionCheck(p)
  BY <1>1, <1>2, HandlerForms DEF BeginPriming, BeginTick, BeginCompletionCheck
<1>3. CASE CheckCurrent(p) \/ CheckOwned(p)
  BY <1>1, <1>3, HandlerForms DEF CheckCurrent, CheckOwned
<1>4. CASE Recheck(p)
  <2>1. Meaning(p) \in Outcome
    BY <1>1, <1>4 DEF Recheck, Places, Placed, Meaning
  <2> QED
    BY <1>1, <1>4, <2>1, HandlerForms DEF Recheck
<1>5. CASE Enqueue(p) \/ PushRejected(p) \/ Cancel(p)
  BY <1>1, <1>5, HandlerForms DEF Enqueue, PushRejected, Cancel
<1>6. CASE SkipTail(p)
  <2>1. CASE p \in Session
    BY <1>1, <1>6, <2>1, HandlerForms DEF SkipTail
  <2>2. CASE p \notin Session
    BY <1>0, <1>1, <1>6, <2>2 DEF SkipTail, LoopStep, Quiet
  <2> QED
    BY <2>1, <2>2
<1>7. CASE LoaderAbandons(p)
  BY <1>0, <1>1, <1>7 DEF LoaderAbandons, Quiet
<1> QED
  BY <1>2, <1>3, <1>4, <1>5, <1>6, <1>7 DEF QuietNext

(* What a quiet step makes of its playback: no stage comes back, a reset   *)
(* is given up only by a superseded playback, and what the playback has    *)
(* seen of its lease is true.                                              *)
QuietMeaning(p) ==
  /\ player'[p].stage \in Early => player'[p].stage = player[p].stage
  /\ player[p].stage \notin {"new", "claimed"} /\ player'[p].stage \notin {"new", "claimed"}
  /\ player[p].stage \in Early /\ player'[p].stage \notin Early => player[p].gen # active
  /\ player'[p].at \in {"recheck", "purge"} => player[p].gen # active
  /\ player[p].gen # None /\ player[p].gen # active /\ GaveUp(p) => GaveUp(p)'
  /\ player'[p].outcome = "delivered" =>
       /\ player[p].outcome = "none" /\ player[p].at = "recheck" /\ player[p].stage = "drain"
       /\ ~IsTripped(player[p].gen)

LEMMA QuietEffect ==
  ASSUME TypeOK, Generations, Places, Lost, NEW p \in Player, QuietNext(p)
  PROVE  Placed(p)' /\ QuietMeaning(p)
<1>0. /\ player \in [Player -> [stage : Stage, at : Spot, gen : Nat, frame : 0 .. Frames,
                                outcome : Outcome]]
      /\ Placed(p) /\ (player[p].at = "recheck" => player[p].gen # active)
      /\ player[p].gen = None <=> player[p].stage = "new"
  BY DEF TypeOK, Places, Placed, Lost, Generations
<1>1. ASSUME BeginPriming(p) PROVE Placed(p)' /\ QuietMeaning(p)
  BY <1>0, <1>1 DEF BeginPriming, Is, Goes, Returns, IsCurrent, Placed, QuietMeaning, Early, GaveUp
<1>2. ASSUME BeginTick(p) PROVE Placed(p)' /\ QuietMeaning(p)
  BY <1>0, <1>2 DEF BeginTick, Is, Goes, Concludes, Placed, QuietMeaning, Early, GaveUp
<1>3. ASSUME BeginCompletionCheck(p) PROVE Placed(p)' /\ QuietMeaning(p)
  BY <1>0, <1>3 DEF BeginCompletionCheck, Is, Goes, Placed, QuietMeaning, Early, GaveUp
<1>4. ASSUME CheckCurrent(p) PROVE Placed(p)' /\ QuietMeaning(p)
  BY <1>0, <1>4 DEF CheckCurrent, IsCurrent, Goes, Returns, Concludes, Placed, QuietMeaning, Early, GaveUp
<1>5. ASSUME CheckOwned(p) PROVE Placed(p)' /\ QuietMeaning(p)
  BY <1>0, <1>5 DEF CheckOwned, Returns, Concludes, Placed, QuietMeaning, Early, GaveUp
<1>6. ASSUME Recheck(p) PROVE Placed(p)' /\ QuietMeaning(p)
  BY <1>0, <1>6 DEF Recheck, Meaning, Concludes, Placed, QuietMeaning, Early, GaveUp
<1>7. ASSUME Enqueue(p) PROVE Placed(p)' /\ QuietMeaning(p)
  BY <1>0, <1>7 DEF Enqueue, IsCurrent, Goes, Returns, Concludes, Placed, QuietMeaning, Early, GaveUp
<1>8. ASSUME SkipTail(p) PROVE Placed(p)' /\ QuietMeaning(p)
  BY <1>0, <1>8 DEF SkipTail, Concludes, Placed, QuietMeaning, Early, GaveUp
<1>9. ASSUME PushRejected(p) PROVE Placed(p)' /\ QuietMeaning(p)
  BY <1>0, <1>9 DEF PushRejected, Goes, Concludes, Placed, QuietMeaning, Early, GaveUp
<1>10. ASSUME Cancel(p) PROVE Placed(p)' /\ QuietMeaning(p)
  BY <1>0, <1>10 DEF Cancel, Is, Concludes, Placed, QuietMeaning, Early, GaveUp
<1>11. ASSUME LoaderAbandons(p) PROVE Placed(p)' /\ QuietMeaning(p)
  BY <1>0, <1>11 DEF LoaderAbandons, Is, Placed, QuietMeaning, Early, GaveUp
<1> QED
  BY <1>1, <1>2, <1>3, <1>4, <1>5, <1>6, <1>7, <1>8, <1>9, <1>10, <1>11 DEF QuietNext

(* The ring forgets a generation only when it has wrapped, and generations *)
(* are published in the order they were claimed.                           *)
LEMMA RingForgets ==
  ASSUME TypeOK, RingAscends, NEW g \in broken, ~IsTripped(g)
  PROVE  g + RingSize <= next
<1>1. PICK i \in DOMAIN ring : ring[i] = g
  BY DEF RingAscends
<1>2. i + RingSize <= Len(ring)
  BY <1>1, RtpAssumption DEF IsTripped, TypeOK
<1>3. Len(ring) \in DOMAIN ring /\ i <= Len(ring)
  BY <1>1 DEF TypeOK
<1>4. ring[i] + (Len(ring) - i) <= ring[Len(ring)] /\ ring[Len(ring)] <= next
  BY <1>1, <1>3 DEF RingAscends
<1>5. /\ ring[i] \in Nat /\ ring[Len(ring)] \in Nat /\ next \in Nat /\ RingSize \in Nat
      /\ Len(ring) \in Nat /\ i \in Nat
  BY <1>1, <1>3, RtpAssumption DEF TypeOK
<1> QED
  BY <1>1, <1>2, <1>4, <1>5

(* A playback that takes its lost lease for a delivery is right.           *)
LEMMA DeliveryIsTrue ==
  ASSUME IInv, NEW p \in Player, player[p].at = "recheck", player[p].stage = "drain",
         player[p].outcome = "none", ~IsTripped(player[p].gen)
  PROVE  /\ player[p].gen \in answered \/ player[p].gen < next
         /\ player[p].gen \notin broken \/ player[p].gen + RingSize <= next
<1>1. player[p].gen \in broken => player[p].gen + RingSize <= next
  BY RingForgets DEF IInv
<1>2. /\ player[p].gen \in Nat /\ next \in Nat /\ RingSize \in Nat /\ RingSize > 0
      /\ player[p].gen <= next /\ player[p].gen # None
  BY RtpAssumption DEF IInv, TypeOK, Generations
<1>3. player[p].gen = next => next \in answered \cup broken
  BY <1>2 DEF IInv, Lost, LossesExplained, GaveUp
<1> QED
  BY <1>1, <1>2, <1>3

LEMMA QuietKeeps ==
  ASSUME IInv, NEW p \in Player, QuietNext(p)
  PROVE  IInv'
<1>1. Quiet(p) /\ Placed(p)' /\ QuietMeaning(p)
  BY QuietSteps, QuietEffect DEF IInv
<1>2. UNCHANGED <<next, active, ready, queue, turn, ring, tracker, worker, answered, broken>>
  BY <1>1 DEF Quiet, sharedVars, workerVars
<1>3. \A q \in Player : q # p => player'[q] = player[q]
  BY <1>1 DEF Quiet
<1>4. player'[p].gen = player[p].gen
  BY <1>1 DEF Quiet
<1>5. TypeOK'
  BY <1>1, <1>2 DEF Quiet, IInv, TypeOK
<1>6. Generations'
  <2>1. player'[p].stage # "new" /\ player[p].stage # "new"
    BY <1>1 DEF QuietMeaning
  <2> QED
    BY <1>2, <1>3, <1>4, <2>1 DEF IInv, Generations
<1>7. Places'
  BY <1>1, <1>3 DEF IInv, Places, Placed
<1>8. SendsNewest'
  BY <1>2 DEF IInv, SendsNewest, Sending, Cmd
<1>9. CommandsKnown'
  <2>1. player'[p].stage \in Early => player[p].stage \in Early
    BY <1>1 DEF QuietMeaning
  <2>2. \A g : Known(g) => Known(g)'
    BY <1>2, <1>3, <1>4, <2>1 DEF Known
  <2> QED
    BY <1>2, <2>2 DEF IInv, CommandsKnown, Cmd
<1>10. ReadyFollows'
  <2>1. Prepared(active) => Prepared(active)'
    BY <1>2 DEF Prepared, IsReset, IsFrame, Cmd
  <2>2. player'[p].gen = active /\ player'[p].stage \notin Early => player[p].stage \notin Early
    BY <1>1, <1>4 DEF QuietMeaning
  <2> QED
    BY <1>2, <1>3, <1>4, <2>1, <2>2 DEF IInv, ReadyFollows
<1>11. Lost'
  BY <1>1, <1>2, <1>3, <1>4 DEF IInv, Lost, QuietMeaning, Cmd
<1>12. RingAscends'
  BY <1>2 DEF IInv, RingAscends, Cmd
<1>13. LossesExplained'
  <2>1. \A q \in Player : q # p => (GaveUp(q) <=> GaveUp(q)')
    BY <1>3 DEF GaveUp
  <2>2. player[p].gen = next /\ next # None /\ active # next =>
          (GaveUp(p) => GaveUp(p)')
    BY <1>1 DEF QuietMeaning
  <2> QED
    BY <1>2, <1>3, <1>4, <2>1, <2>2 DEF IInv, LossesExplained
<1>14. DeliveredIsAnswered'
  <2>1. player'[p].outcome = "delivered" =>
          /\ player[p].gen \in answered \/ player[p].gen < next
          /\ player[p].gen \notin broken \/ player[p].gen + RingSize <= next
    BY <1>1, DeliveryIsTrue DEF QuietMeaning
  <2> QED
    BY <1>2, <1>3, <1>4, <2>1 DEF IInv, DeliveredIsAnswered
<1> QED
  BY <1>5, <1>6, <1>7, <1>8, <1>9, <1>10, <1>11, <1>12, <1>13, <1>14 DEF IInv

-----------------------------------------------------------------------------
(* A claim makes a generation that nothing in the output knows yet.        *)
LEMMA AcquireKeeps ==
  ASSUME IInv, NEW p \in Player, Acquire(p)
  PROVE  IInv'
<1>1. /\ next' = next + 1 /\ active' = next + 1 /\ ~Sending /\ player[p].stage = "new"
      /\ UNCHANGED <<ready, queue, turn, ring, tracker, worker, answered, broken, loop>>
  BY DEF Acquire, workerVars
<1>2. /\ player \in [Player -> [stage : Stage, at : Spot, gen : Nat, frame : 0 .. Frames,
                                outcome : Outcome]]
      /\ next \in Nat
  BY DEF IInv, TypeOK
<1>3. player'[p] = [player[p] EXCEPT !.stage = "claimed", !.gen = next + 1]
  BY <1>2 DEF Acquire
<1>4. /\ player'[p].stage = "claimed" /\ player'[p].gen = next + 1 /\ player'[p].at = "rest"
      /\ player'[p].outcome = "none" /\ player'[p].frame < Frames
  BY <1>1, <1>2, <1>3 DEF IInv, Places, Placed
<1>5. \A q \in Player : q # p => player'[q] = player[q]
  BY <1>2 DEF Acquire
<1>6. \A q \in Player : player[q].gen \in Nat /\ player[q].gen <= next
  BY <1>2 DEF IInv, Generations
<1>7. TypeOK'
  <2>1. "claimed" \in Stage
    BY DEF Stage
  <2>0. next + 1 \in Nat
    BY <1>2
  <2>2. player' \in [Player -> [stage : Stage, at : Spot, gen : Nat, frame : 0 .. Frames,
                                outcome : Outcome]]
    BY <1>2, <2>0, <2>1 DEF Acquire
  <2> QED
    BY <1>1, <1>2, <2>2 DEF IInv, TypeOK
<1>8. Generations'
  BY <1>1, <1>2, <1>4, <1>5, <1>6 DEF IInv, Generations, None
<1>9. Places'
  BY <1>4, <1>5 DEF IInv, Places, Placed
<1>10. SendsNewest'
  BY <1>1 DEF SendsNewest, Sending
<1>11. CommandsKnown'
  <2>1. \A g \in Nat : Known(g) => Known(g)'
    BY <1>1, <1>2, <1>4, <1>5 DEF Known
  <2>2. /\ \A n \in DOMAIN queue : queue[n].gen \in Nat
        /\ Cmd.gen \in Nat /\ ready \in Nat
    BY DEF IInv, TypeOK, Command, Cmd
  <2> QED
    BY <1>1, <2>1, <2>2 DEF IInv, CommandsKnown, Cmd
<1>12. ReadyFollows'
  BY <1>1, <1>2, <1>4, <1>5, <1>6 DEF ReadyFollows, Early
<1>13. Lost'
  <2>1. worker.at = "drop" => Cmd.gen \in Nat /\ Cmd.gen <= next
    BY DEF IInv, CommandsKnown, Known, TypeOK, Command, Cmd
  <2> QED
    BY <1>1, <1>2, <1>4, <1>5, <1>6, <2>1 DEF Lost, Cmd
<1>14. RingAscends'
  <2>1. \A i \in DOMAIN ring : ring[i] \in Nat
    BY DEF IInv, TypeOK
  <2>2. \A i \in DOMAIN ring : ring[i] <= next + 1 /\ ring[i] # next + 1
    BY <1>2, <2>1 DEF IInv, RingAscends
  <2> QED
    BY <1>1, <2>2 DEF IInv, RingAscends, Cmd
<1>15. LossesExplained'
  BY <1>1 DEF LossesExplained
<1>16. DeliveredIsAnswered'
  <2>1. RingSize \in Nat
    BY RtpAssumption
  <2> QED
    BY <1>1, <1>2, <1>4, <1>5, <1>6, <2>1 DEF IInv, DeliveredIsAnswered
<1> QED
  BY <1>7, <1>8, <1>9, <1>10, <1>11, <1>12, <1>13, <1>14, <1>15, <1>16 DEF IInv

\* What the types say of the records, without the queue and the ring.
PlayerType ==
  player \in [Player -> [stage : Stage, at : Spot, gen : Nat, frame : 0 .. Frames,
                         outcome : Outcome]]

(* A superseded claim leaves the queue alone; a current one drops commands *)
(* of other generations only.                                              *)
LEMMA PurgeOthersKeeps ==
  ASSUME IInv, NEW p \in Player, PurgeOthers(p)
  PROVE  IInv'
<1>1. /\ UNCHANGED <<next, active, turn, ring, tracker, worker, answered, broken, loop>>
      /\ player[p].stage = "claimed"
      /\ player' = [player EXCEPT ![p].stage = "reset"]
      /\ \/ IsCurrent(player[p].gen) /\ ready' = None /\ queue' = Only(player[p].gen)
         \/ UNCHANGED <<ready, queue>>
  BY DEF PurgeOthers, workerVars
<1>2. PlayerType /\ player[p].at = "rest" /\ player[p].outcome = "none" /\ player[p].gen # None
  BY <1>1 DEF IInv, TypeOK, PlayerType, Places, Placed, Generations
<1>3. /\ player'[p] = [player[p] EXCEPT !.stage = "reset"]
      /\ \A q \in Player : q # p => player'[q] = player[q]
  BY <1>1, <1>2 DEF PlayerType
<1>4. \A q \in Player : /\ player'[q].gen = player[q].gen /\ player'[q].at = player[q].at
                        /\ player'[q].outcome = player[q].outcome
                        /\ player'[q].frame = player[q].frame
                        /\ player'[q].stage \in Early <=> player[q].stage \in Early
                        /\ q # p => player'[q].stage = player[q].stage
  BY <1>1, <1>2, <1>3 DEF PlayerType, Early
<1>5. player'[p].stage = "reset"
  BY <1>2, <1>3 DEF PlayerType
<1>6. /\ DOMAIN queue' \subseteq DOMAIN queue
      /\ \A n \in DOMAIN queue' : queue'[n] = queue[n]
  <2>1. /\ DOMAIN Only(player[p].gen) \subseteq DOMAIN queue
        /\ \A n \in DOMAIN Only(player[p].gen) : Only(player[p].gen)[n] = queue[n]
    BY Purged
  <2>2. CASE queue' = Only(player[p].gen)
    BY <2>1, <2>2
  <2>3. CASE queue' = queue
    BY <2>3
  <2> QED
    BY <1>1, <2>2, <2>3
<1>7. TypeOK'
  <2>1. PlayerType'
    BY <1>1, <1>2 DEF PlayerType, Stage
  <2>2. Cardinality(DOMAIN queue') <= QueueCapacity
    BY <1>6, QueueShrinks DEF IInv
  <2> QED
    BY <1>1, <1>6, <2>1, <2>2 DEF IInv, TypeOK, PlayerType, None
<1>8. Generations'
  BY <1>1, <1>4, <1>5 DEF IInv, Generations
<1>9. Places'
  BY <1>1, <1>2, <1>4, <1>5 DEF IInv, Places, Placed
<1>10. SendsNewest'
  BY <1>1 DEF IInv, SendsNewest, Sending, Cmd
<1>11. CommandsKnown'
  <2>1. \A g : Known(g) => Known(g)'
    BY <1>1, <1>4 DEF Known
  <2> QED
    BY <1>1, <1>6, <2>1 DEF IInv, CommandsKnown, Cmd
<1>12. ReadyFollows'
  <2> SUFFICES ASSUME NEW q \in Player, player[q].gen = active, player[q].stage \notin Early
               PROVE  Prepared(active)'
    BY <1>1, <1>4 DEF ReadyFollows
  <2>1. ~IsCurrent(player[p].gen)
    BY <1>1 DEF IInv, Generations, IsCurrent, Early
  <2>2. Prepared(active)
    BY DEF IInv, ReadyFollows
  <2> QED
    BY <1>1, <2>1, <2>2 DEF Prepared, IsReset, IsFrame, Cmd
<1>13. Lost'
  BY <1>1, <1>4 DEF IInv, Lost, Cmd
<1>14. RingAscends'
  BY <1>1 DEF IInv, RingAscends, Cmd
<1>15. LossesExplained'
  <2>1. \A q \in Player : GaveUp(q) => GaveUp(q)'
    BY <1>1, <1>2, <1>4 DEF GaveUp
  <2> QED
    BY <1>1, <1>4, <2>1 DEF IInv, LossesExplained
<1>16. DeliveredIsAnswered'
  BY <1>1, <1>4 DEF IInv, DeliveredIsAnswered
<1> QED
  BY <1>7, <1>8, <1>9, <1>10, <1>11, <1>12, <1>13, <1>14, <1>15, <1>16 DEF IInv

(* A release clears the active generation only if it is its own.           *)
LEMMA ReleaseKeeps ==
  ASSUME IInv, NEW p \in Player, Release(p)
  PROVE  IInv'
<1>1. /\ UNCHANGED <<next, ready, queue, turn, ring, tracker, worker, answered, broken, loop>>
      /\ player[p].at = "release"
      /\ active' = Cleared(active, player[p].gen)
      /\ player' = [player EXCEPT ![p].at = "purge"]
  BY DEF Release, workerVars
<1>2. PlayerType /\ player[p].stage \notin {"new", "claimed", "done"} /\ player[p].gen # None
  BY <1>1 DEF IInv, TypeOK, PlayerType, Places, Placed, Generations
<1>3. \A q \in Player : /\ player'[q].gen = player[q].gen /\ player'[q].stage = player[q].stage
                        /\ player'[q].outcome = player[q].outcome
                        /\ player'[q].frame = player[q].frame
                        /\ q # p => player'[q].at = player[q].at
  BY <1>1, <1>2 DEF PlayerType
<1>4. player'[p].at = "purge"
  BY <1>1, <1>2 DEF PlayerType
<1>5. /\ active' \in {None, active} /\ active' # player[p].gen
      /\ active # None /\ active' = None => player[p].gen = active
  BY <1>1, <1>2, ClearedValue
<1>6. \A q \in Player : player[q].stage # "new" => player[q].gen # None
  BY DEF IInv, Generations
<1>7. TypeOK'
  <2>1. PlayerType'
    BY <1>1, <1>2 DEF PlayerType, Spot
  <2> QED
    BY <1>1, <1>5, <2>1 DEF IInv, TypeOK, PlayerType, None
<1>8. Generations'
  BY <1>1, <1>3, <1>5 DEF IInv, Generations
<1>9. Places'
  BY <1>1, <1>2, <1>3, <1>4 DEF IInv, Places, Placed
<1>10. SendsNewest'
  BY <1>1 DEF IInv, SendsNewest, Sending, Cmd
<1>11. CommandsKnown'
  <2>1. \A g : Known(g) => Known(g)'
    BY <1>1, <1>3 DEF Known
  <2> QED
    BY <1>1, <2>1 DEF IInv, CommandsKnown, Cmd
<1>12. ReadyFollows'
  <2> SUFFICES ASSUME NEW q \in Player, player[q].gen = active', player[q].stage \notin Early
               PROVE  Prepared(active)'
    BY <1>3 DEF ReadyFollows
  <2>1. active' = active
    BY <1>5, <1>6 DEF Early
  <2>2. Prepared(active)
    BY <2>1 DEF IInv, ReadyFollows
  <2> QED
    BY <1>1, <2>1, <2>2 DEF Prepared, IsReset, IsFrame, Cmd
<1>13. Lost'
  <2>1. \A q \in Player :
          player[q].at \in {"recheck", "purge"} \/ player[q].outcome = "delivered"
            => player[q].gen # None
    BY <1>6 DEF IInv, Places, Placed
  <2>2. worker.at = "drop" => Cmd.gen # None
    BY DEF IInv, CommandsKnown, Known, None
  <2>3. \A q \in Player :
          player'[q].at \in {"recheck", "purge"} \/ player'[q].outcome = "delivered"
            => player'[q].gen # active'
    BY <1>3, <1>4, <1>5, <2>1 DEF IInv, Lost
  <2>4. (worker.at = "drop" => Cmd.gen # active)'
    BY <1>1, <1>5, <2>2 DEF IInv, Lost, Cmd
  <2> QED
    BY <2>3, <2>4 DEF Lost
<1>14. RingAscends'
  <2>1. \A i \in DOMAIN ring : ring[i] = active' => ring[i] = active
    BY <1>5 DEF IInv, RingAscends, None
  <2>2. \A i \in DOMAIN ring : ring[i] = active' => worker.at = "break" /\ Cmd.gen = active'
    BY <1>5, <2>1 DEF IInv, RingAscends, None
  <2> QED
    BY <1>1, <2>2 DEF IInv, RingAscends, Cmd
<1>15. LossesExplained'
  <2>1. GaveUp(p)'
    BY <1>4 DEF GaveUp
  <2>2. \A q \in Player : q # p => (GaveUp(q) => GaveUp(q)')
    BY <1>3 DEF GaveUp
  <2>3. ASSUME NEW q \in Player, q # p, player[q].gen = next, next # None, active' # next
        PROVE  next \in answered \cup broken \/ GaveUp(q)'
    <3>1. active # next
      BY <1>5, <2>3 DEF IInv, Generations
    <3> QED
      BY <2>2, <2>3, <3>1 DEF IInv, LossesExplained
  <2> QED
    BY <1>1, <1>3, <2>1, <2>3 DEF LossesExplained
<1>16. DeliveredIsAnswered'
  BY <1>1, <1>3 DEF IInv, DeliveredIsAnswered
<1> QED
  BY <1>7, <1>8, <1>9, <1>10, <1>11, <1>12, <1>13, <1>14, <1>15, <1>16 DEF IInv

(* A purge after the release drops commands of the released generation,    *)
(* which is not the active one any more.                                   *)
LEMMA PurgeKeeps ==
  ASSUME IInv, NEW p \in Player, Purge(p)
  PROVE  IInv'
<1>1. /\ UNCHANGED <<next, active, turn, ring, tracker, worker, answered, broken>>
      /\ player[p].at = "purge" /\ loop' = loop \ {p}
      /\ ready' = Cleared(ready, player[p].gen)
      /\ queue' = Without(player[p].gen)
  BY DEF Purge, Returns, workerVars
<1>2. /\ PlayerType /\ player[p].stage \notin {"new", "claimed", "done"}
      /\ player[p].gen # None /\ player[p].gen # active
      /\ player[p].outcome # "none" \/ player[p].stage \in {"reset", "prime", "skipped"}
      /\ player[p].stage \notin {"drain", "skipped", "done"} => player[p].frame < Frames
  BY <1>1 DEF IInv, TypeOK, PlayerType, Places, Placed, Generations, Lost
<1>3. PICK stage \in {"done", "skipped", "play"} :
        /\ player' = [player EXCEPT ![p].at = "rest", ![p].stage = stage]
        /\ player[p].outcome # "none" => stage = "done"
        /\ player[p].outcome = "none" => stage = IF player[p].stage = "skipped" THEN "skipped" ELSE "play"
  BY DEF Purge, Returns
<1>4. \A q \in Player : /\ player'[q].gen = player[q].gen
                        /\ player'[q].outcome = player[q].outcome
                        /\ player'[q].frame = player[q].frame
                        /\ q # p => player'[q].at = player[q].at /\ player'[q].stage = player[q].stage
  BY <1>2, <1>3 DEF PlayerType
<1>5. player'[p].at = "rest" /\ player'[p].stage = stage
  BY <1>2, <1>3 DEF PlayerType
<1>6. /\ ready' \in {None, ready} /\ (ready # player[p].gen => ready' = ready)
      /\ DOMAIN queue' = {n \in DOMAIN queue : queue[n].gen # player[p].gen}
      /\ \A n \in DOMAIN queue' : queue'[n] = queue[n]
  <2>1. /\ DOMAIN Without(player[p].gen) = {n \in DOMAIN queue : queue[n].gen # player[p].gen}
        /\ \A n \in DOMAIN Without(player[p].gen) : Without(player[p].gen)[n] = queue[n]
    BY Purged
  <2>2. Cleared(ready, player[p].gen) \in {None, ready}
        /\ (ready # player[p].gen => Cleared(ready, player[p].gen) = ready)
    BY ClearedValue
  <2> QED
    BY <1>1, <2>1, <2>2
<1>7. TypeOK'
  <2>1. PlayerType'
    BY <1>2, <1>3 DEF PlayerType, Stage, Spot
  <2>2. Cardinality(DOMAIN queue') <= QueueCapacity
    BY <1>6, QueueShrinks DEF IInv
  <2> QED
    BY <1>1, <1>6, <2>1, <2>2 DEF IInv, TypeOK, PlayerType, None
<1>8. Generations'
  <2>1. \A q \in Player : player'[q].stage = "new" <=> player[q].stage = "new"
    BY <1>2, <1>3, <1>4, <1>5
  <2> QED
    BY <1>1, <1>4, <2>1 DEF IInv, Generations
<1>9. Places'
  <2>1. Placed(p)'
    BY <1>2, <1>3, <1>4, <1>5 DEF Placed
  <2> QED
    BY <1>4, <2>1 DEF IInv, Places, Placed
<1>10. SendsNewest'
  BY <1>1 DEF IInv, SendsNewest, Sending, Cmd
<1>11. CommandsKnown'
  <2>1. \A g : Known(g) => Known(g)'
    BY <1>1, <1>3, <1>4, <1>5 DEF Known, Early
  <2> QED
    BY <1>1, <1>6, <2>1 DEF IInv, CommandsKnown, Cmd
<1>12. ReadyFollows'
  <2> SUFFICES ASSUME NEW q \in Player, player[q].gen = active, player'[q].stage \notin Early
               PROVE  Prepared(active)'
    BY <1>1, <1>4 DEF ReadyFollows
  <2>1. player[q].stage \notin Early
    BY <1>2, <1>4
  <2>2. Prepared(active)
    BY <2>1 DEF IInv, ReadyFollows
  <2>3. CASE ready = active
    BY <1>1, <1>2, <1>6, <2>3 DEF Prepared
  <2>4. CASE IsReset(Cmd, active) /\ worker.at \in {"popped", "inside", "trip", "break"}
    BY <1>1, <2>4 DEF Prepared, IsReset, Cmd
  <2>5. CASE /\ ~(IsFrame(Cmd, active) /\ worker.at \in {"popped", "inside"})
             /\ \E n \in DOMAIN queue :
                  /\ IsReset(queue[n], active)
                  /\ \A m \in DOMAIN queue : m < n => ~IsFrame(queue[m], active)
    <3>1. PICK n \in DOMAIN queue :
            /\ IsReset(queue[n], active)
            /\ \A m \in DOMAIN queue : m < n => ~IsFrame(queue[m], active)
      BY <2>5
    <3>2. n \in DOMAIN queue'
      BY <1>2, <1>6, <3>1 DEF IsReset
    <3> QED
      BY <1>1, <1>6, <2>5, <3>1, <3>2 DEF Prepared, IsReset, IsFrame, Cmd
  <2> QED
    BY <2>2, <2>3, <2>4, <2>5 DEF Prepared
<1>13. Lost'
  BY <1>1, <1>2, <1>4, <1>5 DEF IInv, Lost, Cmd
<1>14. RingAscends'
  BY <1>1 DEF IInv, RingAscends, Cmd
<1>15. LossesExplained'
  <2>1. GaveUp(p)'
    BY <1>3, <1>4, <1>5 DEF GaveUp
  <2>2. \A q \in Player : q # p => (GaveUp(q) => GaveUp(q)')
    BY <1>4 DEF GaveUp
  <2> QED
    BY <1>1, <1>4, <2>1, <2>2 DEF IInv, LossesExplained
<1>16. DeliveredIsAnswered'
  BY <1>1, <1>4 DEF IInv, DeliveredIsAnswered
<1> QED
  BY <1>7, <1>8, <1>9, <1>10, <1>11, <1>12, <1>13, <1>14, <1>15, <1>16 DEF IInv

(* A push appends a command of its playback's generation: the reset first, *)
(* before anything in the output can be of that generation.                *)
LEMMA PushKeeps ==
  ASSUME IInv, NEW p \in Player, Push(p)
  PROVE  IInv'
<1>1. /\ UNCHANGED <<next, active, ready, ring, tracker, worker, answered, broken>>
      /\ player[p].at = "push" /\ loop' = {} /\ turn' = turn + 1
      /\ Cardinality(DOMAIN queue) < QueueCapacity
  BY DEF Push, workerVars
<1>2. /\ PlayerType /\ player[p].stage \in {"reset", "prime", "play"} /\ player[p].gen # None
      /\ player[p].frame < Frames /\ player[p].outcome = "none"
  BY <1>1 DEF IInv, TypeOK, PlayerType, Places, Placed, Generations
<1>3. PICK c \in NextCommands(p) :
        /\ queue' = [n \in DOMAIN queue \cup {turn} |-> IF n = turn THEN c ELSE queue[n]]
        /\ player' = [player EXCEPT
             ![p].at = "rest",
             ![p].stage = CASE c.kind = "reset" -> "prime"
                            [] c.last -> "drain"
                            [] OTHER -> "play",
             ![p].frame = IF c.kind = "audio" THEN @ + 1 ELSE @]
  BY DEF Push
<1>4. /\ c \in Command /\ c.gen = player[p].gen
      /\ c.kind = "reset" <=> player[p].stage = "reset"
      /\ c.kind = "reset" => ~c.last
      /\ c.kind = "audio" => player[p].stage = "play" /\ (player[p].frame + 1 = Frames => c.last)
  <2>1. player[p].gen \in Nat
    BY <1>2 DEF PlayerType
  <2>2. CASE player[p].stage = "reset"
    <3>1. c = [gen |-> player[p].gen, kind |-> "reset", last |-> FALSE]
      BY <2>2 DEF NextCommands
    <3> QED
      BY <2>1, <2>2, <3>1 DEF Command
  <2>3. CASE player[p].stage = "prime"
    <3>1. c = [gen |-> player[p].gen, kind |-> "silent", last |-> FALSE]
      BY <2>3 DEF NextCommands
    <3> QED
      BY <2>1, <2>3, <3>1 DEF Command
  <2>4. CASE player[p].stage = "play"
    <3>1. NextCommands(p) = {[gen |-> player[p].gen, kind |-> "audio", last |-> l] :
                               l \in (IF player[p].frame + 1 = Frames THEN {TRUE} ELSE BOOLEAN)}
      BY <2>4 DEF NextCommands
    <3>2. PICK l \in (IF player[p].frame + 1 = Frames THEN {TRUE} ELSE BOOLEAN) :
            c = [gen |-> player[p].gen, kind |-> "audio", last |-> l]
      BY <3>1
    <3>3. l \in BOOLEAN /\ (player[p].frame + 1 = Frames => l)
      BY <3>2
    <3> QED
      BY <2>1, <2>4, <3>2, <3>3 DEF Command
  <2> QED
    BY <1>2, <2>2, <2>3, <2>4
<1>5. /\ \A q \in Player : q # p => player'[q] = player[q]
      /\ player'[p].at = "rest" /\ player'[p].gen = player[p].gen /\ player'[p].outcome = "none"
  BY <1>2, <1>3 DEF PlayerType
<1>6. player'[p].stage = IF c.kind = "reset" THEN "prime" ELSE IF c.last THEN "drain" ELSE "play"
  BY <1>2, <1>3, <1>4 DEF PlayerType
<1>7. player'[p].frame \in 0 .. Frames /\ (player'[p].stage # "drain" => player'[p].frame < Frames)
  <2>1. player'[p].frame = IF c.kind = "audio" THEN player[p].frame + 1 ELSE player[p].frame
    BY <1>2, <1>3 DEF PlayerType
  <2>2. player[p].frame \in 0 .. Frames /\ Frames \in Nat
    BY <1>2, RtpAssumption DEF PlayerType
  <2> QED
    BY <1>2, <1>4, <1>6, <2>1, <2>2
<1>8. /\ turn \notin DOMAIN queue /\ turn \in Nat
      /\ DOMAIN queue' = DOMAIN queue \cup {turn}
      /\ \A n \in DOMAIN queue : queue'[n] = queue[n] /\ n < turn
      /\ queue'[turn] = c
  BY <1>3 DEF IInv, TypeOK
<1>9. TypeOK'
  <2>1. PlayerType'
    <3>1. player' \in [Player -> [stage : Stage, at : Spot, gen : Nat, frame : 0 .. Frames,
                                  outcome : Outcome]]
      <4>1. player'[p] \in [stage : Stage, at : Spot, gen : Nat, frame : 0 .. Frames,
                            outcome : Outcome]
        <5>1. player'[p] = [player[p] EXCEPT !.at = "rest", !.stage = player'[p].stage,
                                             !.frame = player'[p].frame]
          BY <1>2, <1>3 DEF PlayerType
        <5>2. player'[p].stage \in Stage /\ "rest" \in Spot
          BY <1>6 DEF Stage, Spot
        <5> QED
          BY <1>2, <1>7, <5>1, <5>2 DEF PlayerType
      <4> QED
        BY <1>2, <1>3, <1>5, <4>1 DEF PlayerType
    <3> QED
      BY <3>1 DEF PlayerType
  <2>2. Cardinality(DOMAIN queue') <= QueueCapacity
    BY <1>1, <1>8, QueueGrows DEF IInv
  <2>3. \A n \in DOMAIN queue' : queue'[n] \in Command
    BY <1>4, <1>8 DEF IInv, TypeOK
  <2>4. DOMAIN queue' \subseteq 0 .. turn' - 1
    BY <1>1, <1>8 DEF IInv, TypeOK
  <2> QED
    BY <1>1, <1>8, <2>1, <2>2, <2>3, <2>4 DEF IInv, TypeOK, PlayerType
<1>10. Generations'
  BY <1>1, <1>2, <1>5, <1>6 DEF IInv, Generations
<1>11. Places'
  BY <1>5, <1>6, <1>7 DEF IInv, Places, Placed
<1>12. SendsNewest'
  BY <1>1 DEF IInv, SendsNewest, Sending, Cmd
<1>13. CommandsKnown'
  <2>1. \A g : Known(g) => Known(g)'
    BY <1>1, <1>5, <1>6 DEF Known, Early
  <2>2. Known(c.gen)'
    BY <1>1, <1>2, <1>4, <1>5, <1>6 DEF Known, Early, IInv, Generations, PlayerType, None
  <2> QED
    BY <1>1, <1>8, <2>1, <2>2 DEF IInv, CommandsKnown, Cmd
<1>14. ReadyFollows'
  <2> SUFFICES ASSUME NEW q \in Player, player[q].gen = active, player'[q].stage \notin Early
               PROVE  Prepared(active)'
    BY <1>1, <1>5 DEF ReadyFollows
  <2>1. CASE q = p /\ player[p].stage = "reset"
    <3>1. ~Known(active)
      BY <2>1 DEF Known, Early
    <3>2. ~(IsFrame(Cmd, active) /\ worker.at \in {"popped", "inside"})
      BY <3>1 DEF IInv, CommandsKnown, IsFrame
    <3>3. \A n \in DOMAIN queue : ~IsFrame(queue[n], active)
      BY <3>1 DEF IInv, CommandsKnown, IsFrame
    <3>4. IsReset(queue'[turn], active)
      BY <1>4, <1>8, <2>1 DEF IsReset
    <3>5. \A m \in DOMAIN queue' : m < turn => ~IsFrame(queue'[m], active)
      BY <1>8, <3>3
    <3> QED
      BY <1>1, <1>8, <3>2, <3>4, <3>5 DEF Prepared, IsFrame, Cmd
  <2>2. CASE ~(q = p /\ player[p].stage = "reset")
    <3>1. player[q].stage \notin Early
      BY <1>2, <1>5, <2>2 DEF Early
    <3>2. Prepared(active)
      BY <3>1 DEF IInv, ReadyFollows
    <3>3. CASE ready = active
      BY <1>1, <3>3 DEF Prepared
    <3>4. CASE IsReset(Cmd, active) /\ worker.at \in {"popped", "inside", "trip", "break"}
      BY <1>1, <3>4 DEF Prepared, IsReset, Cmd
    <3>5. CASE /\ ~(IsFrame(Cmd, active) /\ worker.at \in {"popped", "inside"})
               /\ \E n \in DOMAIN queue :
                    /\ IsReset(queue[n], active)
                    /\ \A m \in DOMAIN queue : m < n => ~IsFrame(queue[m], active)
      <4>1. PICK n \in DOMAIN queue :
              /\ IsReset(queue[n], active)
              /\ \A m \in DOMAIN queue : m < n => ~IsFrame(queue[m], active)
        BY <3>5
      <4>2. n \in DOMAIN queue' /\ IsReset(queue'[n], active)
        BY <1>8, <4>1
      <4>3. ~(turn < n)
        BY <1>8, <4>1 DEF IInv, TypeOK
      <4>4. \A m \in DOMAIN queue' : m < n => ~IsFrame(queue'[m], active)
        BY <1>8, <4>1, <4>3
      <4> QED
        BY <1>1, <3>5, <4>2, <4>4 DEF Prepared, IsReset, IsFrame, Cmd
    <3> QED
      BY <3>2, <3>3, <3>4, <3>5 DEF Prepared
  <2> QED
    BY <2>1, <2>2
<1>15. Lost'
  BY <1>1, <1>5 DEF IInv, Lost, Cmd
<1>16. RingAscends'
  BY <1>1 DEF IInv, RingAscends, Cmd
<1>17. LossesExplained'
  <2>1. ~GaveUp(p)
    BY <1>1, <1>2 DEF GaveUp
  <2>2. \A q \in Player : q # p => (GaveUp(q) => GaveUp(q)')
    BY <1>5 DEF GaveUp
  <2> QED
    BY <1>1, <1>5, <2>1, <2>2 DEF IInv, LossesExplained
<1>18. DeliveredIsAnswered'
  BY <1>1, <1>2, <1>5 DEF IInv, DeliveredIsAnswered
<1> QED
  BY <1>9, <1>10, <1>11, <1>12, <1>13, <1>14, <1>15, <1>16, <1>17, <1>18 DEF IInv

-----------------------------------------------------------------------------
(***************************************************************************)
(* The worker's steps leave the playbacks alone and take the lease from    *)
(* nobody but the owner of its command.                                    *)
(***************************************************************************)
LEMMA WorkerFrame ==
  ASSUME IInv, WorkerNext
  PROVE  /\ UNCHANGED <<next, turn, player, loop>>
         /\ active' \in {None, active}
         /\ answered \subseteq answered' /\ broken \subseteq broken'
         /\ broken' \subseteq broken \cup ({active} \ {None})
         /\ (active' # active => Cmd.gen = active /\ active \in answered' \cup broken')
  BY ClearedValue
  DEF WorkerNext, Pop, Enter, Discard, Reset, ResetThrows, SendSucceeds, SendFails, Publish,
      Break, Drop, Acknowledge, WorkerRest, IInv, CommandsKnown, Known, Cmd, None

LEMMA WorkerKeepsPlayers ==
  ASSUME IInv, WorkerNext
  PROVE  /\ Generations' /\ Places' /\ LossesExplained' /\ DeliveredIsAnswered'
         /\ \A g : Known(g) => Known(g)'
         /\ \A p \in Player :
              player[p].at \in {"recheck", "purge"} \/ player[p].outcome = "delivered"
                => player[p].gen # active'
<1>1. /\ UNCHANGED <<next, turn, player, loop>> /\ active' \in {None, active}
      /\ answered \subseteq answered' /\ broken \subseteq broken'
      /\ broken' \subseteq broken \cup ({active} \ {None})
      /\ (active' # active => active \in answered' \cup broken')
  BY WorkerFrame
<1>2. Generations' /\ Places'
  BY <1>1 DEF IInv, Generations, Places, Placed
<1>3. \A g : Known(g) => Known(g)'
  BY <1>1 DEF Known
<1>4. \A p \in Player : GaveUp(p) <=> GaveUp(p)'
  BY <1>1 DEF GaveUp
<1>5. LossesExplained'
  <2> SUFFICES ASSUME NEW p \in Player, player[p].gen = next, next # None, active' # next
               PROVE  next \in answered' \cup broken' \/ GaveUp(p)
    BY <1>1, <1>4 DEF LossesExplained
  <2>1. CASE active = next
    BY <1>1, <2>1
  <2>2. CASE active # next
    BY <1>1, <2>2 DEF IInv, LossesExplained
  <2> QED
    BY <2>1, <2>2
<1>6. DeliveredIsAnswered'
  <2> SUFFICES ASSUME NEW p \in Player, player[p].outcome = "delivered"
               PROVE  /\ player[p].gen \in answered' \/ player[p].gen < next
                      /\ player[p].gen \notin broken' \/ player[p].gen + RingSize <= next
    BY <1>1 DEF DeliveredIsAnswered
  <2>1. player[p].gen # active
    BY DEF IInv, Lost
  <2> QED
    BY <1>1, <2>1 DEF IInv, DeliveredIsAnswered
<1>7. ASSUME NEW p \in Player,
             player[p].at \in {"recheck", "purge"} \/ player[p].outcome = "delivered"
      PROVE  player[p].gen # active'
  <2>1. player[p].gen # active /\ player[p].stage # "new"
    BY <1>7 DEF IInv, Lost, Places, Placed
  <2>2. player[p].gen # None
    BY <2>1 DEF IInv, Generations
  <2> QED
    BY <1>1, <2>1, <2>2
<1> QED
  BY <1>2, <1>3, <1>5, <1>6, <1>7

\* What is left to show of a step of the worker.
WorkerInv == TypeOK /\ SendsNewest /\ CommandsKnown /\ ReadyFollows /\ RingAscends

LEMMA WorkerKeeps ==
  ASSUME IInv, WorkerNext, WorkerInv', (worker.at = "drop" => Cmd.gen # active)'
  PROVE  IInv'
<1>1. UNCHANGED player
  BY WorkerFrame
<1>2. Lost'
  BY <1>1, WorkerKeepsPlayers DEF Lost
<1> QED
  BY <1>2, WorkerKeepsPlayers DEF IInv, WorkerInv

(* The readiness of the active generation is looked at for one owner.      *)
LEMMA ReadyStep ==
  ASSUME IInv, WorkerNext,
         active' = active /\ active = next /\ active # None =>
           (Prepared(active) => Prepared(active)')
  PROVE  ReadyFollows'
<1>1. UNCHANGED player /\ active' \in {None, active}
  BY WorkerFrame
<1> SUFFICES ASSUME NEW p \in Player, player[p].gen = active', player[p].stage \notin Early
             PROVE  Prepared(active)'
  BY <1>1 DEF ReadyFollows
<1>2. active' = active /\ active = next /\ active # None
  BY <1>1 DEF IInv, Generations, Early
<1> QED
  BY <1>2 DEF IInv, ReadyFollows

LEMMA PopKeeps ==
  ASSUME IInv, Pop
  PROVE  IInv'
<1>1. WorkerNext
  BY DEF WorkerNext
<1>2. PICK n \in DOMAIN queue :
        /\ \A m \in DOMAIN queue : n <= m
        /\ worker' = [at |-> "popped", cmd |-> queue[n]]
        /\ queue' = Restrict(queue, DOMAIN queue \ {n})
  BY DEF Pop
<1>3. /\ UNCHANGED <<next, turn, player, loop, active, ready, ring, tracker, answered, broken>>
      /\ worker.at = "idle" /\ worker'.at = "popped" /\ worker'.cmd = queue[n]
  BY <1>2 DEF Pop, WorkerRest
<1>4. /\ DOMAIN queue' = DOMAIN queue \ {n}
      /\ \A m \in DOMAIN queue' : queue'[m] = queue[m]
  BY <1>2 DEF Restrict
<1>5. TypeOK'
  <2>1. Cardinality(DOMAIN queue') <= QueueCapacity
    BY <1>4, QueueShrinks DEF IInv
  <2>2. worker' \in [at : Place, cmd : Command]
    BY <1>2 DEF IInv, TypeOK, Place
  <2> QED
    BY <1>3, <1>4, <2>1, <2>2 DEF IInv, TypeOK
<1>6. SendsNewest'
  BY <1>3 DEF SendsNewest, Sending
<1>7. CommandsKnown'
  BY <1>1, <1>3, <1>4, WorkerKeepsPlayers DEF IInv, CommandsKnown, Cmd
<1>8. ReadyFollows'
  <2> SUFFICES ASSUME Prepared(active) PROVE Prepared(active)'
    BY <1>1, ReadyStep
  <2>1. CASE ready = active
    BY <1>3, <2>1 DEF Prepared
  <2>2. CASE \E k \in DOMAIN queue :
               /\ IsReset(queue[k], active)
               /\ \A m \in DOMAIN queue : m < k => ~IsFrame(queue[m], active)
    <3>1. PICK k \in DOMAIN queue :
            /\ IsReset(queue[k], active)
            /\ \A m \in DOMAIN queue : m < k => ~IsFrame(queue[m], active)
      BY <2>2
    <3>2. CASE k = n
      BY <1>3, <3>1, <3>2 DEF Prepared, IsReset, Cmd
    <3>3. CASE k # n
      <4>1. n < k
        BY <1>2, <3>1, <3>3 DEF IInv, TypeOK
      <4>2. ~IsFrame(queue[n], active)
        BY <3>1, <4>1
      <4>3. k \in DOMAIN queue' /\ IsReset(queue'[k], active)
        BY <1>4, <3>1, <3>3
      <4>4. \A m \in DOMAIN queue' : m < k => ~IsFrame(queue'[m], active)
        BY <1>4, <3>1
      <4> QED
        BY <1>3, <4>2, <4>3, <4>4 DEF Prepared, IsFrame, Cmd
    <3> QED
      BY <3>2, <3>3
  <2> QED
    BY <1>3, <2>1, <2>2 DEF Prepared
<1>9. RingAscends'
  BY <1>3 DEF IInv, RingAscends
<1> QED
  BY <1>1, <1>3, <1>5, <1>6, <1>7, <1>8, <1>9, WorkerKeeps DEF WorkerInv

\* A worker's step that leaves the queue as it is.
LEMMA SamePlan ==
  ASSUME IInv, WorkerNext, UNCHANGED <<queue, turn>>,
         \/ active' # active
         \/ ready = active /\ ready' = active
         \/ IsReset(Cmd, active) /\ ready' = active
         \/ /\ IsReset(Cmd, active)
            /\ worker' = [worker EXCEPT !.at = worker'.at]
            /\ worker'.at \in {"popped", "inside", "trip", "break"}
         \/ /\ ready' = ready \/ ready # active
            /\ worker' = [worker EXCEPT !.at = worker'.at]
            /\ IsReset(Cmd, active) /\ worker.at \in {"popped", "inside", "trip", "break"}
                 => worker'.at \in {"popped", "inside", "trip", "break"}
            /\ IsFrame(Cmd, active) /\ worker'.at \in {"popped", "inside"}
                 => worker.at \in {"popped", "inside"}
  PROVE  ReadyFollows'
<1> SUFFICES ASSUME active' = active, Prepared(active) PROVE Prepared(active)'
  BY ReadyStep
<1>1. worker \in [at : Place, cmd : Command]
  BY DEF IInv, TypeOK
<1> QED
  BY <1>1 DEF Prepared, IsReset, IsFrame, Cmd

\* What moving to a place does to the worker.
LEMMA MovesTo ==
  ASSUME TypeOK, NEW place \in Place, Moves(place)
  PROVE  /\ worker' \in [at : Place, cmd : Command]
         /\ worker'.at = place /\ worker'.cmd = worker.cmd
         /\ worker' = [worker EXCEPT !.at = worker'.at]
  BY DEF TypeOK, Moves

LEMMA EnterKeeps ==
  ASSUME IInv, Enter
  PROVE  IInv'
<1>1. WorkerNext
  BY DEF WorkerNext
<1>2. /\ UNCHANGED <<next, turn, player, loop, active, queue, ring, tracker, answered, broken>>
      /\ worker.at = "popped" /\ Moves("inside") /\ IsCurrent(Cmd.gen)
      /\ ready' = IF Cmd.kind = "reset" THEN None ELSE ready
  BY DEF Enter, WorkerRest
<1>3. /\ worker' \in [at : Place, cmd : Command] /\ worker'.at = "inside"
      /\ worker'.cmd = worker.cmd /\ worker' = [worker EXCEPT !.at = worker'.at]
  BY <1>2, MovesTo DEF IInv, Place
<1>4. Cmd.gen = active /\ active = next /\ active # None
  BY <1>2 DEF IInv, Generations, IsCurrent
<1>5. TypeOK'
  BY <1>2, <1>3 DEF IInv, TypeOK, None
<1>6. SendsNewest'
  BY <1>2, <1>3, <1>4 DEF SendsNewest, Cmd
<1>7. CommandsKnown'
  BY <1>1, <1>2, <1>3, WorkerKeepsPlayers DEF IInv, CommandsKnown, Cmd
<1>8. ReadyFollows'
  <2>1. CASE Cmd.kind = "reset"
    BY <1>1, <1>2, <1>3, <1>4, <2>1, SamePlan DEF IsReset
  <2>2. CASE Cmd.kind # "reset"
    BY <1>1, <1>2, <1>3, <1>4, <2>2, SamePlan DEF IsReset
  <2> QED
    BY <2>1, <2>2
<1>9. RingAscends'
  <2>1. \A i \in DOMAIN ring : ring[i] \in Nat /\ ring[i] <= next /\ ring[i] # next
    BY <1>2, <1>4 DEF IInv, TypeOK, RingAscends
  <2>2. next \in Nat
    BY DEF IInv, TypeOK
  <2>3. \A i \in DOMAIN ring : ring[i] < next
    BY <2>1, <2>2
  <2> QED
    BY <1>2, <1>3, <1>4, <2>3 DEF IInv, RingAscends, Cmd
<1> QED
  BY <1>1, <1>3, <1>5, <1>6, <1>7, <1>8, <1>9, WorkerKeeps DEF WorkerInv

LEMMA DiscardKeeps ==
  ASSUME IInv, Discard
  PROVE  IInv'
<1>1. WorkerNext
  BY DEF WorkerNext
<1>2. /\ UNCHANGED <<next, turn, player, loop, active, ready, queue, ring, tracker, answered, broken>>
      /\ worker.at = "popped" /\ Moves("idle") /\ ~IsCurrent(Cmd.gen)
  BY DEF Discard, WorkerRest
<1>3. /\ worker' \in [at : Place, cmd : Command] /\ worker'.at = "idle"
      /\ worker'.cmd = worker.cmd /\ worker' = [worker EXCEPT !.at = worker'.at]
  BY <1>2, MovesTo DEF IInv, Place
<1>4. Cmd.gen # active
  BY <1>2 DEF IInv, CommandsKnown, Known, IsCurrent, None
<1>5. TypeOK'
  BY <1>2, <1>3 DEF IInv, TypeOK
<1>6. SendsNewest'
  BY <1>3 DEF SendsNewest, Sending
<1>7. CommandsKnown'
  BY <1>1, <1>2, <1>3, WorkerKeepsPlayers DEF IInv, CommandsKnown
<1>8. ReadyFollows'
  BY <1>1, <1>2, <1>3, <1>4, SamePlan DEF IsReset
<1>9. RingAscends'
  BY <1>2, <1>3 DEF IInv, RingAscends
<1> QED
  BY <1>1, <1>3, <1>5, <1>6, <1>7, <1>8, <1>9, WorkerKeeps DEF WorkerInv

(* The reset and the sends; the worker holds the coordinator's mutex, so   *)
(* its command is the newest generation's.                                 *)
LEMMA SendingKeeps ==
  ASSUME IInv, Reset \/ ResetThrows \/ SendSucceeds \/ SendFails
  PROVE  IInv'
<1>1. WorkerNext
  BY DEF WorkerNext
<1>2. /\ UNCHANGED <<next, turn, player, loop, active, queue, ring, answered, broken>>
      /\ worker.at = "inside"
  BY DEF Reset, ResetThrows, SendSucceeds, SendFails, WorkerRest, Sending
<1>3. PICK place \in {"idle", "trip", "acknowledge"} : Moves(place)
  BY DEF Reset, ResetThrows, SendSucceeds, SendFails, AfterSend
<1>4. /\ worker' \in [at : Place, cmd : Command] /\ worker'.at = place
      /\ worker'.cmd = worker.cmd /\ worker' = [worker EXCEPT !.at = worker'.at]
  BY <1>3, MovesTo DEF IInv, Place
<1>5. Cmd.gen = next
  BY <1>2 DEF IInv, SendsNewest, Sending
<1>6. \/ Cmd.kind = "reset" /\ place = "idle" /\ ready' = Cmd.gen
      \/ Cmd.kind = "reset" /\ place = "trip" /\ ready' = ready
      \/ Cmd.kind # "reset" /\ ready' = ready
  <2>1. CASE Reset
    <3>1. Moves("idle") /\ Cmd.kind = "reset" /\ ready' = Cmd.gen
      BY <2>1 DEF Reset
    <3> QED
      BY <1>4, <3>1, MovesTo DEF IInv, Place
  <2>2. CASE ResetThrows
    <3>1. Moves("trip") /\ Cmd.kind = "reset" /\ ready' = ready
      BY <2>2 DEF ResetThrows
    <3> QED
      BY <1>4, <3>1, MovesTo DEF IInv, Place
  <2>3. CASE SendSucceeds \/ SendFails
    BY <2>3 DEF SendSucceeds, SendFails
  <2> QED
    BY <2>1, <2>2, <2>3
<1>7. TypeOK'
  <2>1. Cmd.gen \in Nat /\ ready' \in Nat
    BY <1>6 DEF IInv, TypeOK, Command, Cmd
  <2>2. tracker' \in [gen : Nat, run : Nat, total : Nat]
    <3>1. tracker \in [gen : Nat, run : Nat, total : Nat]
      BY DEF IInv, TypeOK
    <3>2. Tracked \in [gen : Nat, run : Nat, total : Nat]
      BY <2>1, <3>1 DEF Tracked
    <3>3. CASE Reset \/ ResetThrows
      BY <2>1, <3>1, <3>3 DEF Reset, ResetThrows
    <3>4. CASE SendSucceeds
      BY <3>2, <3>4 DEF SendSucceeds
    <3>5. CASE SendFails
      <4>1. tracker' = [Tracked EXCEPT !.run = @ + 1, !.total = @ + 1]
        BY <3>5 DEF SendFails
      <4>2. Tracked.run + 1 \in Nat /\ Tracked.total + 1 \in Nat
        BY <3>2
      <4> QED
        BY <3>2, <4>1, <4>2
    <3> QED
      BY <3>3, <3>4, <3>5
  <2> QED
    BY <1>2, <1>4, <2>1, <2>2 DEF IInv, TypeOK
<1>8. SendsNewest'
  BY <1>4 DEF SendsNewest, Sending
<1>9. CommandsKnown'
  BY <1>1, <1>2, <1>4, <1>6, WorkerKeepsPlayers DEF IInv, CommandsKnown, Cmd
<1>10. ReadyFollows'
  <2>1. CASE active = None
    BY <1>2, <2>1 DEF IInv, Generations, ReadyFollows, Early
  <2>2. CASE active # None
    <3>1. Cmd.gen = active
      BY <1>5, <2>2 DEF IInv, Generations
    <3>2. CASE Cmd.kind = "reset"
      <4>1. IsReset(Cmd, active)
        BY <3>1, <3>2 DEF IsReset
      <4>2. ready' = active \/ worker'.at = "trip"
        BY <1>4, <1>6, <3>1, <3>2
      <4>3. UNCHANGED <<queue, turn>>
        BY <1>2
      <4>4. CASE ready' = active
        BY <1>1, <4>1, <4>3, <4>4, SamePlan
      <4>5. CASE worker'.at = "trip"
        <5>1. worker' = [worker EXCEPT !.at = worker'.at]
              /\ worker'.at \in {"popped", "inside", "trip", "break"}
          BY <1>4, <4>5
        <5> QED
          BY <1>1, <4>1, <4>3, <5>1, SamePlan
      <4> QED
        BY <4>2, <4>4, <4>5
    <3>3. CASE Cmd.kind # "reset"
      <4>1. ~IsReset(Cmd, active) /\ ready' = ready /\ worker'.at \notin {"popped", "inside"}
        BY <1>3, <1>4, <1>6, <3>3 DEF IsReset
      <4> QED
        BY <1>1, <1>2, <1>4, <4>1, SamePlan
    <3> QED
      BY <3>2, <3>3
  <2> QED
    BY <2>1, <2>2
<1>11. RingAscends'
  BY <1>2, <1>4 DEF IInv, RingAscends, Cmd
<1> QED
  BY <1>1, <1>4, <1>7, <1>8, <1>9, <1>10, <1>11, WorkerKeeps DEF WorkerInv

LEMMA PublishKeeps ==
  ASSUME IInv, Publish
  PROVE  IInv'
<1>1. WorkerNext
  BY DEF WorkerNext
<1>2. /\ UNCHANGED <<next, turn, player, loop, active, ready, queue, tracker, answered, broken>>
      /\ worker.at = "trip" /\ Moves("break") /\ ring' = Append(ring, Cmd.gen)
  BY DEF Publish, WorkerRest
<1>3. /\ worker' \in [at : Place, cmd : Command] /\ worker'.at = "break"
      /\ worker'.cmd = worker.cmd /\ worker' = [worker EXCEPT !.at = worker'.at]
  BY <1>2, MovesTo DEF IInv, Place
<1>4. Cmd.gen \in Nat /\ 0 < Cmd.gen /\ Cmd.gen <= next /\ ring \in Seq(Nat)
  BY <1>2 DEF IInv, CommandsKnown, Known, TypeOK, Command, Cmd
<1>5. TypeOK'
  BY <1>2, <1>3, <1>4 DEF IInv, TypeOK
<1>6. SendsNewest'
  BY <1>3 DEF SendsNewest, Sending
<1>7. CommandsKnown'
  BY <1>1, <1>2, <1>3, WorkerKeepsPlayers DEF IInv, CommandsKnown, Cmd
<1>8. ReadyFollows'
  BY <1>1, <1>2, <1>3, SamePlan
<1>9. RingAscends'
  <2> DEFINE N == Len(ring)
  <2>1. /\ N \in Nat /\ DOMAIN ring = 1 .. N /\ DOMAIN ring' = 1 .. (N + 1)
        /\ \A i \in 1 .. N : ring'[i] = ring[i] /\ ring[i] \in Nat
        /\ ring'[N + 1] = Cmd.gen
    BY <1>2, <1>4
  <2>2. \A i \in 1 .. N : ring[i] < Cmd.gen /\ 0 < ring[i] /\ ring[i] <= next /\ ring[i] # active
    BY <1>2, <2>1 DEF IInv, RingAscends
  <2>3. \A i, j \in 1 .. N : i <= j => ring[i] + (j - i) <= ring[j]
    BY <2>1 DEF IInv, RingAscends
  <2>4. \A i \in 1 .. N : ring[i] + (N + 1 - i) <= Cmd.gen
    <3> SUFFICES ASSUME NEW i \in 1 .. N PROVE ring[i] + (N + 1 - i) <= Cmd.gen
      OBVIOUS
    <3>1. N \in 1 .. N /\ i <= N
      BY <2>1
    <3>2. ring[i] + (N - i) <= ring[N] /\ ring[N] < Cmd.gen
      BY <2>2, <2>3, <3>1
    <3>3. ring[i] \in Nat /\ ring[N] \in Nat /\ i \in Nat
      BY <2>1, <3>1
    <3> QED
      BY <1>4, <2>1, <3>2, <3>3
  <2>5. \A i, j \in 1 .. (N + 1) : i <= j => ring'[i] + (j - i) <= ring'[j]
    <3> SUFFICES ASSUME NEW i \in 1 .. (N + 1), NEW j \in 1 .. (N + 1), i <= j
                 PROVE  ring'[i] + (j - i) <= ring'[j]
      OBVIOUS
    <3>1. CASE j \in 1 .. N
      BY <2>1, <2>3, <3>1
    <3>2. CASE j = N + 1 /\ i \in 1 .. N
      BY <2>1, <2>4, <3>2
    <3>3. CASE j = N + 1 /\ i = N + 1
      BY <1>4, <2>1, <3>3
    <3> QED
      BY <2>1, <3>1, <3>2, <3>3
  <2>6. \A i \in 1 .. (N + 1) : 0 < ring'[i] /\ ring'[i] <= next
                                /\ (ring'[i] = active => Cmd.gen = active)
    <3> SUFFICES ASSUME NEW i \in 1 .. (N + 1)
                 PROVE  0 < ring'[i] /\ ring'[i] <= next /\ (ring'[i] = active => Cmd.gen = active)
      OBVIOUS
    <3>1. CASE i \in 1 .. N
      BY <2>1, <2>2, <3>1
    <3>2. CASE i = N + 1
      BY <1>4, <2>1, <3>2
    <3> QED
      BY <2>1, <3>1, <3>2
  <2>7. \A g \in broken : \E i \in DOMAIN ring' : ring'[i] = g
    <3> SUFFICES ASSUME NEW g \in broken PROVE \E i \in DOMAIN ring' : ring'[i] = g
      OBVIOUS
    <3>1. PICK i \in 1 .. N : ring[i] = g
      BY <2>1 DEF IInv, RingAscends
    <3> QED
      BY <2>1, <3>1
  <2>8. N + 1 \in DOMAIN ring'
    BY <2>1
  <2> HIDE DEF N
  <2> QED
    BY <1>2, <1>3, <2>1, <2>5, <2>6, <2>7, <2>8 DEF RingAscends, Cmd
<1> QED
  BY <1>1, <1>3, <1>5, <1>6, <1>7, <1>8, <1>9, WorkerKeeps DEF WorkerInv

(* The breaker and the acknowledgment release the generation of their      *)
(* command, and no other.                                                  *)
LEMMA ReleasingKeeps ==
  ASSUME IInv, Break \/ Acknowledge
  PROVE  IInv'
<1>1. WorkerNext
  BY DEF WorkerNext
<1>2. /\ UNCHANGED <<next, turn, player, loop, queue, ring, tracker>>
      /\ active' = Cleared(active, Cmd.gen) /\ ready' = Cleared(ready, Cmd.gen)
      /\ worker.at \in {"break", "acknowledge"}
  BY DEF Break, Acknowledge, WorkerRest
<1>3. PICK place \in {"drop", "idle"} : Moves(place)
  BY DEF Break, Acknowledge
<1>4. /\ worker' \in [at : Place, cmd : Command] /\ worker'.at = place
      /\ worker'.cmd = worker.cmd /\ worker' = [worker EXCEPT !.at = worker'.at]
  BY <1>3, MovesTo DEF IInv, Place
<1>5. Cmd.gen \in Nat /\ Cmd.gen # None
  BY <1>2 DEF IInv, CommandsKnown, Known, TypeOK, Command, Cmd, None
<1>6. /\ active' \in {None, active} /\ active' # Cmd.gen
      /\ (active # Cmd.gen => active' = active)
      /\ ready' \in {None, ready} /\ (ready # Cmd.gen => ready' = ready)
  BY <1>2, <1>5, ClearedValue
<1>7. TypeOK'
  <2>1. answered' \subseteq Nat /\ broken' \subseteq Nat
    BY <1>5 DEF IInv, TypeOK, Break, Acknowledge
  <2> QED
    BY <1>2, <1>4, <1>6, <2>1 DEF IInv, TypeOK, None
<1>8. SendsNewest'
  BY <1>4 DEF SendsNewest, Sending
<1>9. CommandsKnown'
  BY <1>1, <1>2, <1>4, <1>6, WorkerKeepsPlayers DEF IInv, CommandsKnown, Cmd
<1>10. ReadyFollows'
  <2>1. CASE active = Cmd.gen
    BY <1>1, <1>2, <1>6, <2>1, SamePlan
  <2>2. CASE active # Cmd.gen
    <3>1. ~IsReset(Cmd, active) /\ ~IsFrame(Cmd, active) /\ (ready' = ready \/ ready # active)
      BY <1>6, <2>2 DEF IsReset, IsFrame
    <3> QED
      BY <1>1, <1>2, <1>4, <3>1, SamePlan
  <2> QED
    BY <2>1, <2>2
<1>11. RingAscends'
  <2>1. \A i \in DOMAIN ring : ring[i] # active'
    BY <1>6 DEF IInv, RingAscends, None
  <2>2. \A g \in broken' : \E i \in DOMAIN ring : ring[i] = g
    <3>1. CASE Break
      <4>1. broken' \subseteq broken \cup {Cmd.gen} /\ worker.at = "break"
        BY <3>1 DEF Break
      <4> QED
        BY <4>1 DEF IInv, RingAscends
    <3>2. CASE Acknowledge
      BY <3>2 DEF Acknowledge, IInv, RingAscends
    <3> QED
      BY <3>1, <3>2
  <2> QED
    BY <1>2, <1>4, <2>1, <2>2 DEF IInv, RingAscends
<1>12. (worker.at = "drop" => Cmd.gen # active)'
  BY <1>4, <1>6 DEF Cmd
<1> QED
  BY <1>1, <1>7, <1>8, <1>9, <1>10, <1>11, <1>12, WorkerKeeps DEF WorkerInv

LEMMA DropKeeps ==
  ASSUME IInv, Drop
  PROVE  IInv'
<1>1. WorkerNext
  BY DEF WorkerNext
<1>2. /\ UNCHANGED <<next, turn, player, loop, active, ready, ring, tracker, answered, broken>>
      /\ worker.at = "drop" /\ queue' = Without(Cmd.gen) /\ Moves(AfterSend)
  BY DEF Drop, WorkerRest
<1>3. AfterSend \in {"idle", "acknowledge"}
  BY DEF AfterSend
<1>4. /\ worker' \in [at : Place, cmd : Command] /\ worker'.at = AfterSend
      /\ worker'.cmd = worker.cmd
  BY <1>2, <1>3, MovesTo DEF IInv, Place
<1>5. Cmd.gen # active
  BY <1>2 DEF IInv, Lost
<1>6. /\ DOMAIN queue' = {n \in DOMAIN queue : queue[n].gen # Cmd.gen}
      /\ \A n \in DOMAIN queue' : queue'[n] = queue[n]
  <2>1. /\ DOMAIN Without(Cmd.gen) = {n \in DOMAIN queue : queue[n].gen # Cmd.gen}
        /\ \A n \in DOMAIN Without(Cmd.gen) : Without(Cmd.gen)[n] = queue[n]
    BY Purged
  <2> QED
    BY <1>2, <2>1
<1>7. TypeOK'
  <2>1. Cardinality(DOMAIN queue') <= QueueCapacity
    BY <1>6, QueueShrinks DEF IInv
  <2> QED
    BY <1>2, <1>4, <1>6, <2>1 DEF IInv, TypeOK
<1>8. SendsNewest'
  BY <1>3, <1>4 DEF SendsNewest, Sending
<1>9. CommandsKnown'
  BY <1>1, <1>2, <1>4, <1>6, WorkerKeepsPlayers DEF IInv, CommandsKnown, Cmd
<1>10. ReadyFollows'
  <2> SUFFICES ASSUME Prepared(active) PROVE Prepared(active)'
    BY <1>1, ReadyStep
  <2>1. CASE ready = active
    BY <1>2, <2>1 DEF Prepared
  <2>2. CASE ready # active
    <3>1. PICK n \in DOMAIN queue :
            /\ IsReset(queue[n], active)
            /\ \A m \in DOMAIN queue : m < n => ~IsFrame(queue[m], active)
      BY <1>5, <2>2 DEF Prepared, IsReset
    <3>2. n \in DOMAIN queue' /\ IsReset(queue'[n], active)
      BY <1>5, <1>6, <3>1 DEF IsReset
    <3>3. \A m \in DOMAIN queue' : m < n => ~IsFrame(queue'[m], active)
      BY <1>6, <3>1
    <3>4. ~IsFrame(Cmd, active)'
      BY <1>2, <1>4, <1>5 DEF IsFrame, Cmd
    <3> QED
      BY <1>2, <3>2, <3>3, <3>4 DEF Prepared
  <2> QED
    BY <2>1, <2>2
<1>11. RingAscends'
  BY <1>2, <1>3, <1>4 DEF IInv, RingAscends
<1> QED
  BY <1>1, <1>3, <1>4, <1>7, <1>8, <1>9, <1>10, <1>11, WorkerKeeps DEF WorkerInv

-----------------------------------------------------------------------------
(* The invariant holds in every reachable state.                           *)
LEMMA InitHolds == Init => IInv
<1> SUFFICES ASSUME Init PROVE IInv
  OBVIOUS
<1>1. /\ next = 0 /\ active = 0 /\ ready = 0 /\ turn = 0 /\ ring = <<>> /\ DOMAIN queue = {}
      /\ worker.at = "idle" /\ worker.cmd.gen = 0 /\ loop = {} /\ answered = {} /\ broken = {}
      /\ \A p \in Player : player[p] = [stage |-> "new", at |-> "rest", gen |-> None,
                                        frame |-> 0, outcome |-> "none"]
  BY DEF Init, None
<1>2. TypeOK
  <2>1. Cardinality(DOMAIN queue) <= QueueCapacity
    BY <1>1, FS_EmptySet, RtpAssumption
  <2>2. worker \in [at : Place, cmd : Command] /\ tracker \in [gen : Nat, run : Nat, total : Nat]
    BY DEF Init, Place, Command, None
  <2>3. player \in [Player -> [stage : Stage, at : Spot, gen : Nat, frame : 0 .. Frames,
                               outcome : Outcome]]
    BY RtpAssumption DEF Init, Stage, Spot, Outcome, None
  <2> QED
    BY <1>1, <2>1, <2>2, <2>3 DEF TypeOK
<1>3. Generations /\ Places /\ SendsNewest /\ CommandsKnown
  BY <1>1, RtpAssumption DEF Generations, Places, Placed, SendsNewest, Sending, CommandsKnown, None
<1>4. ReadyFollows /\ Lost /\ RingAscends /\ LossesExplained /\ DeliveredIsAnswered
  BY <1>1 DEF ReadyFollows, Early, Lost, RingAscends, LossesExplained, DeliveredIsAnswered, None
<1> QED
  BY <1>2, <1>3, <1>4 DEF IInv

THEOREM Invariance == Spec => []IInv
<1>1. Init => IInv
  BY InitHolds
<1>2. IInv /\ [Next]_vars => IInv'
  <2> SUFFICES ASSUME IInv, [Next]_vars PROVE IInv'
    OBVIOUS
  <2>1. ASSUME NEW p \in Player, LoaderNext(p) \/ HandlerNext(p)
        PROVE  IInv'
    BY <2>1, AcquireKeeps, PurgeOthersKeeps, PushKeeps, ReleaseKeeps, PurgeKeeps, QuietKeeps
    DEF LoaderNext, HandlerNext, QuietNext
  <2>2. CASE WorkerNext
    BY <2>2, PopKeeps, EnterKeeps, DiscardKeeps, SendingKeeps, PublishKeeps, ReleasingKeeps,
       DropKeeps
    DEF WorkerNext
  <2>3. CASE UNCHANGED vars
    <3>1. UNCHANGED <<next, active, ready, queue, turn, ring, tracker, worker, answered, broken,
                      player, loop>>
      BY <2>3 DEF vars, sharedVars, workerVars
    <3> QED
      BY <3>1
      DEF IInv, TypeOK, Generations, Places, Placed, SendsNewest, Sending, Cmd, CommandsKnown, Known,
          ReadyFollows, Prepared, IsReset, IsFrame, Lost, RingAscends, LossesExplained, GaveUp,
          DeliveredIsAnswered
  <2> QED
    BY <2>1, <2>2, <2>3 DEF Next
<1> QED
  BY <1>1, <1>2, PTL DEF Spec

(* Type correctness of the output, for any number of playbacks: the queue  *)
(* never holds more than its capacity.                                     *)
THEOREM TypeCorrect == Spec => []TypeOK
  BY Invariance, PTL DEF IInv

(* While the worker sends, no newer generation has been claimed.           *)
THEOREM WireFollowsOwnership == Spec => []SendsNewest
  BY Invariance, PTL DEF IInv

(* The wire carries the newest owner's frames only, and only after its     *)
(* reset: the queue keeps a reset before its frames, and no purge of       *)
(* another generation takes it away.                                       *)
THEOREM SendsStayInOrder == Spec => []SendsInOrder
<1>1. IInv => SendsInOrder
  <2> SUFFICES ASSUME IInv, Sending, Cmd.kind # "reset", IsCurrent(Cmd.gen)
               PROVE  ready = Cmd.gen
    BY DEF IInv, SendsInOrder, FramesFollowReset
  <2>1. active = Cmd.gen /\ active # None
    BY DEF IsCurrent
  <2>2. PICK p \in Player : player[p].gen = active
    BY <2>1 DEF IInv, Generations
  <2>3. player[p].stage \notin Early
    BY <2>1, <2>2 DEF IInv, CommandsKnown, Known, Sending
  <2>4. Prepared(active)
    BY <2>2, <2>3 DEF IInv, ReadyFollows
  <2> QED
    BY <2>1, <2>4 DEF Prepared, IsReset, IsFrame, Sending
<1> QED
  BY <1>1, Invariance, PTL

(* A playback reported as played was dealt with by the worker or taken     *)
(* over, and the breaker did not end it unless the ring has wrapped since. *)
THEOREM DeliveriesAreAnswered == Spec => []DeliveredIsAnswered
  BY Invariance, PTL DEF IInv

(* The output is released only by a holder of the generation that owns it. *)
THEOREM ReleasesAreOwn == Spec => ReleaseIsOwn
<1> DEFINE Own == active # None /\ active' = None =>
                    \/ \E p \in Player : player[p].at = "release" /\ player[p].gen = active
                    \/ worker.at \in {"break", "acknowledge"} /\ Cmd.gen = active
<1>1. ASSUME IInv, Next PROVE Own
  <2> SUFFICES ASSUME active # None, active' = None
               PROVE  \/ \E p \in Player : player[p].at = "release" /\ player[p].gen = active
                      \/ worker.at \in {"break", "acknowledge"} /\ Cmd.gen = active
    OBVIOUS
  <2>1. ASSUME NEW p \in Player, LoaderNext(p) \/ HandlerNext(p)
        PROVE  player[p].at = "release" /\ player[p].gen = active
    <3>1. CASE Release(p)
      BY <3>1, ClearedValue DEF Release
    <3>2. CASE Acquire(p)
      BY <1>1, <3>2 DEF Acquire, IInv, TypeOK, None
    <3>3. CASE ~Release(p) /\ ~Acquire(p)
      BY <2>1, <3>3
      DEF LoaderNext, PurgeOthers, LoaderAbandons, HandlerNext, BeginPriming, BeginTick,
          BeginCompletionCheck, CheckCurrent, CheckOwned, Recheck, Enqueue, SkipTail, Push,
          PushRejected, Purge, Cancel, LoopStep, sharedVars
    <3> QED
      BY <3>1, <3>2, <3>3
  <2>2. CASE WorkerNext
    BY <2>2, ClearedValue
    DEF WorkerNext, Pop, Enter, Discard, Reset, ResetThrows, SendSucceeds, SendFails, Publish,
        Break, Drop, Acknowledge
  <2> QED
    BY <1>1, <2>1, <2>2 DEF Next
<1>2. ASSUME UNCHANGED vars PROVE Own
  BY <1>2 DEF vars, sharedVars
<1>3. IInv /\ [Next]_vars => [Own]_vars
  BY <1>1, <1>2
<1>4. Spec => [][Own]_vars
  BY <1>3, Invariance, PTL DEF Spec
<1> QED
  BY <1>4 DEF ReleaseIsOwn

-----------------------------------------------------------------------------
(* The local playback coordinator and its device: LocalAudio.              *)

-----------------------------------------------------------------------------
(* A step of one thread.                                                   *)

\* Thread t is now in state [a, g, o] and the others are where they were.
Becomes(t, a, g, o) ==
  /\ thread' \in [Thread -> ThreadState]
  /\ thread'[t].at = a /\ thread'[t].gen = g /\ thread'[t].outcome = o
  /\ \A s \in Thread \ {t} : thread'[s] = thread[s]

LocalPlaces == Working \cup {"idle", "asleep", "gone", "count", "publish", "notify", "join", "close", "down"}

LEMMA SetBecomes ==
  ASSUME thread \in [Thread -> ThreadState], NEW t \in Thread, NEW r \in ThreadState,
         thread' = [thread EXCEPT ![t] = r]
  PROVE  Becomes(t, r.at, r.gen, r.outcome)
BY DEF Becomes

LEMMA MoveBecomes ==
  ASSUME thread \in [Thread -> ThreadState], NEW t \in Thread, NEW to \in LocalPlaces, Move(t, to)
  PROVE  Becomes(t, to, thread[t].gen, thread[t].outcome)
<1>. DEFINE w == thread[t]
            new == [w EXCEPT !.at = to]
<1>1. w \in ThreadState
  OBVIOUS
<1>2. new \in ThreadState /\ new.at = to /\ new.gen = w.gen /\ new.outcome = w.outcome
  BY <1>1 DEF ThreadState, LocalPlaces
<1>3. thread' = [thread EXCEPT ![t] = new]
  BY DEF Move
<1>. HIDE DEF new
<1>. QED BY <1>2, <1>3, SetBecomes

LEMMA EndsBecomes ==
  ASSUME thread \in [Thread -> ThreadState], NEW to \in LocalPlaces, NEW o \in PlaybackOutcome, WorkerEnds(to, o)
  PROVE  Becomes(Worker, to, thread[Worker].gen, o)
<1>. DEFINE w == thread[Worker]
            new == [w EXCEPT !.at = to, !.outcome = o]
<1>1. w \in ThreadState /\ Worker \in Thread
  BY DEF Thread
<1>2. new \in ThreadState /\ new.at = to /\ new.gen = w.gen /\ new.outcome = o
  BY <1>1 DEF ThreadState, LocalPlaces
<1>3. /\ thread' \in [Thread -> ThreadState] /\ thread'[Worker] = new
      /\ \A s \in Thread \ {Worker} : thread'[s] = thread[s]
  BY <1>1, <1>2 DEF WorkerEnds
<1>. HIDE DEF new
<1>. QED BY <1>2, <1>3 DEF Becomes

LEMMA RestIsTyped ==
  /\ Idle \in ThreadState /\ Idle.at = "idle" /\ Idle.gen = 0
  /\ \A where \in LocalPlaces :
        LET r == [Idle EXCEPT !.at = where]
        IN  r \in ThreadState /\ r.at = where /\ r.gen = 0
  /\ \A g \in 0 .. MaxRequests, o \in PlaybackOutcome :
        LET r == Finishing(g, o)
        IN  r \in ThreadState /\ r.at = "count" /\ r.gen = g /\ r.outcome = o
BY LocalAudioAssumption DEF Idle, ThreadState, LocalPlaces, Finishing, PlaybackOutcome, NoRequest, LocalAudioAssumption

LEMMA NotifyMoves ==
  ASSUME LocalTypeOK, NEW t \in Client \cup {Main}, Notify(t)
  PROVE  /\ thread' \in [Thread -> ThreadState]
         /\ thread'[t].at = (IF t = Main THEN "join" ELSE "idle")
         /\ thread'[Worker].at = (IF thread[Worker].at = "asleep" THEN "idle" ELSE thread[Worker].at)
         /\ \A s \in Thread : /\ thread'[s].gen = thread[s].gen
                              /\ thread'[s].outcome = thread[s].outcome
         /\ \A s \in Thread \ {t, Worker} : thread'[s].at = thread[s].at
<1>. DEFINE w == thread[Worker]
            c == thread[t]
            woken == Woken(w)
            moved == [c EXCEPT !.at = IF t = Main THEN "join" ELSE "idle"]
<1>1. w \in ThreadState /\ c \in ThreadState /\ t # Worker /\ t \in Thread /\ Worker \in Thread
  BY LocalAudioAssumption DEF LocalTypeOK, Thread, LocalAudioAssumption
<1>2. /\ woken \in ThreadState /\ woken.gen = w.gen /\ woken.outcome = w.outcome
      /\ woken.at = IF w.at = "asleep" THEN "idle" ELSE w.at
  BY <1>1 DEF Woken, ThreadState
<1>3. /\ moved \in ThreadState /\ moved.gen = c.gen /\ moved.outcome = c.outcome
      /\ moved.at = IF t = Main THEN "join" ELSE "idle"
  BY <1>1 DEF ThreadState
<1>4. thread' = [[thread EXCEPT ![t] = moved] EXCEPT ![Worker] = woken]
  BY <1>1 DEF Notify, LocalTypeOK, ThreadState
<1>. HIDE DEF moved, woken
<1>. QED BY <1>1, <1>2, <1>3, <1>4 DEF LocalTypeOK

-----------------------------------------------------------------------------
(* What the device holds after a call, when what it held and what is       *)
(* written are of the set S.                                               *)

Filled(e, d, S) == e \in Device /\ e.open = d.open /\ e.queue \in Seq(S)

LEMMA SeqGrows ==
  ASSUME NEW S, NEW T, S \subseteq T, NEW s \in Seq(S)
  PROVE  s \in Seq(T)
<1>1. Len(s) \in Nat /\ s \in [1 .. Len(s) -> T]
  OBVIOUS
<1>. QED BY <1>1

LEMMA SilenceIsSilent ==
  ASSUME NEW n \in Nat
  PROVE  [i \in 1 .. n |-> Silence] \in Seq({Silence})
<1>1. [i \in 1 .. n |-> Silence] \in [1 .. n -> {Silence}]
  OBVIOUS
<1>. QED BY <1>1

LEMMA WritesFill ==
  ASSUME NEW S \in SUBSET (0 .. MaxRequests), NEW d \in Device, d.queue \in Seq(S),
         NEW x \in Seq(S), NEW e \in Written(d, x) \cup WriteFailed(d, x)
  PROVE  Filled(e, d, S)
<1>1. d.queue \o x \in Seq(S) /\ d.queue \o x \in Seq(0 .. MaxRequests)
  BY ConcatProperties, SeqGrows
<1>. DEFINE q == d.queue \o x
<1>2. \A h \in {"prepared", "running", "dry"} :
        LET r == [[d EXCEPT !.queue = q] EXCEPT !.hw = h]
        IN  r \in Device /\ r.open = d.open /\ r.queue = q
  BY <1>1 DEF Device
<1>. HIDE DEF q
<1>3. CASE e = d
  BY <1>3 DEF Filled
<1>4. CASE \E h \in {"prepared", "running", "dry"} : e = [[d EXCEPT !.queue = q] EXCEPT !.hw = h]
  BY <1>1, <1>2, <1>4 DEF Filled, q
<1>5. d.hw \in {"prepared", "running", "dry"}
  BY DEF Device
<1>. QED BY <1>3, <1>4, <1>5 DEF Written, WriteFailed, q

LEMMA StartsKeep ==
  ASSUME NEW S \in SUBSET (0 .. MaxRequests), NEW d \in Device, d.queue \in Seq(S),
         NEW e \in Started(d) \cup StartFailed(d)
  PROVE  Filled(e, d, S)
BY DEF Started, StartFailed, Filled, Device

LEMMA ClearEmpties ==
  ASSUME NEW S \in SUBSET (0 .. MaxRequests), NEW d \in Device
  PROVE  Filled(Clear(d), d, S)
<1>1. <<>> \in Seq(S) /\ <<>> \in Seq(0 .. MaxRequests)
  OBVIOUS
<1>. QED BY <1>1 DEF Clear, Filled, Device

LEMMA RefillFills ==
  ASSUME NEW S \in SUBSET (0 .. MaxRequests), Silence \in S, NEW d \in Device, d.queue \in Seq(S),
         NEW e \in Refill(d)
  PROVE  Filled(e, d, S)
<1>2. CASE Len(d.queue) >= KeepTarget
  BY <1>2 DEF Refill, Filled
<1>3. CASE ~(Len(d.queue) >= KeepTarget)
  <2>. DEFINE n == KeepTarget - Len(d.queue)
              x == [i \in 1 .. n |-> Silence]
  <2>1. n \in Nat
    BY <1>3, LocalAudioAssumption DEF LocalAudioAssumption, Device
  <2>2. x \in Seq({Silence})
    BY <2>1, SilenceIsSilent
  <2>3. x \in Seq(S)
    BY <2>2, SeqGrows
  <2>4. e \in Written(d, x) \cup WriteFailed(d, x)
    BY <1>3 DEF Refill
  <2>. HIDE DEF n, x
  <2>. QED BY <2>3, <2>4, WritesFill
<1>. QED BY <1>2, <1>3

LEMMA RestoredSilent ==
  ASSUME NEW d \in Device, NEW e \in Restored(d)
  PROVE  Filled(e, d, {Silence})
<1>. DEFINE x == [i \in 1 .. KeepTarget |-> Silence]
            c == Clear(d)
<1>1. {Silence} \in SUBSET (0 .. MaxRequests) /\ x \in Seq({Silence})
  BY LocalAudioAssumption, SilenceIsSilent DEF Silence, LocalAudioAssumption
<1>2. Filled(c, d, {Silence})
  BY <1>1, ClearEmpties
<1>3. e \in WriteFailed(c, x) \cup UNION {Started(w) \cup StartFailed(w) : w \in Written(c, x)}
  BY DEF Restored
<1>. HIDE DEF x, c
<1>4. CASE e \in WriteFailed(c, x)
  BY <1>1, <1>2, <1>4, WritesFill DEF Filled
<1>5. CASE e \notin WriteFailed(c, x)
  <2>1. PICK w \in Written(c, x) : e \in Started(w) \cup StartFailed(w)
    BY <1>3, <1>5
  <2>2. Filled(w, c, {Silence})
    BY <1>1, <1>2, <2>1, WritesFill DEF Filled
  <2>3. Filled(e, w, {Silence})
    BY <1>1, <2>1, <2>2, StartsKeep DEF Filled
  <2>. QED BY <1>2, <2>2, <2>3 DEF Filled
<1>. QED BY <1>4, <1>5

-----------------------------------------------------------------------------
(* Who is where.                                                           *)

Resting == {"idle", "asleep", "gone", "notify", "join", "close", "down"}

\* A thread has a request exactly while it works on one.
Busy == \A t \in Thread : thread[t].gen = NoRequest <=> thread[t].at \in Resting
\* Only the worker plays and sleeps, only main joins and closes.
Roles == \A t \in Thread :
  /\ thread[t].at \in Working \cup {"asleep", "gone"} => t = Worker
  /\ thread[t].at \in {"join", "close", "down"} => t = Main
\* A chunk is written only when there is one to read.
Reading == thread[Worker].at = "write" => left > 0

Typed == LocalTypeOK /\ Busy /\ Roles /\ Reading

\* The worker moves on with the request it has.
WorkerMoves(from, tos) ==
  /\ thread[Worker].at = from
  /\ \E to \in tos : Becomes(Worker, to, thread[Worker].gen, thread'[Worker].outcome)

LEMMA WorkerMovesBy ==
  ASSUME LocalTypeOK, NEW to \in LocalPlaces,
         Move(Worker, to) \/ \E o \in PlaybackOutcome : WorkerEnds(to, o)
  PROVE  Becomes(Worker, to, thread[Worker].gen, thread'[Worker].outcome)
<1>1. Worker \in Thread
  BY DEF Thread
<1>2. CASE Move(Worker, to)
  BY <1>1, <1>2, MoveBecomes DEF LocalTypeOK, Becomes
<1>3. CASE \E o \in PlaybackOutcome : WorkerEnds(to, o)
  BY <1>3, EndsBecomes DEF LocalTypeOK, Becomes
<1>. QED BY <1>2, <1>3

LEMMA WorkerTable ==
  ASSUME Typed
  PROVE  /\ Sleep => WorkerMoves("idle", {"asleep"})
         /\ Leave => WorkerMoves("idle", {"gone"})
         /\ Check => WorkerMoves("check", {"settle", "open"})
         /\ OpenFile => WorkerMoves("open", {"settle", "clear"})
         /\ ClearDevice => WorkerMoves("clear", {"feed"})
         /\ Feed => WorkerMoves("feed", {"release", "write"})
         /\ WriteChunk => WorkerMoves("write", {"release", "feed"})
         /\ TimeOut => WorkerMoves("feed", {"release"})
         /\ FinishPlayback => WorkerMoves("release", {"restore", "settle"})
         /\ Restore => WorkerMoves("restore", {"settle"})
         /\ Settle => WorkerMoves("settle", {"count"})
<1>. USE WorkerMovesBy DEF Typed, WorkerMoves
<1>1. Working \cup Resting \cup {"count"} \subseteq LocalPlaces
  BY DEF LocalPlaces, Resting
<1>2. {"Completed", "Stopped", "Failed", "TimedOut"} \subseteq PlaybackOutcome
  BY DEF PlaybackOutcome
<1>3. thread[Worker].at \in Working =>
        OutcomeFor(reason[thread[Worker].gen]) \in PlaybackOutcome /\ thread[Worker].outcome \in PlaybackOutcome
  BY DEF LocalTypeOK, Busy, OutcomeFor, PlaybackOutcome, StopReason, ThreadState, Thread, Working, Resting,
         NoRequest, Request
<1>4. Sleep => WorkerMoves("idle", {"asleep"})
  BY <1>1 DEF Sleep, Resting
<1>5. Leave => WorkerMoves("idle", {"gone"})
  BY <1>1 DEF Leave, Resting
<1>6. Check => WorkerMoves("check", {"settle", "open"})
  BY <1>1, <1>3 DEF Check, Working
<1>7. OpenFile => WorkerMoves("open", {"settle", "clear"})
  BY <1>1, <1>2 DEF OpenFile, Working
<1>8. ClearDevice => WorkerMoves("clear", {"feed"})
  BY <1>1 DEF ClearDevice, Working
<1>9. Feed => WorkerMoves("feed", {"release", "write"})
  BY <1>1, <1>2 DEF Feed, Working
<1>10. WriteChunk => WorkerMoves("write", {"release", "feed"})
  BY <1>1, <1>2 DEF WriteChunk, Working
<1>11. TimeOut => WorkerMoves("feed", {"release"})
  BY <1>1, <1>2 DEF TimeOut, Working
<1>12. FinishPlayback => WorkerMoves("release", {"restore", "settle"})
  BY <1>1 DEF FinishPlayback, Working
<1>13. Restore => WorkerMoves("restore", {"settle"})
  BY <1>1 DEF Restore, Working
<1>14. Settle => WorkerMoves("settle", {"count"})
  BY <1>1, <1>3 DEF Settle, Working
<1>. QED BY <1>4, <1>5, <1>6, <1>7, <1>8, <1>9, <1>10, <1>11, <1>12, <1>13, <1>14

\* The steps that give a thread another request, or take it away.
LEMMA HandTable ==
  ASSUME Typed
  PROVE  /\ \A t \in Client : Submit(t) =>
              /\ Becomes(t, IF pending = 0 THEN "notify" ELSE "count", pending, thread'[t].outcome)
              /\ thread[t].at = "idle"
         /\ Shutdown =>
              /\ Becomes(Main, IF pending = 0 THEN "notify" ELSE "count", pending, thread'[Main].outcome)
              /\ thread[Main].at = "idle"
         /\ Take =>
              /\ Becomes(Worker, "check", pending, "Completed")
              /\ thread[Worker].at = "idle"
         /\ \A t \in Thread : CountOutcome(t) =>
              /\ thread[t].at = "count"
              /\ IF notified[thread[t].gen]
                 THEN Becomes(t, IF t = Worker THEN "idle" ELSE "notify", 0, thread'[t].outcome)
                 ELSE Becomes(t, "publish", thread[t].gen, thread[t].outcome)
         /\ \A t \in Thread : PublishOutcome(t) =>
              /\ thread[t].at = "publish"
              /\ Becomes(t, IF t = Worker THEN "idle" ELSE "notify", 0, thread'[t].outcome)
<1>. USE SetBecomes, RestIsTyped DEF Typed, LocalTypeOK
<1>1. /\ {"idle", "notify", "count", "publish", "check"} \subseteq LocalPlaces
      /\ Main \in Thread /\ Worker \in Thread /\ Client \subseteq Thread
  BY DEF LocalPlaces, Working, Thread
<1>2. \A t \in Client : Submit(t) => 
              /\ Becomes(t, IF pending = 0 THEN "notify" ELSE "count", pending, thread'[t].outcome)
              /\ thread[t].at = "idle"
  <2>. SUFFICES ASSUME NEW t \in Client, Submit(t)
                PROVE  Becomes(t, IF pending = 0 THEN "notify" ELSE "count", pending, thread'[t].outcome)
    BY DEF Submit
  <2>1. PICK o \in PlaybackOutcome :
          thread' = [thread EXCEPT ![t] = IF pending = NoRequest THEN [Idle EXCEPT !.at = "notify"]
                                                                 ELSE Finishing(pending, o)]
    <3>. DEFINE both == reason'
    <3>1. pending # NoRequest => both[pending] \in StopReason
      BY DEF Submit, StopOf, Request, NoRequest, StopReason
    <3>2. CASE pending = NoRequest
      BY <3>2 DEF Submit, PlaybackOutcome
    <3>3. CASE pending # NoRequest
      <4>1. OutcomeFor(both[pending]) \in PlaybackOutcome
        BY <3>1, <3>3 DEF OutcomeFor, PlaybackOutcome, StopReason
      <4>2. thread' = [thread EXCEPT ![t] = Finishing(pending, OutcomeFor(reason'[pending]))]
        BY <3>3, Zenon DEF Submit
      <4>. QED BY <3>3, <4>1, <4>2
    <3>. QED BY <3>2, <3>3
  <2>2. CASE pending = 0
    BY <1>1, <2>1, <2>2 DEF NoRequest, Becomes
  <2>3. CASE pending # 0
    BY <1>1, <2>1, <2>3 DEF NoRequest, Becomes
  <2>. QED BY <2>2, <2>3
<1>3. Shutdown =>
        /\ Becomes(Main, IF pending = 0 THEN "notify" ELSE "count", pending, thread'[Main].outcome)
        /\ thread[Main].at = "idle"
  <2>. SUFFICES ASSUME Shutdown
                PROVE  Becomes(Main, IF pending = 0 THEN "notify" ELSE "count", pending, thread'[Main].outcome)
    BY DEF Shutdown
  <2>2. CASE pending = 0
    BY <1>1, <2>2 DEF NoRequest, Becomes, Shutdown
  <2>3. CASE pending # 0
    BY <1>1, <2>3 DEF NoRequest, Becomes, Shutdown, PlaybackOutcome
  <2>. QED BY <2>2, <2>3
<1>4. Take => Becomes(Worker, "check", pending, "Completed") /\ thread[Worker].at = "idle"
  <2>. SUFFICES ASSUME Take PROVE Becomes(Worker, "check", pending, "Completed")
    BY DEF Take
  <2>1. PICK r : r = [at |-> "check", gen |-> pending, outcome |-> "Completed"]
    OBVIOUS
  <2>2. r \in ThreadState /\ r.at = "check" /\ r.gen = pending /\ r.outcome = "Completed"
    BY <1>1, <2>1 DEF ThreadState, Working, PlaybackOutcome
  <2>. QED BY <1>1, <2>1, <2>2 DEF Take
<1>5. ASSUME NEW t \in Thread, CountOutcome(t)
      PROVE  IF notified[thread[t].gen]
             THEN Becomes(t, IF t = Worker THEN "idle" ELSE "notify", 0, thread'[t].outcome)
             ELSE Becomes(t, "publish", thread[t].gen, thread[t].outcome)
  <2>1. CASE notified[thread[t].gen]
    <3>1. thread' = [thread EXCEPT ![t] = [Idle EXCEPT !.at = IF t = Worker THEN "idle" ELSE "notify"]]
      BY <1>5, <2>1, Zenon DEF CountOutcome
    <3>. QED BY <1>1, <2>1, <3>1 DEF Becomes
  <2>2. CASE ~notified[thread[t].gen]
    BY <1>1, <1>5, <2>2, MoveBecomes DEF CountOutcome
  <2>. QED BY <2>1, <2>2
<1>6. ASSUME NEW t \in Thread, PublishOutcome(t)
      PROVE  Becomes(t, IF t = Worker THEN "idle" ELSE "notify", 0, thread'[t].outcome)
  BY <1>1, <1>6 DEF PublishOutcome, Becomes
<1>7. \A t \in Thread : (CountOutcome(t) => thread[t].at = "count") /\ (PublishOutcome(t) => thread[t].at = "publish")
  BY DEF CountOutcome, PublishOutcome
<1>. QED BY <1>2, <1>3, <1>4, <1>5, <1>6, <1>7

-----------------------------------------------------------------------------
(* Type correctness.                                                       *)

\* Every step is one of these.
LEMMA NextCases ==
  ASSUME [LocalNext]_localVars
  PROVE  \/ \E t \in Client : Submit(t) \/ SubmitRejected(t) \/ Notify(t)
         \/ \E t \in Thread : CountOutcome(t) \/ PublishOutcome(t)
         \/ Notify(Main)
         \/ \E g \in Request : Stop(g)
         \/ Sleep \/ Leave \/ Take \/ Check \/ OpenFile \/ ClearDevice \/ Feed \/ WriteChunk
         \/ TimeOut \/ FinishPlayback \/ Restore \/ Settle
         \/ Look \/ KeepAlive \/ KeeperLeaves \/ Drain
         \/ Shutdown \/ JoinWorker \/ CloseDevice
         \/ UNCHANGED localVars
BY Zenon DEF LocalNext, ClientStep, WorkerStep, MainStep, Thread

LEMMA MainTable ==
  ASSUME Typed
  PROVE  /\ JoinWorker => thread[Main].at = "join" /\ thread[Worker].at = "gone"
                            /\ Becomes(Main, "close", thread[Main].gen, thread[Main].outcome)
         /\ CloseDevice => thread[Main].at = "close"
                             /\ Becomes(Main, "down", thread[Main].gen, thread[Main].outcome)
<1>1. Main \in Thread /\ {"close", "down"} \subseteq LocalPlaces
  BY DEF Thread, LocalPlaces
<1>. QED BY <1>1, MoveBecomes DEF JoinWorker, CloseDevice, Typed, LocalTypeOK

ThreadsTyped == thread \in [Thread -> ThreadState] /\ Busy /\ Roles

LEMMA ThreadsStayTyped ==
  ASSUME Typed, [LocalNext]_localVars
  PROVE  ThreadsTyped'
<1>. USE DEF Typed, ThreadsTyped, Busy, Roles
<1>0. Worker \in Thread /\ Main \in Thread /\ Client \subseteq Thread /\ Worker # Main /\ Worker \notin Client
  BY LocalAudioAssumption DEF Thread, LocalAudioAssumption
<1>1. ASSUME NEW from \in Working, NEW tos \in SUBSET (Working \cup {"count"}), WorkerMoves(from, tos)
      PROVE  ThreadsTyped'
  BY <1>0, <1>1 DEF WorkerMoves, Becomes, Working, Resting
<1>2. ASSUME WorkerMoves("idle", {"asleep"}) \/ WorkerMoves("idle", {"gone"})
      PROVE  ThreadsTyped'
  BY <1>0, <1>2 DEF WorkerMoves, Becomes, Working, Resting
<1>3. CASE Sleep \/ Leave
  BY <1>2, <1>3, WorkerTable
<1>4. CASE Check \/ OpenFile \/ ClearDevice \/ Feed
  BY <1>1, <1>4, WorkerTable DEF Working
<1>4a. CASE WriteChunk \/ TimeOut \/ FinishPlayback \/ Restore \/ Settle
  BY <1>1, <1>4a, WorkerTable DEF Working
<1>5. ASSUME NEW t \in Client, Submit(t)
      PROVE  ThreadsTyped'
  BY <1>0, <1>5, HandTable DEF Becomes, Working, Resting, NoRequest
<1>6. CASE Shutdown
  BY <1>0, <1>6, HandTable DEF Becomes, Working, Resting, NoRequest
<1>7. CASE Take
  BY <1>0, <1>7, HandTable DEF Becomes, Working, Resting, NoRequest, Take
<1>8. ASSUME NEW t \in Thread, CountOutcome(t)
      PROVE  ThreadsTyped'
  <2>1. thread[t].at = "count" /\ thread[t].gen # 0
    BY <1>8, HandTable DEF Resting, NoRequest
  <2>2. CASE notified[thread[t].gen]
    BY <1>0, <1>8, <2>1, <2>2, HandTable DEF Becomes, Working, Resting, NoRequest
  <2>3. CASE ~notified[thread[t].gen]
    BY <1>0, <1>8, <2>1, <2>3, HandTable DEF Becomes, Working, Resting, NoRequest
  <2>. QED BY <2>2, <2>3
<1>9. ASSUME NEW t \in Thread, PublishOutcome(t)
      PROVE  ThreadsTyped'
  BY <1>0, <1>9, HandTable DEF Becomes, Working, Resting, NoRequest
<1>10. ASSUME NEW t \in Client \cup {Main}, Notify(t)
       PROVE  ThreadsTyped'
  <2>1. thread[t].at = "notify" /\ t # Worker
    BY <1>0, <1>10 DEF Notify
  <2>. QED BY <1>0, <1>10, <2>1, NotifyMoves DEF Working, Resting, NoRequest
<1>11. CASE JoinWorker \/ CloseDevice
  BY <1>0, <1>11, MainTable DEF Becomes, Working, Resting
<1>12. CASE thread' = thread
  BY <1>12 DEF LocalTypeOK
<1>13. /\ \A t \in Client : SubmitRejected(t) => thread' = thread
       /\ \A g \in Request : Stop(g) => thread' = thread
       /\ Look \/ KeepAlive \/ KeeperLeaves \/ Drain \/ UNCHANGED localVars => thread' = thread
  BY DEF SubmitRejected, Stop, Look, KeepAlive, KeeperLeaves, Drain, localVars
<1>. QED
  BY <1>3, <1>4, <1>4a, <1>5, <1>6, <1>7, <1>8, <1>9, <1>10, <1>11, <1>12, <1>13, NextCases

DataTyped ==
  /\ accepted \in 0 .. MaxRequests
  /\ reason \in [Request -> StopReason] /\ status \in [Request -> Status]
  /\ notified \in [Request -> BOOLEAN]
  /\ pending \in 0 .. MaxRequests /\ activeRequest \in 0 .. MaxRequests
  /\ closing \in BOOLEAN /\ count \in [Counter -> Nat]

OutputTyped ==
  /\ left \in 0 .. MaxChunks /\ playing \in BOOLEAN
  /\ device \in Device /\ keeper \in {"look", "refill", "gone"}

LEMMA CountsGrow ==
  ASSUME NEW c \in Counter, NEW n \in Nat, count \in [Counter -> Nat],
         count' = [count EXCEPT ![c] = @ + n]
  PROVE  count' \in [Counter -> Nat]
<1>1. count[c] + n \in Nat
  OBVIOUS
<1>. QED BY <1>1

LEMMA ReasonsTyped ==
  ASSUME LocalTypeOK, NEW g \in 0 .. MaxRequests, NEW why \in StopReason
  PROVE  StopOf(why, g) \in [Request -> StopReason]
BY DEF LocalTypeOK, StopOf

LEMMA DataStaysTyped ==
  ASSUME Typed, [LocalNext]_localVars
  PROVE  DataTyped'
<1>. USE LocalAudioAssumption DEF Typed, LocalTypeOK, DataTyped, LocalAudioAssumption, requests
<1>1. ASSUME NEW t \in Client, Submit(t)
      PROVE  DataTyped'
  <2>1. accepted' \in 0 .. MaxRequests /\ pending' \in 0 .. MaxRequests
    BY <1>1 DEF Submit
  <2>2. StopOf("Replaced", activeRequest) \in [Request -> StopReason]
    BY ReasonsTyped DEF StopReason
  <2>3. reason' \in [Request -> StopReason]
    BY <1>1, <2>2 DEF Submit, StopReason
  <2>4. Cardinality({h \in Request : reason[h] # reason'[h]}) \in Nat
    <3>1. IsFiniteSet(Request)
      BY FS_Interval DEF Request
    <3>. QED BY <3>1, FS_Subset, FS_CardinalityType
  <2>5. count' = [count EXCEPT !["Replaced"] = @ + Cardinality({h \in Request : reason[h] # reason'[h]})]
    BY <1>1, Zenon DEF Submit
  <2>6. count' \in [Counter -> Nat]
    BY <2>4, <2>5, CountsGrow DEF Counter
  <2>. QED BY <1>1, <2>1, <2>3, <2>6 DEF Submit
<1>2. ASSUME NEW t \in Client, SubmitRejected(t)
      PROVE  DataTyped'
  BY <1>2, CountsGrow DEF SubmitRejected, Counter
<1>3. ASSUME NEW g \in Request, Stop(g)
      PROVE  DataTyped'
  BY <1>3 DEF Stop, StopOf, StopReason, Request
<1>4. ASSUME NEW t \in Thread, CountOutcome(t)
      PROVE  DataTyped'
  <2>. DEFINE g == thread[t].gen
              o == thread[t].outcome
              c == IF o = "Shutdown" THEN "Stopped" ELSE o
  <2>1. thread[t] \in ThreadState /\ o \in PlaybackOutcome /\ c \in Counter
    BY <1>4 DEF ThreadState, PlaybackOutcome, Counter
  <2>2. count' = count \/ count' = [count EXCEPT ![c] = @ + 1]
    BY <1>4, Zenon DEF CountOutcome
  <2>3. count' \in [Counter -> Nat]
    BY <2>1, <2>2, CountsGrow
  <2>4. notified' \in [Request -> BOOLEAN]
    BY <1>4 DEF CountOutcome
  <2>. QED BY <1>4, <2>3, <2>4 DEF CountOutcome
<1>5. ASSUME NEW t \in Thread, PublishOutcome(t)
      PROVE  DataTyped'
  <2>1. thread[t] \in ThreadState /\ thread[t].outcome \in Status
    BY <1>5 DEF ThreadState, Status
  <2>. QED BY <1>5, <2>1 DEF PublishOutcome
<1>6. CASE Take
  <2>1. status' \in [Request -> Status]
    BY <1>6 DEF Take, Status
  <2>2. pending' \in 0 .. MaxRequests /\ activeRequest' \in 0 .. MaxRequests
    BY <1>6 DEF Take, NoRequest
  <2>. QED BY <1>6, <2>1, <2>2 DEF Take
<1>7. CASE Settle
  BY <1>7 DEF Settle, NoRequest
<1>8. CASE Shutdown
  <2>1. StopOf("Shutdown", activeRequest) \in [Request -> StopReason]
    BY ReasonsTyped DEF StopReason
  <2>2. reason' \in [Request -> StopReason]
    BY <1>8, <2>1 DEF Shutdown, StopReason
  <2>. QED BY <1>8, <2>2 DEF Shutdown, NoRequest
<1>9. CASE UNCHANGED <<requests, pending, activeRequest, closing, count>>
  BY <1>9
<1>10. /\ \A t \in Client \cup {Main} : Notify(t) => UNCHANGED <<requests, pending, activeRequest, closing, count>>
       /\ Sleep \/ Leave \/ Check \/ OpenFile \/ ClearDevice \/ Feed \/ WriteChunk \/ TimeOut
            \/ FinishPlayback \/ Restore => UNCHANGED <<requests, pending, activeRequest, closing, count>>
       /\ Look \/ KeepAlive \/ KeeperLeaves \/ Drain \/ JoinWorker \/ CloseDevice \/ UNCHANGED localVars
            => UNCHANGED <<requests, pending, activeRequest, closing, count>>
  BY DEF Notify, Sleep, Leave, Check, OpenFile, ClearDevice, Feed, WriteChunk, TimeOut, FinishPlayback,
         Restore, Look, KeepAlive, KeeperLeaves, Drain, JoinWorker, CloseDevice, localVars
<1>. QED
  BY <1>1, <1>2, <1>3, <1>4, <1>5, <1>6, <1>7, <1>8, <1>9, <1>10, NextCases

\* What a call leaves in the device, in words of a set that holds the rest.
LEMMA ChunkFills ==
  ASSUME Typed, WriteChunk, NEW S \in SUBSET (0 .. MaxRequests), thread[Worker].gen \in S,
         device.queue \in Seq(S)
  PROVE  Filled(device', device, S) /\ left' \in 0 .. MaxChunks
<1>. DEFINE sound == <<thread[Worker].gen>>
<1>1. device \in Device /\ sound \in Seq(S)
  BY DEF Typed, LocalTypeOK
<1>2. left > 0 /\ left \in 0 .. MaxChunks
  BY DEF Typed, LocalTypeOK, Reading, WriteChunk
<1>3. left' \in 0 .. MaxChunks
  BY <1>2, LocalAudioAssumption DEF WriteChunk, LocalAudioAssumption
<1>4. \A e \in Written(device, sound) \cup WriteFailed(device, sound) : Filled(e, device, S)
  BY <1>1, WritesFill
<1>5. ASSUME NEW e \in Written(device, sound), NEW f \in Started(e) \cup StartFailed(e)
      PROVE  Filled(f, device, S)
  <2>1. Filled(e, device, S)
    BY <1>4
  <2>2. Filled(f, e, S)
    BY <2>1, StartsKeep DEF Filled
  <2>. QED BY <2>1, <2>2 DEF Filled
<1>6. \/ device' = device
      \/ device' \in Written(device, sound) \cup WriteFailed(device, sound)
      \/ \E e \in Written(device, sound) : device' \in Started(e) \cup StartFailed(e)
  <2>. HIDE DEF sound
  <2>. QED BY Zenon DEF WriteChunk, sound
<1>. HIDE DEF sound
<1>7. CASE device' = device
  <2>1. Filled(device, device, S)
    BY <1>1 DEF Filled
  <2>. QED BY <1>3, <1>7, <2>1 DEF Filled
<1>. QED BY <1>3, <1>4, <1>5, <1>6, <1>7

LEMMA OutputStaysTyped ==
  ASSUME Typed, [LocalNext]_localVars
  PROVE  OutputTyped' /\ Reading'
<1>. USE LocalAudioAssumption DEF Typed, LocalTypeOK, OutputTyped, LocalAudioAssumption
<1>. DEFINE All == 0 .. MaxRequests
<1>1. All \in SUBSET (0 .. MaxRequests) /\ Silence \in All /\ Worker \in Thread /\ {Silence} \subseteq All
  BY DEF Silence, Thread
<1>2. device.queue \in Seq(All) /\ thread[Worker].gen \in All
  BY <1>1 DEF Device, ThreadState
<1>. HIDE DEF All
<1>3. CASE OpenFile
  <2>1. OutputTyped'
    BY <1>3 DEF OpenFile
  <2>. QED BY <1>3, <2>1, WorkerTable DEF WorkerMoves, Becomes, Reading
<1>4. CASE ClearDevice
  <2>1. device' \in Device
    BY <1>1, <1>4, ClearEmpties DEF ClearDevice, Filled
  <2>. QED BY <1>4, <2>1, WorkerTable DEF WorkerMoves, Becomes, Reading, ClearDevice
<1>5. CASE WriteChunk
  <2>1. device' \in Device /\ left' \in 0 .. MaxChunks
    BY <1>1, <1>2, <1>5, ChunkFills DEF Filled
  <2>. QED BY <1>5, <2>1, WorkerTable DEF WorkerMoves, Becomes, Reading, WriteChunk
<1>6. CASE FinishPlayback
  BY <1>6, WorkerTable DEF WorkerMoves, Becomes, Reading, FinishPlayback
<1>7. CASE Restore
  <2>1. device' \in Device
    BY <1>7, RestoredSilent DEF Restore, Filled
  <2>. QED BY <1>7, <2>1, WorkerTable DEF WorkerMoves, Becomes, Reading, Restore
<1>8. CASE Look \/ KeeperLeaves
  BY <1>8 DEF Look, KeeperLeaves, Reading
<1>9. CASE KeepAlive
  <2>1. device' \in Device
    BY <1>1, <1>2, <1>9, RefillFills DEF KeepAlive, Filled
  <2>. QED BY <1>9, <2>1 DEF KeepAlive, Reading
<1>10. CASE Drain
  <2>1. device.queue # <<>> => Tail(device.queue) \in Seq(0 .. MaxRequests)
    BY DEF Device
  <2>2. device' \in Device
    BY <1>10, <2>1 DEF Drain, Device
  <2>. QED BY <1>10, <2>2 DEF Drain, Reading
<1>11. CASE CloseDevice
  <2>1. Clear(device) \in Device
    BY <1>1, ClearEmpties DEF Filled
  <2>2. device' \in Device
    BY <1>11, <2>1 DEF CloseDevice, Device
  <2>. QED BY <1>11, <2>2, MainTable DEF CloseDevice, Becomes, Reading, Thread
<1>12. CASE Feed
  <2>1. UNCHANGED output
    BY <1>12 DEF Feed
  <2>2. thread'[Worker].at = "write" => left > 0
    <3>1. CASE left > 0
      BY <3>1
    <3>2. CASE ~(left > 0)
      <4>1. \E o \in PlaybackOutcome : WorkerEnds("release", o)
        BY <1>12, <3>2 DEF Feed, PlaybackOutcome
      <4>. QED BY <4>1, WorkerMovesBy DEF Becomes, LocalPlaces, Working
    <3>. QED BY <3>1, <3>2
  <2>. QED BY <2>1, <2>2 DEF output, Reading
<1>13. ASSUME UNCHANGED output, thread'[Worker].at = "write" => thread[Worker].at = "write"
       PROVE  OutputTyped' /\ Reading'
  BY <1>13 DEF output, Reading
<1>14. CASE Sleep \/ Leave \/ Check \/ TimeOut \/ Settle \/ Take
  <2>1. UNCHANGED output
    BY <1>14 DEF Sleep, Leave, Check, TimeOut, Settle, Take
  <2>2. thread'[Worker].at # "write"
    BY <1>14, WorkerTable, HandTable DEF WorkerMoves, Becomes
  <2>. QED BY <1>13, <2>1, <2>2
<1>15. ASSUME NEW t \in Client, Submit(t) \/ SubmitRejected(t)
       PROVE  OutputTyped' /\ Reading'
  <2>1. UNCHANGED output
    BY <1>15 DEF Submit, SubmitRejected
  <2>2. thread'[Worker] = thread[Worker]
    BY <1>1, <1>15, HandTable DEF Becomes, SubmitRejected
  <2>. QED BY <1>13, <2>1, <2>2
<1>16. ASSUME NEW t \in Thread, CountOutcome(t) \/ PublishOutcome(t)
       PROVE  OutputTyped' /\ Reading'
  <2>1. UNCHANGED output
    BY <1>16 DEF CountOutcome, PublishOutcome
  <2>2. thread'[Worker].at = "write" => thread[Worker].at = "write"
    <3>1. CASE PublishOutcome(t)
      BY <1>1, <3>1, HandTable DEF Becomes
    <3>2. CASE CountOutcome(t)
      BY <1>1, <3>2, HandTable DEF Becomes
    <3>. QED BY <1>16, <3>1, <3>2
  <2>. QED BY <1>13, <2>1, <2>2
<1>17. ASSUME NEW t \in Client \cup {Main}, Notify(t)
       PROVE  OutputTyped' /\ Reading'
  <2>1. UNCHANGED output
    BY <1>17 DEF Notify
  <2>2. thread'[Worker].at = "write" => thread[Worker].at = "write"
    BY <1>17, NotifyMoves
  <2>. QED BY <1>13, <2>1, <2>2
<1>18. CASE Shutdown \/ JoinWorker
  <2>1. UNCHANGED output
    BY <1>18 DEF Shutdown, JoinWorker
  <2>2. thread'[Worker] = thread[Worker]
    BY <1>1, <1>18, HandTable, MainTable DEF Becomes, Thread
  <2>. QED BY <1>13, <2>1, <2>2
<1>19. ASSUME NEW g \in Request, Stop(g)
       PROVE  OutputTyped' /\ Reading'
  BY <1>13, <1>19 DEF Stop
<1>20. CASE UNCHANGED localVars
  BY <1>13, <1>20 DEF localVars, output
<1>. QED
  BY <1>3, <1>4, <1>5, <1>6, <1>7, <1>8, <1>9, <1>10, <1>11, <1>12, <1>14, <1>15, <1>16, <1>17,
     <1>18, <1>19, <1>20, NextCases

LEMMA InitTyped == LocalInit => Typed
<1>. SUFFICES ASSUME LocalInit PROVE Typed
  OBVIOUS
<1>1. thread \in [Thread -> ThreadState] /\ \A t \in Thread : thread[t].at = "idle" /\ thread[t].gen = 0
  BY RestIsTyped DEF LocalInit
<1>2. PICK d : d = [open |-> TRUE, queue |-> [i \in 1 .. KeepTarget |-> Silence],
                    hw |-> "running", started |-> TRUE]
  OBVIOUS
<1>3. [i \in 1 .. KeepTarget |-> Silence] \in Seq(0 .. MaxRequests)
  BY LocalAudioAssumption, SilenceIsSilent, SeqGrows DEF LocalAudioAssumption, Silence
<1>4. d \in Device
  BY <1>2, <1>3 DEF Device
<1>5. LocalTypeOK
  <2>1. device \in Device
    BY <1>2, <1>4 DEF LocalInit
  <2>2. accepted \in 0 .. MaxRequests /\ pending \in 0 .. MaxRequests /\ activeRequest \in 0 .. MaxRequests
    BY LocalAudioAssumption DEF LocalInit, LocalAudioAssumption, NoRequest
  <2>3. reason \in [Request -> StopReason] /\ status \in [Request -> Status]
    BY DEF LocalInit, StopReason, Status
  <2>4. notified \in [Request -> BOOLEAN] /\ count \in [Counter -> Nat]
    BY DEF LocalInit
  <2>5. left \in 0 .. MaxChunks
    BY LocalAudioAssumption DEF LocalInit, LocalAudioAssumption
  <2>. QED BY <1>1, <2>1, <2>2, <2>3, <2>4, <2>5 DEF LocalInit, LocalTypeOK
<1>6. Busy /\ Roles /\ Reading
  BY <1>1 DEF Busy, Roles, Reading, Resting, Working, NoRequest, Thread
<1>. QED BY <1>5, <1>6 DEF Typed

LEMMA TypedStep == Typed /\ [LocalNext]_localVars => Typed'
<1>. SUFFICES ASSUME Typed, [LocalNext]_localVars PROVE Typed'
  OBVIOUS
<1>. QED
  BY ThreadsStayTyped, DataStaysTyped, OutputStaysTyped
  DEF Typed, LocalTypeOK, ThreadsTyped, DataTyped, OutputTyped

LEMMA TypedAlways == LocalSpec => []Typed
<1>. QED BY InitTyped, TypedStep, PTL DEF LocalSpec

\* The part of RequestsSettleOnce that says every variable has its type.
THEOREM LocalAudioTyped == LocalSpec => []LocalTypeOK
<1>. QED BY TypedAlways, PTL DEF Typed

-----------------------------------------------------------------------------
(* Last request wins.                                                      *)

\* The request the worker is on may be replaced until it settles, and if
\* nothing stopped it, it is the newest.
Current ==
  /\ activeRequest = IF thread[Worker].at \in Working THEN thread[Worker].gen ELSE NoRequest
  /\ activeRequest # NoRequest /\ reason[activeRequest] = "None" => activeRequest = accepted

FreshInv == Typed /\ NewestPends /\ Current

LEMMA FreshStep == FreshInv /\ [LocalNext]_localVars => FreshInv'
<1>. SUFFICES ASSUME FreshInv, [LocalNext]_localVars PROVE NewestPends' /\ Current'
  BY TypedStep DEF FreshInv
<1>0. /\ Worker \in Thread /\ Main \in Thread /\ Client \subseteq Thread
      /\ Worker # Main /\ Worker \notin Client
      /\ Typed
  BY LocalAudioAssumption DEF Thread, LocalAudioAssumption, FreshInv
<1>. USE DEF FreshInv, NewestPends, Current
<1>1. activeRequest \in 0 .. MaxRequests /\ reason \in [Request -> StopReason] /\ accepted \in 0 .. MaxRequests
  BY DEF Typed, LocalTypeOK
<1>2. \A why, g : reason[activeRequest] # "None" => StopOf(why, g)[activeRequest] # "None"
  BY <1>1 DEF StopOf
<1>3. ASSUME NEW t \in Client, Submit(t)
      PROVE  NewestPends' /\ Current'
  <2>1. thread'[Worker] = thread[Worker] /\ activeRequest' = activeRequest /\ pending' = accepted'
    BY <1>0, <1>3, HandTable DEF Becomes, Submit
  <2>2. activeRequest # NoRequest => StopOf("Replaced", activeRequest)[activeRequest] # "None"
    BY <1>1 DEF StopOf, Request, NoRequest
  <2>3. activeRequest # NoRequest => reason'[activeRequest] # "None"
    BY <1>3, <2>2 DEF Submit
  <2>. QED BY <2>1, <2>3
<1>4. CASE Shutdown
  <2>1. thread'[Worker] = thread[Worker] /\ activeRequest' = activeRequest /\ pending' = NoRequest /\ accepted' = accepted
    BY <1>0, <1>4, HandTable DEF Becomes, Shutdown
  <2>2. reason[activeRequest] # "None" => reason'[activeRequest] # "None"
    BY <1>2, <1>4 DEF Shutdown
  <2>. QED BY <2>1, <2>2
<1>5. CASE Take
  <2>1. /\ thread'[Worker].at = "check" /\ thread'[Worker].gen = pending
        /\ activeRequest' = pending /\ pending' = NoRequest /\ pending # NoRequest
        /\ accepted' = accepted
    BY <1>0, <1>5, HandTable DEF Becomes, Take
  <2>. QED BY <2>1 DEF Working
<1>6. CASE Settle
  <2>1. thread'[Worker].at = "count" /\ activeRequest' = NoRequest /\ UNCHANGED <<pending, accepted>>
    BY <1>0, <1>6, WorkerTable DEF WorkerMoves, Becomes, Settle, requests
  <2>. QED BY <2>1 DEF Working
<1>7. ASSUME NEW g \in Request, Stop(g)
      PROVE  NewestPends' /\ Current'
  <2>1. UNCHANGED <<thread, activeRequest, pending, accepted>>
    BY <1>7 DEF Stop
  <2>2. reason[activeRequest] # "None" => reason'[activeRequest] # "None"
    BY <1>2, <1>7 DEF Stop
  <2>. QED BY <2>1, <2>2
<1>8. ASSUME UNCHANGED <<activeRequest, pending, accepted, reason>>,
             \/ thread'[Worker] = thread[Worker]
             \/ thread'[Worker].at \notin Working /\ thread[Worker].at \notin Working
             \/ /\ thread'[Worker].at \in Working /\ thread[Worker].at \in Working
                /\ thread'[Worker].gen = thread[Worker].gen
      PROVE  NewestPends' /\ Current'
  BY <1>8
<1>9. CASE Sleep \/ Leave
  BY <1>0, <1>8, <1>9, WorkerTable DEF WorkerMoves, Becomes, Working, Sleep, Leave, requests
<1>10. CASE Check \/ OpenFile \/ ClearDevice \/ Feed
  BY <1>0, <1>8, <1>10, WorkerTable
  DEF WorkerMoves, Becomes, Working, Check, OpenFile, ClearDevice, Feed, requests
<1>11. CASE WriteChunk \/ TimeOut \/ FinishPlayback \/ Restore
  BY <1>0, <1>8, <1>11, WorkerTable
  DEF WorkerMoves, Becomes, Working, WriteChunk, TimeOut, FinishPlayback, Restore, requests
<1>12. ASSUME NEW t \in Thread, CountOutcome(t) \/ PublishOutcome(t)
       PROVE  NewestPends' /\ Current'
  <2>1. UNCHANGED <<activeRequest, pending, accepted, reason>>
    BY <1>12 DEF CountOutcome, PublishOutcome
  <2>2. CASE t # Worker
    <3>1. thread'[Worker] = thread[Worker]
      BY <1>0, <1>12, <2>2, HandTable DEF Becomes
    <3>. QED BY <1>8, <2>1, <3>1
  <2>3. CASE t = Worker
    <3>1. thread'[Worker].at \notin Working /\ thread[Worker].at \notin Working
      BY <1>0, <1>12, <2>3, HandTable DEF Becomes, Working
    <3>. QED BY <1>8, <2>1, <3>1
  <2>. QED BY <2>2, <2>3
<1>13. ASSUME NEW t \in Client \cup {Main}, Notify(t)
       PROVE  NewestPends' /\ Current'
  <2>1. UNCHANGED <<activeRequest, pending, accepted, reason>>
    BY <1>13 DEF Notify, requests
  <2>2. /\ thread'[Worker].gen = thread[Worker].gen
        /\ thread'[Worker].at = IF thread[Worker].at = "asleep" THEN "idle" ELSE thread[Worker].at
    BY <1>0, <1>13, NotifyMoves DEF Typed
  <2>. QED BY <1>8, <2>1, <2>2 DEF Working
<1>14. CASE JoinWorker \/ CloseDevice
  BY <1>0, <1>8, <1>14, MainTable DEF Becomes, JoinWorker, CloseDevice, requests
<1>15. ASSUME NEW t \in Client, SubmitRejected(t)
       PROVE  NewestPends' /\ Current'
  BY <1>8, <1>15 DEF SubmitRejected, requests
<1>16. CASE Look \/ KeepAlive \/ KeeperLeaves \/ Drain \/ UNCHANGED localVars
  BY <1>8, <1>16 DEF Look, KeepAlive, KeeperLeaves, Drain, localVars, requests
<1>. QED
  BY <1>0, <1>3, <1>4, <1>5, <1>6, <1>7, <1>9, <1>10, <1>11, <1>12, <1>13, <1>14, <1>15, <1>16,
     NextCases

LEMMA FreshInit == LocalInit => FreshInv
<1>. SUFFICES ASSUME LocalInit PROVE FreshInv
  OBVIOUS
<1>1. thread[Worker].at = "idle"
  BY RestIsTyped DEF LocalInit, Thread
<1>. QED BY <1>1, InitTyped DEF FreshInv, LocalInit, NewestPends, Current, Working

LEMMA FreshAlways == LocalSpec => []FreshInv
BY FreshInit, FreshStep, PTL DEF LocalSpec

\* A request that starts to play is the newest one accepted, for any clients
\* and however their submissions and stops fall between the worker's steps.
THEOREM NewestStarts == LocalSpec => StaleNeverStarts
<1>1. FreshInv /\ [LocalNext]_localVars =>
        [thread[Worker].at = "check" /\ thread'[Worker].at = "open"
          => thread[Worker].gen = accepted]_localVars
  <2>. SUFFICES ASSUME FreshInv, [LocalNext]_localVars,
                       thread[Worker].at = "check", thread'[Worker].at = "open"
                PROVE  thread[Worker].gen = accepted
    OBVIOUS
  <2>0. Typed /\ Worker \in Thread /\ thread \in [Thread -> ThreadState] /\ Worker # Main /\ Worker \notin Client
    BY LocalAudioAssumption DEF FreshInv, Typed, LocalTypeOK, Thread, LocalAudioAssumption
  <2>1. thread[Worker].gen # NoRequest /\ activeRequest = thread[Worker].gen
    BY <2>0 DEF FreshInv, Typed, Busy, Current, Resting, Working
  <2>2. CASE Check
    <3>1. reason[thread[Worker].gen] = "None"
      <4>. SUFFICES ASSUME reason[thread[Worker].gen] # "None" PROVE FALSE
        OBVIOUS
      <4>1. WorkerEnds("settle", OutcomeFor(reason[thread[Worker].gen]))
        BY <2>2 DEF Check
      <4>2. OutcomeFor(reason[thread[Worker].gen]) \in PlaybackOutcome
        BY <2>0, <2>1 DEF OutcomeFor, PlaybackOutcome, StopReason, Typed, LocalTypeOK, ThreadState, Request, NoRequest
      <4>3. thread'[Worker].at = "settle"
        BY <2>0, <4>1, <4>2, EndsBecomes DEF Becomes, LocalPlaces, Working
      <4>. QED BY <4>3
    <3>. QED BY <2>1, <3>1 DEF FreshInv, Current
  <2>3. CASE ~Check
    <3>1. \A t \in Client : ~Submit(t)
      BY <2>0, HandTable DEF Becomes, Thread
    <3>2. ~Shutdown /\ ~Take /\ ~JoinWorker /\ ~CloseDevice
      BY <2>0, HandTable, MainTable DEF Becomes, Thread
    <3>3. \A t \in Thread : ~CountOutcome(t) /\ ~PublishOutcome(t)
      BY <2>0, HandTable DEF Becomes
    <3>4. \A t \in Client \cup {Main} : ~Notify(t)
      BY <2>0, NotifyMoves DEF Typed
    <3>5. /\ ~Sleep /\ ~Leave /\ ~OpenFile /\ ~ClearDevice /\ ~Feed /\ ~WriteChunk /\ ~TimeOut
          /\ ~FinishPlayback /\ ~Restore /\ ~Settle
      BY <2>0, WorkerTable DEF WorkerMoves
    <3>6. /\ \A t \in Client : ~SubmitRejected(t)
          /\ \A g \in Request : ~Stop(g)
          /\ ~Look /\ ~KeepAlive /\ ~KeeperLeaves /\ ~Drain /\ ~UNCHANGED localVars
      BY DEF SubmitRejected, Stop, Look, KeepAlive, KeeperLeaves, Drain, localVars
    <3>. QED BY <2>3, <3>1, <3>2, <3>3, <3>4, <3>5, <3>6, NextCases
  <2>. QED BY <2>2, <2>3
<1>. QED BY <1>1, FreshAlways, PTL DEF LocalSpec, StaleNeverStarts

-----------------------------------------------------------------------------
(* What the device holds.                                                  *)

Feeding == {"feed", "write"}
Handing == {"release", "restore"}

\* The flag the keepalive reads says whether the worker is between clearing
\* the device and giving it back; and the device is open until main, after
\* the worker has gone, closes it.
Guarded ==
  /\ playing <=> thread[Worker].at \in {"clear", "feed", "write", "release"}
  /\ thread[Main].at \in {"close", "down"} => thread[Worker].at = "gone"
  /\ thread[Main].at # "down" => device.open

Held ==
  /\ thread[Worker].at \in Feeding => device.queue \in Seq({thread[Worker].gen})
  /\ thread[Worker].at \notin Feeding \cup Handing => device.queue \in Seq({Silence})

AudioInv == Typed /\ Guarded /\ Held

\* A step that leaves the device as it was, or with less in it.
LEMMA HeldKept ==
  ASSUME AudioInv, device'.queue = device.queue,
         \/ thread'[Worker] = thread[Worker]
         \/ /\ thread[Worker].at \in Feeding => thread'[Worker].at \in Feeding \cup Handing
            /\ thread[Worker].at \in Handing => thread'[Worker].at \in Handing
            /\ thread'[Worker].at \in Feeding => thread[Worker].at \in Feeding
            /\ thread'[Worker].gen = thread[Worker].gen \/ thread'[Worker].at \notin Feeding
  PROVE  Held'
BY DEF AudioInv, Held, Feeding, Handing

LEMMA AudioStep == AudioInv /\ [LocalNext]_localVars => AudioInv'
<1>. SUFFICES ASSUME AudioInv, [LocalNext]_localVars PROVE Guarded' /\ Held'
  BY TypedStep DEF AudioInv
<1>0. /\ Worker \in Thread /\ Main \in Thread /\ Client \subseteq Thread
      /\ Worker # Main /\ Worker \notin Client /\ Main \notin Client
      /\ Typed /\ device \in Device /\ thread[Worker] \in ThreadState
      /\ {Silence} \in SUBSET (0 .. MaxRequests)
  BY LocalAudioAssumption DEF Thread, LocalAudioAssumption, AudioInv, Typed, LocalTypeOK, Silence
<1>1. thread[Worker].at \in Working => thread[Main].at \notin {"close", "down"} /\ device.open
  BY DEF AudioInv, Guarded, Working
\* Worker steps that do not touch the device
<1>2. ASSUME NEW from \in Working \cup {"idle"}, NEW tos, WorkerMoves(from, tos),
             UNCHANGED <<playing, device>>,
             from \in {"clear", "feed", "write", "release"}
               => tos \subseteq {"clear", "feed", "write", "release"},
             from \notin {"clear", "feed", "write", "release"}
               => tos \cap {"clear", "feed", "write", "release"} = {},
             from = "idle" => tos \subseteq {"asleep", "gone", "check"}
      PROVE  Guarded'
  <2>1. thread[Main].at \notin {"close", "down"} /\ thread'[Main] = thread[Main]
    BY <1>0, <1>2 DEF WorkerMoves, Becomes, AudioInv, Guarded, Working
  <2>2. thread'[Worker].at \in tos /\ thread[Worker].at = from
    BY <1>2 DEF WorkerMoves, Becomes
  <2>. QED BY <1>2, <2>1, <2>2 DEF AudioInv, Guarded
<1>3. CASE Sleep \/ Leave \/ Check \/ Settle
  <2>1. UNCHANGED <<playing, device>>
    BY <1>3 DEF Sleep, Leave, Check, Settle, output
  <2>2. Guarded'
    BY <1>2, <1>3, <2>1, WorkerTable, <1>0 DEF Working
  <2>3. Held'
    BY <1>0, <1>3, <2>1, WorkerTable, HeldKept DEF WorkerMoves, Becomes, Feeding, Handing
  <2>. QED BY <2>2, <2>3
<1>4. CASE Feed \/ TimeOut
  <2>1. UNCHANGED <<playing, device>>
    BY <1>4 DEF Feed, TimeOut, output
  <2>2. Guarded'
    BY <1>2, <1>4, <2>1, WorkerTable, <1>0 DEF Working
  <2>3. Held'
    BY <1>0, <1>4, <2>1, WorkerTable, HeldKept DEF WorkerMoves, Becomes, Feeding, Handing
  <2>. QED BY <2>2, <2>3
<1>5. CASE OpenFile
  <2>1. device' = device /\ thread[Worker].at = "open" /\ thread'[Main] = thread[Main]
    BY <1>0, <1>5, WorkerTable DEF OpenFile, WorkerMoves, Becomes
  <2>2. \/ playing' = playing /\ thread'[Worker].at = "settle"
        \/ playing' = TRUE /\ thread'[Worker].at = "clear"
    <3>1. CASE \E o \in {"Stopped", "Failed"} : WorkerEnds("settle", o) /\ playing' = playing
      BY <1>0, <3>1, WorkerMovesBy DEF Becomes, LocalPlaces, Working, PlaybackOutcome, Typed
    <3>2. CASE playing' = TRUE /\ Move(Worker, "clear")
      BY <1>0, <3>2, WorkerMovesBy DEF Becomes, LocalPlaces, Working, Typed
    <3>. QED BY <1>5, <3>1, <3>2 DEF OpenFile
  <2>3. Held'
    BY <2>1, <2>2, HeldKept DEF Feeding, Handing
  <2>4. Guarded'
    BY <1>1, <2>1, <2>2 DEF AudioInv, Guarded, Working
  <2>. QED BY <2>3, <2>4
<1>6. CASE ClearDevice
  <2>1. /\ thread[Worker].at = "clear" /\ thread'[Worker].at = "feed" /\ thread'[Main] = thread[Main]
        /\ thread'[Worker].gen = thread[Worker].gen /\ thread[Worker].gen \in 0 .. MaxRequests
    BY <1>0, <1>6, WorkerTable DEF WorkerMoves, Becomes, ThreadState
  <2>2. device' = Clear(device) /\ playing' = playing
    BY <1>6 DEF ClearDevice
  <2>3. Filled(device', device, {thread[Worker].gen})
    BY <1>0, <2>1, <2>2, ClearEmpties
  <2>. QED BY <1>1, <2>1, <2>2, <2>3 DEF AudioInv, Guarded, Held, Filled, Working, Feeding, Handing
<1>7. CASE WriteChunk
  <2>1. /\ thread[Worker].at = "write" /\ thread'[Worker].at \in {"feed", "release"}
        /\ thread'[Main] = thread[Main] /\ playing' = playing
        /\ thread'[Worker].gen = thread[Worker].gen /\ thread[Worker].gen \in 0 .. MaxRequests
    BY <1>0, <1>7, WorkerTable DEF WorkerMoves, Becomes, ThreadState, WriteChunk
  <2>2. device.queue \in Seq({thread[Worker].gen})
    BY <2>1 DEF AudioInv, Held, Feeding
  <2>3. Filled(device', device, {thread[Worker].gen})
    BY <1>0, <1>7, <2>1, <2>2, ChunkFills
  <2>. QED BY <1>1, <2>1, <2>3 DEF AudioInv, Guarded, Held, Filled, Working, Feeding, Handing
<1>8. CASE FinishPlayback
  <2>1. /\ thread[Worker].at = "release" /\ thread'[Main] = thread[Main]
        /\ thread'[Worker].at = (IF playing THEN "restore" ELSE "settle")
        /\ playing' = FALSE /\ device' = device
    BY <1>0, <1>8, WorkerMovesBy DEF FinishPlayback, Becomes, LocalPlaces, Working, Typed
  <2>2. playing
    BY <2>1 DEF AudioInv, Guarded
  <2>. QED BY <1>1, <2>1, <2>2 DEF AudioInv, Guarded, Held, Working, Feeding, Handing
<1>9. CASE Restore
  <2>1. /\ thread[Worker].at = "restore" /\ thread'[Main] = thread[Main]
        /\ thread'[Worker].at = "settle" /\ playing' = playing
    BY <1>0, <1>9, WorkerTable DEF WorkerMoves, Becomes, Restore
  <2>2. Filled(device', device, {Silence})
    BY <1>0, <1>9, RestoredSilent DEF Restore
  <2>. QED BY <1>1, <2>1, <2>2 DEF AudioInv, Guarded, Held, Filled, Working, Feeding, Handing
<1>10. CASE Take
  <2>1. /\ thread[Worker].at = "idle" /\ thread'[Worker].at = "check" /\ thread'[Main] = thread[Main]
        /\ UNCHANGED <<playing, device>>
    BY <1>0, <1>10, HandTable DEF Becomes, Take, output
  <2>. QED BY <2>1, HeldKept DEF AudioInv, Guarded, Feeding, Handing
\* The other threads of the device
<1>11. CASE KeepAlive
  <2>1. UNCHANGED <<thread, playing>>
    BY <1>11 DEF KeepAlive
  <2>2. CASE playing
    <3>1. device' = device
      BY <1>11, <2>2 DEF KeepAlive
    <3>. QED BY <2>1, <3>1, HeldKept DEF AudioInv, Guarded
  <2>3. CASE ~playing
    <3>1. thread[Worker].at \notin Feeding
      BY <2>3 DEF AudioInv, Guarded, Feeding
    <3>2. CASE device.queue \in Seq({Silence})
      <4>1. Filled(device', device, {Silence})
        BY <1>0, <1>11, <2>3, <3>2, RefillFills DEF KeepAlive, Silence
      <4>. QED BY <2>1, <3>1, <4>1 DEF AudioInv, Guarded, Held, Filled
    <3>3. CASE device.queue \notin Seq({Silence})
      <4>1. 0 .. MaxRequests \in SUBSET (0 .. MaxRequests) /\ Silence \in 0 .. MaxRequests
        BY <1>0
      <4>2. device.queue \in Seq(0 .. MaxRequests) /\ device' \in Refill(device)
        BY <1>0, <1>11, <2>3 DEF KeepAlive, Device
      <4>3. Filled(device', device, 0 .. MaxRequests)
        BY <1>0, <4>1, <4>2, RefillFills
      <4>. QED BY <2>1, <3>1, <3>3, <4>3 DEF AudioInv, Guarded, Held, Filled
    <3>. QED BY <3>2, <3>3
  <2>. QED BY <2>2, <2>3
<1>12. CASE Drain
  <2>1. UNCHANGED <<thread, playing>> /\ device'.open = device.open
    BY <1>0, <1>12 DEF Drain, Device
  <2>2. device'.queue = device.queue \/ (device.queue # <<>> /\ device'.queue = Tail(device.queue))
    BY <1>0, <1>12 DEF Drain, Device
  <2>3. ASSUME NEW S, device.queue \in Seq(S)
        PROVE  device'.queue \in Seq(S)
    <3>1. CASE device'.queue = device.queue
      BY <2>3, <3>1
    <3>2. CASE device.queue # <<>> /\ device'.queue = Tail(device.queue)
      <4>1. Tail(device.queue) \in Seq(S)
        BY <2>3, <3>2
      <4>. QED BY <3>2, <4>1
    <3>. QED BY <2>2, <3>1, <3>2
  <2>. QED BY <2>1, <2>3 DEF AudioInv, Guarded, Held
<1>13. CASE CloseDevice
  <2>1. /\ thread[Main].at = "close" /\ thread'[Main].at = "down" /\ thread'[Worker] = thread[Worker]
        /\ playing' = FALSE
    BY <1>0, <1>13, MainTable DEF Becomes, CloseDevice
  <2>2. thread[Worker].at = "gone"
    BY <2>1 DEF AudioInv, Guarded
  <2>3. Filled(Clear(device), device, {Silence})
    BY <1>0, ClearEmpties
  <2>4. device'.queue \in Seq({Silence})
    BY <1>13, <2>3 DEF CloseDevice, Filled, Device
  <2>. QED BY <2>1, <2>2, <2>4 DEF AudioInv, Guarded, Held, Feeding, Handing
<1>14. CASE JoinWorker
  <2>1. /\ thread[Worker].at = "gone" /\ thread'[Worker] = thread[Worker] /\ thread'[Main].at = "close"
        /\ thread[Main].at = "join" /\ UNCHANGED <<playing, device>>
    BY <1>0, <1>14, MainTable DEF Becomes, JoinWorker, output
  <2>. QED BY <2>1, HeldKept DEF AudioInv, Guarded
\* The steps of requests
<1>15. ASSUME UNCHANGED <<playing, device>>, thread'[Worker] = thread[Worker],
              thread'[Main] = thread[Main]
       PROVE  Guarded' /\ Held'
  <2>1. Held'
    BY <1>15, HeldKept
  <2>. QED BY <1>15, <2>1 DEF AudioInv, Guarded
<1>16. ASSUME thread[Main].at \notin {"close", "down"}, thread'[Main].at \notin {"close", "down"},
              UNCHANGED <<playing, device>>, thread'[Worker] = thread[Worker]
       PROVE  Guarded' /\ Held'
  <2>1. Held'
    BY <1>16, HeldKept
  <2>. QED BY <1>16, <2>1 DEF AudioInv, Guarded
<1>17. ASSUME NEW t \in Client, Submit(t) \/ SubmitRejected(t)
       PROVE  Guarded' /\ Held'
  <2>1. UNCHANGED <<playing, device>>
    BY <1>17 DEF Submit, SubmitRejected, output
  <2>2. thread'[Worker] = thread[Worker] /\ thread'[Main] = thread[Main]
    BY <1>0, <1>17, HandTable DEF Becomes, SubmitRejected
  <2>. QED BY <2>1, <2>2, <1>15
<1>18. CASE Shutdown
  <2>1. UNCHANGED <<playing, device>>
    BY <1>18 DEF Shutdown, output
  <2>2. /\ thread'[Worker] = thread[Worker] /\ thread[Main].at = "idle"
        /\ thread'[Main].at \in {"notify", "count"}
    BY <1>0, <1>18, HandTable DEF Becomes
  <2>. QED BY <1>16, <2>1, <2>2
<1>19. ASSUME NEW t \in Thread, CountOutcome(t) \/ PublishOutcome(t)
       PROVE  Guarded' /\ Held'
  <2>1. UNCHANGED <<playing, device>>
    BY <1>19 DEF CountOutcome, PublishOutcome, output
  <2>2. CASE t = Worker
    <3>1. /\ thread'[Main] = thread[Main] /\ thread[Worker].at \in {"count", "publish"}
          /\ thread'[Worker].at \in {"idle", "publish"}
      BY <1>0, <1>19, <2>2, HandTable DEF Becomes
    <3>2. Held'
      BY <2>1, <3>1, HeldKept DEF Feeding, Handing
    <3>. QED BY <2>1, <3>1, <3>2 DEF AudioInv, Guarded
  <2>3. CASE t = Main
    <3>1. /\ thread'[Worker] = thread[Worker] /\ thread[Main].at \in {"count", "publish"}
          /\ thread'[Main].at \in {"notify", "publish"}
      BY <1>0, <1>19, <2>3, HandTable DEF Becomes
    <3>. QED BY <1>16, <2>1, <3>1
  <2>4. CASE t # Worker /\ t # Main
    <3>1. thread'[Worker] = thread[Worker] /\ thread'[Main] = thread[Main]
      BY <1>0, <1>19, <2>4, HandTable DEF Becomes
    <3>. QED BY <1>15, <2>1, <3>1
  <2>. QED BY <2>2, <2>3, <2>4
<1>20. ASSUME NEW t \in Client \cup {Main}, Notify(t)
       PROVE  Guarded' /\ Held'
  <2>1. UNCHANGED <<playing, device>> /\ thread[t].at = "notify"
    BY <1>20 DEF Notify, output
  <2>2. /\ thread'[Worker].gen = thread[Worker].gen
        /\ thread'[Worker].at = IF thread[Worker].at = "asleep" THEN "idle" ELSE thread[Worker].at
    BY <1>0, <1>20, NotifyMoves DEF Typed
  <2>3. \/ thread[Main].at = "notify" /\ thread'[Main].at = "join"
        \/ thread'[Main].at = thread[Main].at
    BY <1>0, <1>20, <2>1, NotifyMoves DEF Typed
  <2>4. Held'
    BY <2>1, <2>2, HeldKept DEF Feeding, Handing
  <2>. QED BY <2>1, <2>2, <2>3, <2>4 DEF AudioInv, Guarded
<1>21. ASSUME NEW g \in Request, Stop(g)
       PROVE  Guarded' /\ Held'
  BY <1>15, <1>21 DEF Stop, output
<1>22. CASE Look \/ KeeperLeaves \/ UNCHANGED localVars
  BY <1>15, <1>22 DEF Look, KeeperLeaves, localVars
<1>. QED
  BY <1>3, <1>4, <1>5, <1>6, <1>7, <1>8, <1>9, <1>10, <1>11, <1>12, <1>13, <1>14, <1>17, <1>18,
     <1>19, <1>20, <1>21, <1>22, NextCases

\* The device holds one recording's sound or silence, never both, whatever
\* the keepalive thread saw before it got the mutex; and main closes it only
\* when the worker has gone.
THEOREM DeviceHoldsOwnAudio == LocalSpec => []OnlyOwnAudio
<1>1. LocalInit => AudioInv
  <2>. SUFFICES ASSUME LocalInit PROVE AudioInv
    OBVIOUS
  <2>1. thread[Worker].at = "idle" /\ thread[Main].at = "idle"
    BY RestIsTyped DEF LocalInit, Thread
  <2>2. device.queue \in Seq({Silence}) /\ device.open /\ playing = FALSE
    BY SilenceIsSilent, LocalAudioAssumption DEF LocalInit, LocalAudioAssumption
  <2>. QED BY <2>1, <2>2, InitTyped DEF AudioInv, Guarded, Held, Feeding, Handing
<1>2. AudioInv => OnlyOwnAudio
  BY DEF AudioInv, Guarded, Held, OnlyOwnAudio, Feeding, Handing
<1>. QED BY <1>1, <1>2, AudioStep, PTL DEF LocalSpec

-----------------------------------------------------------------------------
(* Who owns a request.                                                     *)

\* A completion is claimed when it is counted, and shown next.
Claimed ==
  \A g \in Request : notified[g] <=> Finished(g) \/ \E t \in Thread : thread[t].gen = g /\ thread[t].at = "publish"

\* What was not accepted yet has not ended.
NotYet == \A g \in Request : g > accepted => ~Finished(g)

OwnerInv == Typed /\ HeldOnce /\ Claimed /\ NotYet

\* Steps that change neither the slot nor what the threads have in hand.
LEMMA HandsKept ==
  ASSUME OwnerInv, UNCHANGED <<accepted, status, notified, pending>>,
         \A t \in Thread : /\ thread'[t].gen = thread[t].gen
                           /\ thread'[t].at = "publish" <=> thread[t].at = "publish"
  PROVE  HeldOnce' /\ Claimed' /\ NotYet'
BY DEF OwnerInv, HeldOnce, Claimed, NotYet, Finished

\* The request in the slot goes to a thread that has none.
LEMMA SlotMoves ==
  ASSUME OwnerInv, NEW t \in Thread, thread[t].at = "idle",
         NEW a, NEW o, Becomes(t, a, pending, o), a # "publish",
         status' \in [Request -> Status],
         \A g \in Request : Finished(g)' <=> Finished(g),
         UNCHANGED notified,
         \/ accepted' = accepted /\ pending' = NoRequest
         \/ accepted < MaxRequests /\ accepted' = accepted + 1 /\ pending' = accepted'
  PROVE  HeldOnce' /\ Claimed' /\ NotYet'
<1>. USE LocalAudioAssumption DEF OwnerInv, Typed, LocalTypeOK, LocalAudioAssumption
<1>1. /\ thread[t].gen = NoRequest
      /\ thread'[t].gen = pending /\ thread'[t].at # "publish"
      /\ \A s \in Thread \ {t} : thread'[s] = thread[s]
  BY DEF Busy, Resting, Becomes
<1>2. /\ \A s \in Thread : thread[s].gen \in 0 .. accepted
      /\ pending \in 0 .. accepted /\ accepted' \in 0 .. MaxRequests
  BY DEF HeldOnce, NoRequest, Request, ThreadState
<1>3. HeldOnce'
  <2>1. \A s, u \in Thread :
          s # u /\ thread'[s].gen = thread'[u].gen => thread'[s].gen = NoRequest
    BY <1>1 DEF HeldOnce
  <2>2. \A s \in Thread : thread'[s].gen = pending' => pending' = NoRequest
    BY <1>1, <1>2 DEF HeldOnce, NoRequest
  <2>3. ASSUME NEW g \in Request
        PROVE  (g <= accepted' /\ ~Finished(g)')
                 <=> (pending' = g \/ \E s \in Thread : thread'[s].gen = g)
    <3>1. (g <= accepted /\ ~Finished(g)) <=> (pending = g \/ \E s \in Thread : thread[s].gen = g)
      BY DEF HeldOnce
    <3>2. (\E s \in Thread : thread'[s].gen = g) <=> (pending = g \/ \E s \in Thread : thread[s].gen = g)
      <4>1. ASSUME NEW s \in Thread, thread'[s].gen = g
            PROVE  pending = g \/ \E r \in Thread : thread[r].gen = g
        BY <1>1, <4>1
      <4>2. ASSUME NEW s \in Thread, thread[s].gen = g
            PROVE  s # t
        BY <1>1, <4>2 DEF NoRequest, Request
      <4> QED
        BY <1>1, <4>1, <4>2
    <3>3. CASE accepted' = accepted /\ pending' = NoRequest
      BY <3>1, <3>2, <3>3 DEF NoRequest, Request
    <3>4. CASE accepted' = accepted + 1 /\ pending' = accepted'
      <4>1. g <= accepted' <=> g <= accepted \/ g = accepted'
        BY <3>4 DEF Request
      <4>2. g = accepted' => ~Finished(g)
        BY <3>4 DEF NotYet, Request
      <4>. QED BY <3>1, <3>2, <3>4, <4>1, <4>2
    <3>. QED BY <3>3, <3>4
  <2>. QED BY <2>1, <2>2, <2>3 DEF HeldOnce, Finished
<1>4. Claimed'
  <2>1. \A g \in Request :
          (\E s \in Thread : thread'[s].gen = g /\ thread'[s].at = "publish")
            <=> (\E s \in Thread : thread[s].gen = g /\ thread[s].at = "publish")
    BY <1>1
  <2>. QED BY <2>1 DEF Claimed, Finished
<1>5. NotYet'
  BY <1>2 DEF NotYet, Finished, Request
<1>. QED BY <1>3, <1>4, <1>5

LEMMA OwnerStep == OwnerInv /\ [LocalNext]_localVars => OwnerInv'
<1>. SUFFICES ASSUME OwnerInv, [LocalNext]_localVars PROVE HeldOnce' /\ Claimed' /\ NotYet'
  BY TypedStep DEF OwnerInv
<1>0. /\ Worker \in Thread /\ Main \in Thread /\ Client \subseteq Thread
      /\ Typed /\ Typed'
  BY TypedStep DEF Thread, OwnerInv
<1>1. ASSUME NEW t \in Client, Submit(t)
      PROVE  HeldOnce' /\ Claimed' /\ NotYet'
  <2>1. /\ accepted < MaxRequests /\ accepted' = accepted + 1 /\ pending' = accepted'
        /\ UNCHANGED <<status, notified>>
    BY <1>1 DEF Submit
  <2>2. /\ Becomes(t, IF pending = 0 THEN "notify" ELSE "count", pending, thread'[t].outcome)
        /\ thread[t].at = "idle" /\ t \in Thread
    BY <1>0, <1>1, HandTable
  <2>3. status' \in [Request -> Status]
    BY <1>0 DEF Typed, LocalTypeOK
  <2>. QED BY <2>1, <2>2, <2>3, SlotMoves DEF Finished
<1>2. CASE Shutdown
  <2>1. pending' = NoRequest /\ UNCHANGED <<accepted, status, notified>>
    BY <1>2 DEF Shutdown
  <2>2. /\ Becomes(Main, IF pending = 0 THEN "notify" ELSE "count", pending, thread'[Main].outcome)
        /\ thread[Main].at = "idle"
    BY <1>0, <1>2, HandTable
  <2>3. status' \in [Request -> Status]
    BY <1>0 DEF Typed, LocalTypeOK
  <2>. QED BY <1>0, <2>1, <2>2, <2>3, SlotMoves DEF Finished
<1>3. CASE Take
  <2>1. /\ pending' = NoRequest /\ UNCHANGED <<accepted, notified>> /\ pending # NoRequest
        /\ status' = [status EXCEPT ![pending] = "Playing"]
    BY <1>3 DEF Take, requests
  <2>2. Becomes(Worker, "check", pending, "Completed") /\ thread[Worker].at = "idle"
    BY <1>0, <1>3, HandTable
  <2>3. status \in [Request -> Status] /\ status' \in [Request -> Status] /\ pending \in Request
    BY <1>0, <2>1 DEF Typed, LocalTypeOK, Request, NoRequest
  <2>4. ~Finished(pending)
    BY <2>3 DEF OwnerInv, HeldOnce
  <2>5. \A g \in Request : Finished(g)' <=> Finished(g)
    BY <2>1, <2>3, <2>4 DEF Finished, PlaybackOutcome
  <2>. QED BY <1>0, <2>1, <2>2, <2>3, <2>5, SlotMoves
<1>4. ASSUME NEW t \in Thread, CountOutcome(t)
      PROVE  HeldOnce' /\ Claimed' /\ NotYet'
  <2>. DEFINE g == thread[t].gen
  <2>1. thread[t].at = "count" /\ g \in Request
    <3>1. thread[t].at = "count"
      BY <1>0, <1>4, HandTable
    <3>2. g # 0
      BY <1>0, <3>1 DEF Typed, Busy, Resting, NoRequest
    <3>3. thread[t] \in ThreadState
      BY <1>0 DEF Typed, LocalTypeOK
    <3>. QED BY <3>1, <3>2, <3>3 DEF ThreadState, Request
  <2>2. ~Finished(g) /\ \A s \in Thread : thread[s].gen = g => s = t
    BY <2>1 DEF OwnerInv, HeldOnce, NoRequest, Request
  <2>3. ~notified[g]
    BY <2>1, <2>2 DEF OwnerInv, Claimed
  <2>4. /\ thread'[t].at = "publish" /\ thread'[t].gen = g
        /\ \A s \in Thread \ {t} : thread'[s] = thread[s]
    BY <1>0, <1>4, <2>3, HandTable DEF Becomes
  <2>5. notified' = [notified EXCEPT ![g] = TRUE] /\ UNCHANGED <<accepted, status, pending>>
    BY <1>4, <2>3 DEF CountOutcome
  <2>6. notified \in [Request -> BOOLEAN]
    BY <1>0 DEF Typed, LocalTypeOK
  <2>. HIDE DEF g
  <2>7. HeldOnce' /\ NotYet'
    <3>1. \A s \in Thread : thread'[s].gen = thread[s].gen
      BY <2>4 DEF g
    <3>. QED BY <2>5, <3>1 DEF OwnerInv, HeldOnce, NotYet, Finished
  <2>8. ASSUME NEW h \in Request
        PROVE  notified'[h] <=> Finished(h)' \/ \E s \in Thread : thread'[s].gen = h /\ thread'[s].at = "publish"
    <3>1. CASE h = g
      BY <2>1, <2>4, <2>5, <2>6, <3>1
    <3>2. CASE h # g
      <4>1. notified'[h] <=> notified[h]
        BY <2>5, <2>6, <3>2
      <4>2. (\E s \in Thread : thread'[s].gen = h /\ thread'[s].at = "publish")
              <=> (\E s \in Thread : thread[s].gen = h /\ thread[s].at = "publish")
        BY <2>1, <2>4, <3>2 DEF g
      <4>. QED BY <2>5, <4>1, <4>2 DEF OwnerInv, Claimed, Finished
    <3>. QED BY <3>1, <3>2
  <2>. QED BY <2>7, <2>8 DEF Claimed, Finished
<1>5. ASSUME NEW t \in Thread, PublishOutcome(t)
      PROVE  HeldOnce' /\ Claimed' /\ NotYet'
  <2>. DEFINE g == thread[t].gen
              o == thread[t].outcome
  <2>1. thread[t].at = "publish" /\ g \in Request /\ o \in PlaybackOutcome
    <3>1. thread[t].at = "publish"
      BY <1>0, <1>5, HandTable
    <3>2. g # 0
      BY <1>0, <3>1 DEF Typed, Busy, Resting, NoRequest
    <3>3. thread[t] \in ThreadState
      BY <1>0 DEF Typed, LocalTypeOK
    <3>. QED BY <3>1, <3>2, <3>3 DEF ThreadState, Request
  <2>2. g <= accepted /\ pending # g /\ \A s \in Thread : thread[s].gen = g => s = t
    BY <2>1 DEF OwnerInv, HeldOnce, NoRequest, Request
  <2>3. notified[g]
    BY <2>1 DEF OwnerInv, Claimed
  <2>4. /\ thread'[t].at # "publish" /\ thread'[t].gen = 0
        /\ \A s \in Thread \ {t} : thread'[s] = thread[s]
    BY <1>0, <1>5, HandTable DEF Becomes
  <2>5. status' = [status EXCEPT ![g] = o] /\ UNCHANGED <<accepted, notified, pending>>
    BY <1>5 DEF PublishOutcome
  <2>6. status \in [Request -> Status]
    BY <1>0 DEF Typed, LocalTypeOK
  <2>. HIDE DEF g, o
  <2>7. status'[g] \in PlaybackOutcome /\ \A h \in Request \ {g} : status'[h] = status[h]
    BY <2>1, <2>5, <2>6
  <2>8. \A h \in Request : h # g =>
          /\ (\E s \in Thread : thread'[s].gen = h) <=> (\E s \in Thread : thread[s].gen = h)
          /\ (\E s \in Thread : thread'[s].gen = h /\ thread'[s].at = "publish")
               <=> (\E s \in Thread : thread[s].gen = h /\ thread[s].at = "publish")
    BY <2>1, <2>4 DEF g, Request
  <2>9. \A s \in Thread : thread'[s].gen # g
    BY <2>1, <2>2, <2>4 DEF Request
  <2>10. HeldOnce'
    <3>1. \A s, u \in Thread :
            s # u /\ thread'[s].gen = thread'[u].gen => thread'[s].gen = NoRequest
      BY <2>4 DEF OwnerInv, HeldOnce, NoRequest
    <3>2. \A s \in Thread : thread'[s].gen = pending' => pending' = NoRequest
      BY <2>4, <2>5 DEF OwnerInv, HeldOnce, NoRequest
    <3>3. ASSUME NEW h \in Request
          PROVE  (h <= accepted' /\ ~Finished(h)')
                   <=> (pending' = h \/ \E s \in Thread : thread'[s].gen = h)
      <4>1. CASE h = g
        BY <2>2, <2>5, <2>7, <2>9, <4>1 DEF Finished
      <4>2. CASE h # g
        BY <2>5, <2>7, <2>8, <4>2 DEF OwnerInv, HeldOnce, Finished
      <4>. QED BY <4>1, <4>2
    <3>. QED BY <3>1, <3>2, <3>3 DEF HeldOnce, Finished
  <2>11. Claimed'
    <3>1. ASSUME NEW h \in Request
          PROVE  notified'[h] <=> Finished(h)' \/ \E s \in Thread : thread'[s].gen = h /\ thread'[s].at = "publish"
      <4>1. CASE h = g
        BY <2>3, <2>5, <2>7, <4>1 DEF Finished
      <4>2. CASE h # g
        BY <2>5, <2>7, <2>8, <4>2 DEF OwnerInv, Claimed, Finished
      <4>. QED BY <4>1, <4>2
    <3>. QED BY <3>1 DEF Claimed, Finished
  <2>12. NotYet'
    <3>1. ASSUME NEW h \in Request, h > accepted'
          PROVE  ~Finished(h)'
      <4>1. h # g /\ h > accepted
        BY <2>2, <2>5, <3>1, <1>0 DEF Typed, LocalTypeOK, Request
      <4>. QED BY <2>7, <4>1 DEF OwnerInv, NotYet, Finished
    <3>. QED BY <3>1 DEF NotYet, Finished
  <2>. QED BY <2>10, <2>11, <2>12
<1>6. ASSUME NEW t \in Client \cup {Main}, Notify(t)
      PROVE  HeldOnce' /\ Claimed' /\ NotYet'
  <2>1. UNCHANGED <<accepted, status, notified, pending>> /\ thread[t].at = "notify"
    BY <1>6 DEF Notify, requests
  <2>2. \A s \in Thread : /\ thread'[s].gen = thread[s].gen
                          /\ thread'[s].at = "publish" <=> thread[s].at = "publish"
    BY <1>0, <1>6, <2>1, NotifyMoves DEF Typed
  <2>. QED BY <2>1, <2>2, HandsKept
<1>7. ASSUME NEW from, NEW tos, WorkerMoves(from, tos), from # "publish", "publish" \notin tos,
             UNCHANGED <<accepted, status, notified, pending>>
      PROVE  HeldOnce' /\ Claimed' /\ NotYet'
  <2>1. \A s \in Thread : /\ thread'[s].gen = thread[s].gen
                          /\ thread'[s].at = "publish" <=> thread[s].at = "publish"
    BY <1>7 DEF WorkerMoves, Becomes
  <2>. QED BY <1>7, <2>1, HandsKept
<1>8. CASE Sleep \/ Leave \/ Check \/ OpenFile \/ ClearDevice \/ Feed
  <2>1. UNCHANGED <<accepted, status, notified, pending>>
    BY <1>8 DEF Sleep, Leave, Check, OpenFile, ClearDevice, Feed, requests
  <2>. QED BY <1>0, <1>7, <1>8, <2>1, WorkerTable
<1>9. CASE WriteChunk \/ TimeOut \/ FinishPlayback \/ Restore \/ Settle
  <2>1. UNCHANGED <<accepted, status, notified, pending>>
    BY <1>9 DEF WriteChunk, TimeOut, FinishPlayback, Restore, Settle, requests
  <2>. QED BY <1>0, <1>7, <1>9, <2>1, WorkerTable
<1>10. CASE JoinWorker \/ CloseDevice
  <2>1. UNCHANGED <<accepted, status, notified, pending>>
    BY <1>10 DEF JoinWorker, CloseDevice, requests
  <2>2. \A s \in Thread : /\ thread'[s].gen = thread[s].gen
                          /\ thread'[s].at = "publish" <=> thread[s].at = "publish"
    BY <1>0, <1>10, MainTable DEF Becomes
  <2>. QED BY <2>1, <2>2, HandsKept
<1>11. ASSUME UNCHANGED <<accepted, status, notified, pending, thread>>
       PROVE  HeldOnce' /\ Claimed' /\ NotYet'
  BY <1>11, HandsKept
<1>12. /\ \A t \in Client : SubmitRejected(t) => UNCHANGED <<accepted, status, notified, pending, thread>>
       /\ \A g \in Request : Stop(g) => UNCHANGED <<accepted, status, notified, pending, thread>>
       /\ Look \/ KeepAlive \/ KeeperLeaves \/ Drain \/ UNCHANGED localVars
            => UNCHANGED <<accepted, status, notified, pending, thread>>
  BY DEF SubmitRejected, Stop, Look, KeepAlive, KeeperLeaves, Drain, localVars, requests
<1>. QED
  BY <1>1, <1>2, <1>3, <1>4, <1>5, <1>6, <1>8, <1>9, <1>10, <1>11, <1>12, NextCases

LEMMA OwnerInit == LocalInit => OwnerInv
<1>. SUFFICES ASSUME LocalInit PROVE OwnerInv
  OBVIOUS
<1>1. \A t \in Thread : thread[t].at = "idle" /\ thread[t].gen = 0
  BY RestIsTyped DEF LocalInit
<1>2. /\ accepted = 0 /\ pending = 0 /\ \A g \in Request : ~Finished(g) /\ ~notified[g] /\ ~(g <= accepted) /\ g # 0
  BY DEF LocalInit, Finished, PlaybackOutcome, NoRequest, Request
<1>3. HeldOnce /\ Claimed /\ NotYet
  BY <1>1, <1>2 DEF HeldOnce, Claimed, NotYet, NoRequest
<1>. QED BY <1>3, InitTyped DEF OwnerInv

\* Every accepted request that has not ended has one owner, the slot or one
\* thread, whoever displaced, took or discarded it; what has ended has none.
\* So nobody waits on a handle that nobody will finish, and nothing is
\* finished twice.
THEOREM RequestsHaveOneOwner == LocalSpec => []HeldOnce
<1>1. OwnerInv => HeldOnce
  BY DEF OwnerInv
<1>. QED BY <1>1, OwnerInit, OwnerStep, PTL DEF LocalSpec

-----------------------------------------------------------------------------
(* What the statistics say.                                                *)

\* A thread that has an outcome for its request has the one its stop asks for.
JudgedThread(t) ==
  /\ thread[t].gen # NoRequest /\ thread[t].outcome = "Replaced" => reason[thread[t].gen] = "Replaced"
  /\ thread[t].at \in {"count", "publish"} /\ thread[t].outcome = "Completed" =>
       reason[thread[t].gen] # "Replaced"

JudgedStatus(g) ==
  /\ status[g] = "Replaced" => reason[g] = "Replaced"
  /\ status[g] = "Completed" => reason[g] # "Replaced"

Judged == (\A t \in Thread : JudgedThread(t)) /\ (\A g \in Request : JudgedStatus(g))

JudgedInv == OwnerInv /\ FreshInv /\ Judged

\* The reasons a newer request leaves.
LEMMA SubmitReasons ==
  ASSUME LocalTypeOK, NEW t \in Client, Submit(t)
  PROVE  /\ \A g \in Request :
              reason'[g] # reason[g] => reason[g] = "None" /\ reason'[g] = "Replaced" /\ g \in {activeRequest, pending}
         /\ pending # NoRequest =>
              reason'[pending] # "None" /\ thread'[t].outcome = OutcomeFor(reason'[pending])
<1>. DEFINE stopped == StopOf("Replaced", activeRequest)
            both == IF pending # NoRequest /\ stopped[pending] = "None"
                    THEN [stopped EXCEPT ![pending] = "Replaced"] ELSE stopped
<1>1. reason' = both
  BY DEF Submit
<1>2. /\ stopped \in [Request -> StopReason]
      /\ \A g \in Request : stopped[g] # reason[g] =>
           reason[g] = "None" /\ stopped[g] = "Replaced" /\ g = activeRequest
  BY DEF LocalTypeOK, StopOf, StopReason
<1>3. ASSUME pending # NoRequest
      PROVE  /\ pending \in Request
             /\ thread' = [thread EXCEPT ![t] = Finishing(pending, OutcomeFor(reason'[pending]))]
  <2>1. pending \in Request
    BY <1>3 DEF LocalTypeOK, Request, NoRequest
  <2>2. thread' = [thread EXCEPT ![t] = Finishing(pending, OutcomeFor(reason'[pending]))]
    BY <1>3, Zenon DEF Submit
  <2>. QED BY <2>1, <2>2
<1>. HIDE DEF stopped
<1>4. pending # NoRequest => both[pending] # "None"
  BY <1>2, <1>3
<1>5. \A g \in Request : both[g] # reason[g] => reason[g] = "None" /\ both[g] = "Replaced" /\ g \in {activeRequest, pending}
  BY <1>2
<1>. HIDE DEF both
<1>6. pending # NoRequest => thread'[t].outcome = OutcomeFor(reason'[pending])
  BY <1>3 DEF LocalTypeOK, Thread, Finishing
<1>. QED BY <1>1, <1>4, <1>5, <1>6

\* Only a newer request is a reason to be replaced, and the first reason stays.
LEMMA ReasonsLast ==
  ASSUME LocalTypeOK, [LocalNext]_localVars
  PROVE  \/ \E t \in Client : Submit(t)
         \/ \A g \in Request : reason'[g] = "Replaced" <=> reason[g] = "Replaced"
<1>1. CASE Shutdown
  <2>. DEFINE stopped == StopOf("Shutdown", activeRequest)
  <2>1. stopped \in [Request -> StopReason]
        /\ \A g \in Request : stopped[g] = "Replaced" <=> reason[g] = "Replaced"
    BY DEF LocalTypeOK, StopOf, StopReason
  <2>2. reason' = IF pending # NoRequest /\ stopped[pending] = "None"
                  THEN [stopped EXCEPT ![pending] = "Shutdown"] ELSE stopped
    BY <1>1 DEF Shutdown
  <2>. HIDE DEF stopped
  <2>. QED BY <2>1, <2>2
<1>2. ASSUME NEW g \in Request, Stop(g)
      PROVE  \A h \in Request : reason'[h] = "Replaced" <=> reason[h] = "Replaced"
  BY <1>2 DEF Stop, StopOf, LocalTypeOK
<1>3. CASE UNCHANGED reason
  BY <1>3
<1>4. /\ \A t \in Client : SubmitRejected(t) \/ Notify(t) => UNCHANGED reason
      /\ \A t \in Thread : CountOutcome(t) \/ PublishOutcome(t) => UNCHANGED reason
      /\ Notify(Main) \/ Sleep \/ Leave \/ Take \/ Check \/ OpenFile \/ ClearDevice \/ Feed \/ WriteChunk
           => UNCHANGED reason
      /\ TimeOut \/ FinishPlayback \/ Restore \/ Settle \/ Look \/ KeepAlive \/ KeeperLeaves \/ Drain
           \/ JoinWorker \/ CloseDevice \/ UNCHANGED localVars => UNCHANGED reason
  BY DEF SubmitRejected, Notify, CountOutcome, PublishOutcome, Sleep, Leave, Take, Check, OpenFile, ClearDevice, Feed,
     WriteChunk, TimeOut, FinishPlayback, Restore, Settle, Look, KeepAlive, KeeperLeaves, Drain, JoinWorker,
     CloseDevice, localVars, requests
<1>. QED BY <1>1, <1>2, <1>3, <1>4, NextCases

\* What is being counted, or has ended, can no longer be replaced.
LEMMA EndsAreFinal ==
  ASSUME JudgedInv, [LocalNext]_localVars
  PROVE  /\ \A g \in Request : reason[g] = "Replaced" => reason'[g] = "Replaced"
         /\ \A g \in Request :
              Finished(g) \/ (\E t \in Thread : thread[t].gen = g /\ thread[t].at \in {"count", "publish"})
                => (reason'[g] = "Replaced" => reason[g] = "Replaced")
<1>. SUFFICES ASSUME NEW t \in Client, Submit(t) PROVE
         /\ \A g \in Request : reason[g] = "Replaced" => reason'[g] = "Replaced"
         /\ \A g \in Request :
              Finished(g) \/ (\E s \in Thread : thread[s].gen = g /\ thread[s].at \in {"count", "publish"})
                => g \notin {activeRequest, pending}
  BY ReasonsLast, SubmitReasons DEF JudgedInv, OwnerInv, Typed
<1>1. \A g \in Request : reason[g] = "Replaced" => reason'[g] = "Replaced"
  BY SubmitReasons DEF JudgedInv, OwnerInv, Typed
<1>2. Worker \in Thread
  BY DEF Thread
<1>3. ASSUME NEW g \in Request,
             Finished(g) \/ (\E s \in Thread : thread[s].gen = g /\ thread[s].at \in {"count", "publish"})
      PROVE  g \notin {activeRequest, pending}
  <2>1. g # NoRequest
    BY DEF Request, NoRequest
  <2>2. g = activeRequest => thread[Worker].gen = g /\ thread[Worker].at \in Working
    BY <2>1 DEF JudgedInv, FreshInv, Current
  <2>3. CASE Finished(g)
    BY <1>2, <2>2, <2>3 DEF JudgedInv, OwnerInv, HeldOnce
  <2>4. ASSUME NEW s \in Thread, thread[s].gen = g, thread[s].at \in {"count", "publish"}
        PROVE  g \notin {activeRequest, pending}
    <3>1. thread[s].at \notin Working
      BY <2>4 DEF Working
    <3>. QED BY <1>2, <2>1, <2>2, <2>4, <3>1 DEF JudgedInv, OwnerInv, HeldOnce
  <2>. QED BY <1>3, <2>3, <2>4
<1>. QED BY <1>1, <1>3

\* A thread that keeps its request and outcome stays judged.
LEMMA StaysJudged ==
  ASSUME JudgedInv, [LocalNext]_localVars, NEW t \in Thread,
         thread'[t].gen = thread[t].gen, thread'[t].outcome = thread[t].outcome,
         thread'[t].at \in {"count", "publish"} => thread[t].at \in {"count", "publish"}
  PROVE  JudgedThread(t)'
<1>1. thread[t].gen \in 0 .. MaxRequests
  BY DEF JudgedInv, OwnerInv, Typed, LocalTypeOK, ThreadState
<1>2. CASE thread[t].gen = NoRequest
  <2>1. thread[t].at \notin {"count", "publish"}
    BY <1>2 DEF JudgedInv, OwnerInv, Typed, Busy, Resting
  <2>. QED BY <1>2, <2>1 DEF JudgedThread
<1>3. CASE thread[t].gen # NoRequest
  <2>1. thread[t].gen \in Request
    BY <1>1, <1>3 DEF Request, NoRequest
  <2>. QED BY <2>1, EndsAreFinal DEF JudgedInv, Judged, JudgedThread
<1>. QED BY <1>2, <1>3

\* What the worker's steps make of the outcome.
LEMMA OutcomeTable ==
  ASSUME Typed
  PROVE  /\ Sleep \/ Leave \/ ClearDevice \/ FinishPlayback \/ Restore =>
              thread'[Worker].outcome = thread[Worker].outcome
         /\ Check \/ OpenFile \/ Feed \/ WriteChunk \/ TimeOut \/ Settle =>
              (thread'[Worker].outcome = "Replaced" =>
                 thread[Worker].outcome = "Replaced" \/ reason[thread[Worker].gen] = "Replaced")
         /\ Settle => (thread'[Worker].outcome = "Completed" => reason[thread[Worker].gen] = "None")
<1>. DEFINE w == thread[Worker]
<1>1. Worker \in Thread /\ w \in ThreadState /\ thread \in [Thread -> ThreadState]
  BY DEF Thread, Typed, LocalTypeOK
<1>2. \A to : Move(Worker, to) => thread'[Worker].outcome = w.outcome
  BY <1>1 DEF Move, ThreadState
<1>3. \A to, o : WorkerEnds(to, o) => thread'[Worker].outcome = o
  <2>. SUFFICES ASSUME NEW to, NEW o, WorkerEnds(to, o) PROVE thread'[Worker].outcome = o
    OBVIOUS
  <2>. DEFINE new == [w EXCEPT !.at = to, !.outcome = o]
  <2>1. new.outcome = o
    BY <1>1 DEF ThreadState
  <2>2. thread'[Worker] = new
    BY <1>1 DEF WorkerEnds
  <2>. QED BY <2>1, <2>2
<1>4. Sleep \/ Leave \/ ClearDevice \/ FinishPlayback \/ Restore => thread'[Worker].outcome = w.outcome
  BY <1>2 DEF Sleep, Leave, ClearDevice, FinishPlayback, Restore
<1>5. Check \/ OpenFile \/ Feed \/ WriteChunk \/ TimeOut =>
        (thread'[Worker].outcome = "Replaced" => w.outcome = "Replaced" \/ reason[w.gen] = "Replaced")
  BY <1>2, <1>3, Zenon DEF Check, OpenFile, Feed, WriteChunk, TimeOut, OutcomeFor
<1>6. ASSUME Settle
      PROVE  /\ thread'[Worker].outcome = "Replaced" => w.outcome = "Replaced" \/ reason[w.gen] = "Replaced"
             /\ thread'[Worker].outcome = "Completed" => reason[w.gen] = "None"
  <2>. DEFINE o == IF reason[w.gen] # "None" /\ w.outcome \notin {"Failed", "TimedOut"}
                   THEN OutcomeFor(reason[w.gen]) ELSE w.outcome
  <2>1. thread'[Worker].outcome = o
    BY <1>3, <1>6 DEF Settle
  <2>2. reason[w.gen] \in StopReason
    <3>1. w.at = "settle"
      BY <1>6 DEF Settle
    <3>2. w.gen # NoRequest /\ w.gen \in 0 .. MaxRequests
      BY <1>1, <3>1 DEF Typed, Busy, Resting, ThreadState
    <3>. QED BY <3>2 DEF Typed, LocalTypeOK, Request, NoRequest
  <2>. QED BY <2>1, <2>2 DEF OutcomeFor, StopReason
<1>. QED BY <1>4, <1>5, <1>6

LEMMA StatusesStayJudged ==
  ASSUME JudgedInv, [LocalNext]_localVars, NEW g \in Request, status'[g] = status[g]
  PROVE  JudgedStatus(g)'
BY EndsAreFinal DEF JudgedInv, Judged, JudgedStatus, Finished, PlaybackOutcome

LEMMA JudgedStep == JudgedInv /\ [LocalNext]_localVars => JudgedInv'
<1>. SUFFICES ASSUME JudgedInv, [LocalNext]_localVars PROVE Judged'
  BY OwnerStep, FreshStep DEF JudgedInv
<1>0. /\ Worker \in Thread /\ Main \in Thread /\ Client \subseteq Thread
      /\ Typed /\ Typed' /\ LocalTypeOK /\ Worker \notin Client /\ Main # Worker
  BY TypedStep, LocalAudioAssumption DEF Thread, JudgedInv, OwnerInv, Typed, LocalAudioAssumption
<1>. USE DEF Judged
<1>1. ASSUME NEW t \in Thread, JudgedThread(t)', status' = status,
             \A s \in Thread \ {t} : thread'[s] = thread[s]
      PROVE  Judged'
  BY <1>1, StaysJudged, StatusesStayJudged
<1>2. ASSUME NEW t \in Client, Submit(t) PROVE Judged'
  <2>1. Becomes(t, IF pending = 0 THEN "notify" ELSE "count", pending, thread'[t].outcome)
    BY <1>0, <1>2, HandTable
  <2>2. pending # NoRequest =>
          reason'[pending] # "None" /\ thread'[t].outcome = OutcomeFor(reason'[pending])
    BY <1>0, <1>2, SubmitReasons
  <2>3. JudgedThread(t)'
    BY <2>1, <2>2 DEF JudgedThread, Becomes, OutcomeFor, NoRequest
  <2>4. t \in Thread /\ status' = status /\ \A s \in Thread \ {t} : thread'[s] = thread[s]
    BY <1>0, <1>2, <2>1 DEF Submit, Becomes
  <2>. QED BY <1>1, <2>3, <2>4
<1>3. CASE Shutdown
  <2>1. Becomes(Main, IF pending = 0 THEN "notify" ELSE "count", pending, thread'[Main].outcome)
    BY <1>0, <1>3, HandTable
  <2>2. pending # NoRequest => thread'[Main].outcome = "Shutdown"
    BY <1>0, <1>3 DEF Shutdown, Finishing, LocalTypeOK
  <2>3. JudgedThread(Main)'
    BY <2>1, <2>2 DEF JudgedThread, Becomes, NoRequest
  <2>4. status' = status /\ \A s \in Thread \ {Main} : thread'[s] = thread[s]
    BY <1>3, <2>1 DEF Shutdown, Becomes
  <2>. QED BY <1>0, <1>1, <2>3, <2>4
<1>4. CASE Take
  <2>1. Becomes(Worker, "check", pending, "Completed")
    BY <1>0, <1>4, HandTable
  <2>2. status' = [status EXCEPT ![pending] = "Playing"]
    BY <1>4 DEF Take
  <2>3. JudgedThread(Worker)'
    BY <2>1 DEF JudgedThread, Becomes
  <2>4. \A s \in Thread : JudgedThread(s)'
    BY <2>1, <2>3, StaysJudged DEF Becomes
  <2>5. ASSUME NEW g \in Request PROVE JudgedStatus(g)'
    <3>1. CASE g = pending
      BY <1>0, <2>2, <3>1 DEF JudgedStatus, LocalTypeOK
    <3>2. CASE g # pending
      BY <1>0, <2>2, <3>2, StatusesStayJudged DEF LocalTypeOK
    <3>. QED BY <3>1, <3>2
  <2>. QED BY <2>4, <2>5
<1>5. ASSUME NEW t \in Thread, CountOutcome(t) PROVE Judged'
  <2>1. /\ thread[t].at = "count"
        /\ IF notified[thread[t].gen]
           THEN Becomes(t, IF t = Worker THEN "idle" ELSE "notify", 0, thread'[t].outcome)
           ELSE Becomes(t, "publish", thread[t].gen, thread[t].outcome)
    BY <1>0, <1>5, HandTable
  <2>2. JudgedThread(t)'
    <3>1. CASE notified[thread[t].gen]
      BY <2>1, <3>1 DEF JudgedThread, Becomes, NoRequest
    <3>2. CASE ~notified[thread[t].gen]
      BY <2>1, <3>2, StaysJudged DEF Becomes
    <3>. QED BY <3>1, <3>2
  <2>3. status' = status /\ \A s \in Thread \ {t} : thread'[s] = thread[s]
    BY <1>5, <2>1 DEF CountOutcome, Becomes
  <2>. QED BY <1>1, <2>2, <2>3
<1>6. ASSUME NEW t \in Thread, PublishOutcome(t) PROVE Judged'
  <2>1. /\ thread[t].at = "publish"
        /\ Becomes(t, IF t = Worker THEN "idle" ELSE "notify", 0, thread'[t].outcome)
    BY <1>0, <1>6, HandTable
  <2>2. status' = [status EXCEPT ![thread[t].gen] = thread[t].outcome] /\ reason' = reason
    BY <1>6 DEF PublishOutcome
  <2>3. JudgedThread(t)'
    BY <2>1 DEF JudgedThread, Becomes, NoRequest
  <2>4. \A s \in Thread : JudgedThread(s)'
    BY <2>1, <2>3, StaysJudged DEF Becomes
  <2>5. ASSUME NEW g \in Request PROVE JudgedStatus(g)'
    <3>1. CASE g = thread[t].gen
      <4>1. g # NoRequest
        BY DEF Request, NoRequest
      <4>2. status'[g] = thread[t].outcome
        BY <1>0, <2>2, <3>1 DEF LocalTypeOK
      <4>. QED BY <2>1, <2>2, <3>1, <4>1, <4>2 DEF JudgedInv, JudgedStatus, JudgedThread
    <3>2. CASE g # thread[t].gen
      BY <1>0, <2>2, <3>2, StatusesStayJudged DEF LocalTypeOK
    <3>. QED BY <3>1, <3>2
  <2>. QED BY <2>4, <2>5
<1>7. ASSUME NEW t \in Client \cup {Main}, Notify(t) PROVE Judged'
  <2>1. status' = status /\ thread[t].at = "notify"
    BY <1>7 DEF Notify, requests
  <2>2. ASSUME NEW s \in Thread
        PROVE  /\ thread'[s].gen = thread[s].gen /\ thread'[s].outcome = thread[s].outcome
               /\ thread'[s].at \in {"count", "publish"} => thread[s].at \in {"count", "publish"}
    BY <1>0, <1>7, NotifyMoves
  <2>. QED BY <2>1, <2>2, StaysJudged, StatusesStayJudged
<1>8. ASSUME Sleep \/ Leave \/ ClearDevice \/ FinishPlayback \/ Restore PROVE Judged'
  <2>1. status' = status
    BY <1>8 DEF Sleep, Leave, ClearDevice, FinishPlayback, Restore, requests
  <2>2. /\ thread'[Worker].gen = thread[Worker].gen /\ thread'[Worker].at \notin {"count", "publish"}
        /\ \A s \in Thread \ {Worker} : thread'[s] = thread[s]
    BY <1>0, <1>8, WorkerTable DEF WorkerMoves, Becomes
  <2>3. thread'[Worker].outcome = thread[Worker].outcome
    BY <1>0, <1>8, OutcomeTable
  <2>4. JudgedThread(Worker)'
    BY <1>0, <2>2, <2>3, StaysJudged
  <2>. QED BY <1>0, <1>1, <2>1, <2>2, <2>4
<1>9. ASSUME Check \/ OpenFile \/ Feed \/ WriteChunk \/ TimeOut \/ Settle PROVE Judged'
  <2>1. status' = status /\ reason' = reason
    BY <1>9 DEF Check, OpenFile, Feed, WriteChunk, TimeOut, Settle, requests
  <2>2. /\ thread'[Worker].gen = thread[Worker].gen
        /\ thread'[Worker].at \in {"count", "publish"} => Settle
        /\ \A s \in Thread \ {Worker} : thread'[s] = thread[s]
    BY <1>0, <1>9, WorkerTable DEF WorkerMoves, Becomes
  <2>3. JudgedThread(Worker)'
    BY <1>0, <1>9, <2>1, <2>2, OutcomeTable DEF JudgedInv, JudgedThread
  <2>. QED BY <1>0, <1>1, <2>1, <2>2, <2>3
<1>10. CASE JoinWorker \/ CloseDevice
  <2>1. status' = status
    BY <1>10 DEF JoinWorker, CloseDevice, requests
  <2>2. /\ thread'[Main].gen = thread[Main].gen /\ thread'[Main].outcome = thread[Main].outcome
        /\ thread'[Main].at \notin {"count", "publish"}
        /\ \A s \in Thread \ {Main} : thread'[s] = thread[s]
    BY <1>0, <1>10, MainTable DEF Becomes
  <2>3. JudgedThread(Main)'
    BY <1>0, <2>2, StaysJudged
  <2>. QED BY <1>0, <1>1, <2>1, <2>2, <2>3
<1>11. CASE UNCHANGED <<status, thread>>
  BY <1>11, StaysJudged, StatusesStayJudged
<1>12. /\ \A t \in Client : SubmitRejected(t) => UNCHANGED <<status, thread>>
       /\ \A g \in Request : Stop(g) => UNCHANGED <<status, thread>>
       /\ Look \/ KeepAlive \/ KeeperLeaves \/ Drain \/ UNCHANGED localVars => UNCHANGED <<status, thread>>
  BY DEF SubmitRejected, Stop, Look, KeepAlive, KeeperLeaves, Drain, localVars, requests
<1>. QED
  BY <1>2, <1>3, <1>4, <1>5, <1>6, <1>7, <1>8, <1>9, <1>10, <1>11, <1>12, NextCases

LEMMA JudgedInit == LocalInit => JudgedInv
<1>. SUFFICES ASSUME LocalInit PROVE JudgedInv
  OBVIOUS
<1>1. \A t \in Thread : thread[t].at = "idle" /\ thread[t].gen = 0
  BY RestIsTyped DEF LocalInit
<1>2. Judged
  BY <1>1 DEF LocalInit, Judged, JudgedThread, JudgedStatus, NoRequest
<1>. QED BY <1>2, OwnerInit, FreshInit DEF JudgedInv

\* Steps that end no request and claim none leave what was counted.
LEMMA CountedKept ==
  ASSUME \A g \in Request : status'[g] = status[g] \/ (~Finished(g) /\ ~Finished(g)'),
         \A t \in Thread : /\ thread'[t].at = "publish" <=> thread[t].at = "publish"
                           /\ thread[t].at = "publish" => /\ thread'[t].gen = thread[t].gen
                                                          /\ thread'[t].outcome = thread[t].outcome
  PROVE  \A o \in PlaybackOutcome : Counted(o)' = Counted(o)
<1>. SUFFICES ASSUME NEW o \in PlaybackOutcome, NEW g \in Request
              PROVE  g \in Counted(o)' <=> g \in Counted(o)
  BY DEF Counted
<1>1. status'[g] = o <=> status[g] = o
  BY DEF Finished
<1>2. (\E t \in Thread : thread'[t].gen = g /\ thread'[t].at = "publish" /\ thread'[t].outcome = o)
        <=> (\E t \in Thread : thread[t].gen = g /\ thread[t].at = "publish" /\ thread[t].outcome = o)
  OBVIOUS
<1>. QED BY <1>1, <1>2 DEF Counted

LEMMA CountedFinite ==
  /\ \A S \in SUBSET Request : IsFiniteSet(S) /\ Cardinality(S) \in Nat
  /\ \A o : Counted(o) \in SUBSET Request
<1>1. IsFiniteSet(Request)
  BY FS_Interval, LocalAudioAssumption DEF Request, LocalAudioAssumption
<1>. QED BY <1>1, FS_Subset, FS_CardinalityType DEF Counted

\* A completion that is claimed is one more under its outcome.
LEMMA CountOutcomeCounts ==
  ASSUME JudgedInv, NEW t \in Thread, CountOutcome(t)
  PROVE  \E g \in Request, p \in PlaybackOutcome :
           /\ \A o \in PlaybackOutcome : g \notin Counted(o)
           /\ Counted(p)' = Counted(p) \cup {g}
           /\ \A o \in PlaybackOutcome \ {p} : Counted(o)' = Counted(o)
           /\ count' = LET c == IF p = "Shutdown" THEN "Stopped" ELSE p
                       IN  IF c = "Replaced" THEN count ELSE [count EXCEPT ![c] = @ + 1]
<1>. PICK g, p : g = thread[t].gen /\ p = thread[t].outcome
  OBVIOUS
<1>0. Typed
  BY DEF JudgedInv, OwnerInv
<1>1. thread[t].at = "count" /\ g \in Request /\ p \in PlaybackOutcome
  <2>1. thread[t].at = "count"
    BY <1>0, HandTable
  <2>2. g # 0
    BY <1>0, <2>1 DEF Typed, Busy, Resting, NoRequest
  <2>3. thread[t] \in ThreadState
    BY <1>0 DEF Typed, LocalTypeOK
  <2>. QED BY <2>1, <2>2, <2>3 DEF ThreadState, Request
<1>2. ~Finished(g) /\ \A s \in Thread : thread[s].gen = g => s = t
  BY <1>1 DEF JudgedInv, OwnerInv, HeldOnce, NoRequest, Request
<1>3. ~notified[g]
  BY <1>1, <1>2 DEF JudgedInv, OwnerInv, Claimed
<1>4. Becomes(t, "publish", g, p)
  BY <1>0, <1>3, HandTable
<1>5. status' = status
  BY DEF CountOutcome
<1>6. count' = LET c == IF p = "Shutdown" THEN "Stopped" ELSE p
               IN  IF c = "Replaced" THEN count ELSE [count EXCEPT ![c] = @ + 1]
  BY <1>3, Zenon DEF CountOutcome
<1>7. \A o \in PlaybackOutcome : g \notin Counted(o)
  BY <1>1, <1>2 DEF Counted, Finished
<1>8. ASSUME NEW o \in PlaybackOutcome, NEW h \in Request
      PROVE  h \in Counted(o)' <=> h \in Counted(o) \/ (h = g /\ o = p)
  <2>1. \A s \in Thread \ {t} : thread'[s] = thread[s]
    BY <1>4 DEF Becomes
  <2>2. /\ thread'[t].at = "publish" /\ thread'[t].gen = g /\ thread'[t].outcome = p
        /\ thread[t].at # "publish"
    BY <1>1, <1>4 DEF Becomes
  <2>. QED BY <1>5, <2>1, <2>2 DEF Counted
<1>9. \A o \in PlaybackOutcome : Counted(o) \subseteq Request /\ Counted(o)' \subseteq Request
  BY DEF Counted
<1>10. Counted(p)' = Counted(p) \cup {g}
  <2>1. \A h \in Request : h \in Counted(p)' <=> h \in Counted(p) \cup {g}
    BY <1>1, <1>8
  <2>2. Counted(p)' \subseteq Request /\ Counted(p) \cup {g} \subseteq Request
    BY <1>1, <1>9
  <2>. QED BY <2>1, <2>2
<1>11. ASSUME NEW o \in PlaybackOutcome \ {p} PROVE Counted(o)' = Counted(o)
  <2>1. \A h \in Request : h \in Counted(o)' <=> h \in Counted(o)
    BY <1>8
  <2>2. Counted(o)' \subseteq Request /\ Counted(o) \subseteq Request
    BY <1>9
  <2>. QED BY <2>1, <2>2
<1>. QED BY <1>1, <1>6, <1>7, <1>10, <1>11

\* What is shown was counted before.
LEMMA PublishCounts ==
  ASSUME JudgedInv, NEW t \in Thread, PublishOutcome(t)
  PROVE  \A o \in PlaybackOutcome : Counted(o)' = Counted(o)
<1>. DEFINE g == thread[t].gen
            p == thread[t].outcome
<1>0. Typed
  BY DEF JudgedInv, OwnerInv
<1>1. thread[t].at = "publish" /\ g \in Request /\ p \in PlaybackOutcome
  <2>1. thread[t].at = "publish"
    BY <1>0, HandTable
  <2>2. g # 0
    BY <1>0, <2>1 DEF Typed, Busy, Resting, NoRequest
  <2>3. thread[t] \in ThreadState
    BY <1>0 DEF Typed, LocalTypeOK
  <2>. QED BY <2>1, <2>2, <2>3 DEF ThreadState, Request
<1>2. ~Finished(g) /\ \A s \in Thread : thread[s].gen = g => s = t
  BY <1>1 DEF JudgedInv, OwnerInv, HeldOnce, NoRequest, Request
<1>3. thread'[t].at # "publish" /\ \A s \in Thread \ {t} : thread'[s] = thread[s]
  BY <1>0, HandTable DEF Becomes
<1>4. status'[g] = p /\ \A h \in Request \ {g} : status'[h] = status[h]
  BY <1>0, <1>1 DEF PublishOutcome, Typed, LocalTypeOK
<1>5. p = thread[t].outcome /\ g = thread[t].gen
  OBVIOUS
<1>. HIDE DEF g, p
<1>6. ASSUME NEW o \in PlaybackOutcome, NEW h \in Request
      PROVE  h \in Counted(o)' <=> h \in Counted(o)
  <2>1. CASE h = g
    <3>1. h \in Counted(o) <=> o = p
      BY <1>1, <1>2, <1>5, <2>1 DEF Counted, Finished
    <3>2. h \in Counted(o)' <=> o = p
      <4>1. ~\E s \in Thread : thread'[s].gen = g /\ thread'[s].at = "publish"
        BY <1>2, <1>3
      <4>. QED BY <1>1, <1>4, <2>1, <4>1 DEF Counted
    <3>. QED BY <3>1, <3>2
  <2>2. CASE h # g
    <3>1. (\E s \in Thread : thread'[s].gen = h /\ thread'[s].at = "publish" /\ thread'[s].outcome = o)
            <=> (\E s \in Thread : thread[s].gen = h /\ thread[s].at = "publish" /\ thread[s].outcome = o)
      BY <1>1, <1>3, <1>5, <2>2
    <3>. QED BY <1>4, <2>2, <3>1 DEF Counted
  <2>. QED BY <2>1, <2>2
<1>. QED BY <1>6 DEF Counted

\* Replacements are counted when they are asked for, ends when they are claimed.
ReplacedAgree == count["Replaced"] = Cardinality({g \in Request : reason[g] = "Replaced"})

EndsAgree ==
  /\ count["Stopped"] = Cardinality(Counted("Stopped") \cup Counted("Shutdown"))
  /\ \A o \in {"Completed", "Failed", "TimedOut"} : count[o] = Cardinality(Counted(o))

LEMMA ReplacedStep ==
  ASSUME JudgedInv, ReplacedAgree, [LocalNext]_localVars
  PROVE  ReplacedAgree'
<1>0. LocalTypeOK
  BY DEF JudgedInv, OwnerInv, Typed
<1>1. ASSUME NEW t \in Client, Submit(t) PROVE ReplacedAgree'
  <2>. DEFINE R == {g \in Request : reason[g] = "Replaced"}
              D == {g \in Request : reason[g] # reason'[g]}
              S == {g \in Request : reason'[g] = "Replaced"}
  <2>1. S = R \cup D /\ R \cap D = {}
    BY <1>0, <1>1, SubmitReasons
  <2>2. IsFiniteSet(R) /\ IsFiniteSet(D)
    BY CountedFinite
  <2>3. Cardinality(S) = Cardinality(R) + Cardinality(D)
    <3>1. Cardinality(R \cup D) = Cardinality(R) + Cardinality(D) - Cardinality(R \cap D)
      BY <2>2, FS_Union
    <3>2. Cardinality(R \cap D) = 0
      BY <2>1, FS_EmptySet
    <3>3. Cardinality(R) \in Nat /\ Cardinality(D) \in Nat
      BY <2>2, FS_CardinalityType
    <3>. HIDE DEF R, D, S
    <3>. QED BY <2>1, <3>1, <3>2, <3>3
  <2>4. count'["Replaced"] = count["Replaced"] + Cardinality(D)
    <3>1. count' = [count EXCEPT !["Replaced"] = @ + Cardinality(D)]
      BY <1>1, Zenon DEF Submit
    <3>. QED BY <1>0, <3>1 DEF LocalTypeOK, Counter
  <2>. QED BY <2>3, <2>4 DEF ReplacedAgree
<1>2. CASE ~\E t \in Client : Submit(t)
  <2>1. \A g \in Request : reason'[g] = "Replaced" <=> reason[g] = "Replaced"
    BY <1>0, <1>2, ReasonsLast
  <2>2. {g \in Request : reason'[g] = "Replaced"} = {g \in Request : reason[g] = "Replaced"}
    BY <2>1
  <2>3. count'["Replaced"] = count["Replaced"]
    <3>1. ASSUME NEW t \in Thread, CountOutcome(t) PROVE count'["Replaced"] = count["Replaced"]
      <4>1. PICK p \in PlaybackOutcome :
              count' = LET c == IF p = "Shutdown" THEN "Stopped" ELSE p
                       IN  IF c = "Replaced" THEN count ELSE [count EXCEPT ![c] = @ + 1]
        BY <3>1, CountOutcomeCounts
      <4>. QED BY <1>0, <4>1 DEF LocalTypeOK, Counter
    <3>2. ASSUME NEW t \in Client, SubmitRejected(t) PROVE count'["Replaced"] = count["Replaced"]
      BY <1>0, <3>2 DEF SubmitRejected, LocalTypeOK, Counter
    <3>3. /\ \A t \in Client : Notify(t) => UNCHANGED count
          /\ \A t \in Thread : PublishOutcome(t) => UNCHANGED count
          /\ \A g \in Request : Stop(g) => UNCHANGED count
          /\ Notify(Main) \/ Sleep \/ Leave \/ Take \/ Check \/ OpenFile \/ ClearDevice \/ Feed \/ WriteChunk
               => UNCHANGED count
          /\ TimeOut \/ FinishPlayback \/ Restore \/ Settle \/ Look \/ KeepAlive \/ KeeperLeaves \/ Drain
               \/ Shutdown \/ JoinWorker \/ CloseDevice \/ UNCHANGED localVars => UNCHANGED count
      BY DEF Notify, PublishOutcome, Stop, Sleep, Leave, Take, Check, OpenFile, ClearDevice, Feed,
         WriteChunk, TimeOut, FinishPlayback, Restore, Settle, Look, KeepAlive, KeeperLeaves, Drain, Shutdown, JoinWorker,
         CloseDevice, localVars
    <3>. QED BY <1>2, <3>1, <3>2, <3>3, NextCases
  <2>. QED BY <2>2, <2>3 DEF ReplacedAgree
<1>. QED BY <1>1, <1>2

LEMMA EndsKept ==
  ASSUME EndsAgree, \A o \in PlaybackOutcome : Counted(o)' = Counted(o),
         \A c \in {"Stopped", "Completed", "Failed", "TimedOut"} : count'[c] = count[c]
  PROVE  EndsAgree'
<1>1. {"Stopped", "Shutdown", "Completed", "Failed", "TimedOut"} \subseteq PlaybackOutcome
  BY DEF PlaybackOutcome
<1>2. Counted("Stopped")' = Counted("Stopped") /\ Counted("Shutdown")' = Counted("Shutdown")
  BY <1>1
<1>3. \A o \in {"Completed", "Failed", "TimedOut"} : Counted(o)' = Counted(o)
  BY <1>1
<1>. QED BY <1>2, <1>3 DEF EndsAgree

LEMMA EndsStep ==
  ASSUME JudgedInv, EndsAgree, [LocalNext]_localVars
  PROVE  EndsAgree'
<1>0. Typed /\ LocalTypeOK /\ Worker \in Thread /\ Main \in Thread /\ Client \subseteq Thread
  BY DEF JudgedInv, OwnerInv, Typed, Thread
<1>1. ASSUME NEW t \in Thread, CountOutcome(t) PROVE EndsAgree'
  <2>1. PICK g \in Request, p \in PlaybackOutcome :
          /\ \A o \in PlaybackOutcome : g \notin Counted(o)
          /\ Counted(p)' = Counted(p) \cup {g}
          /\ \A o \in PlaybackOutcome \ {p} : Counted(o)' = Counted(o)
          /\ count' = LET c == IF p = "Shutdown" THEN "Stopped" ELSE p
                      IN  IF c = "Replaced" THEN count ELSE [count EXCEPT ![c] = @ + 1]
    BY <1>1, CountOutcomeCounts
  <2>2. {"Stopped", "Shutdown", "Completed", "Failed", "TimedOut"} \subseteq PlaybackOutcome
    BY DEF PlaybackOutcome
  <2>3. \A S \in SUBSET Request : g \notin S => Cardinality(S \cup {g}) = Cardinality(S) + 1
    BY CountedFinite, FS_AddElement
  <2>4. count \in [Counter -> Nat]
    BY <1>0 DEF LocalTypeOK
  <2>5. count'["Stopped"] = Cardinality(Counted("Stopped")' \cup Counted("Shutdown")')
    <3>. DEFINE E == Counted("Stopped") \cup Counted("Shutdown")
    <3>1. E \in SUBSET Request /\ g \notin E /\ count["Stopped"] = Cardinality(E)
      BY <2>1, <2>2, CountedFinite DEF EndsAgree
    <3>2. CASE p \in {"Stopped", "Shutdown"}
      <4>1. Counted("Stopped")' \cup Counted("Shutdown")' = E \cup {g}
        BY <2>1, <2>2, <3>2
      <4>2. count'["Stopped"] = count["Stopped"] + 1
        BY <2>1, <2>4, <3>2 DEF Counter
      <4>. HIDE DEF E
      <4>. QED BY <2>3, <3>1, <4>1, <4>2
    <3>3. CASE p \notin {"Stopped", "Shutdown"}
      <4>1. Counted("Stopped")' \cup Counted("Shutdown")' = E
        BY <2>1, <2>2, <3>3
      <4>2. count'["Stopped"] = count["Stopped"]
        BY <2>1, <2>4, <3>3 DEF Counter
      <4>. QED BY <3>1, <4>1, <4>2
    <3>. QED BY <3>2, <3>3
  <2>6. ASSUME NEW o \in {"Completed", "Failed", "TimedOut"}
        PROVE  count'[o] = Cardinality(Counted(o)')
    <3>1. Counted(o) \in SUBSET Request /\ g \notin Counted(o) /\ count[o] = Cardinality(Counted(o))
      BY <2>1, <2>2, CountedFinite DEF EndsAgree
    <3>2. CASE p = o
      <4>1. Counted(o)' = Counted(o) \cup {g}
        BY <2>1, <3>2
      <4>2. count'[o] = count[o] + 1
        BY <2>1, <2>4, <3>2 DEF Counter
      <4>. QED BY <2>3, <3>1, <4>1, <4>2
    <3>3. CASE p # o
      <4>1. Counted(o)' = Counted(o)
        BY <2>1, <2>2, <3>3
      <4>2. count'[o] = count[o]
        BY <2>1, <2>4, <3>3 DEF Counter
      <4>. QED BY <3>1, <4>1, <4>2
    <3>. QED BY <3>2, <3>3
  <2>. QED BY <2>5, <2>6 DEF EndsAgree
<1>2. ASSUME NEW t \in Thread, PublishOutcome(t) PROVE EndsAgree'
  BY <1>2, PublishCounts, EndsKept DEF PublishOutcome
<1>3. ASSUME UNCHANGED status,
             \A t \in Thread : /\ thread'[t].at = "publish" <=> thread[t].at = "publish"
                               /\ thread[t].at = "publish" => /\ thread'[t].gen = thread[t].gen
                                                              /\ thread'[t].outcome = thread[t].outcome,
             \A c \in {"Stopped", "Completed", "Failed", "TimedOut"} : count'[c] = count[c]
      PROVE  EndsAgree'
  BY <1>3, CountedKept, EndsKept
<1>4. ASSUME NEW t \in Client, Submit(t) PROVE EndsAgree'
  <2>1. count' = [count EXCEPT !["Replaced"] = @ + Cardinality({h \in Request : reason[h] # reason'[h]})]
    BY <1>4, Zenon DEF Submit
  <2>2. \A c \in {"Stopped", "Completed", "Failed", "TimedOut"} : count'[c] = count[c]
    BY <1>0, <2>1 DEF LocalTypeOK, Counter
  <2>3. UNCHANGED status
    BY <1>4 DEF Submit
  <2>4. \A s \in Thread : /\ thread'[s].at = "publish" <=> thread[s].at = "publish"
                          /\ thread[s].at = "publish" => /\ thread'[s].gen = thread[s].gen
                                                         /\ thread'[s].outcome = thread[s].outcome
    BY <1>0, <1>4, HandTable DEF Becomes
  <2>. QED BY <1>3, <2>2, <2>3, <2>4
<1>5. CASE Shutdown
  BY <1>0, <1>3, <1>5, HandTable DEF Becomes, Shutdown
<1>6. CASE Take
  <2>1. \A s \in Thread : /\ thread'[s].at = "publish" <=> thread[s].at = "publish"
                          /\ thread[s].at = "publish" => /\ thread'[s].gen = thread[s].gen
                                                         /\ thread'[s].outcome = thread[s].outcome
    BY <1>0, <1>6, HandTable DEF Becomes
  <2>2. pending # NoRequest /\ status' = [status EXCEPT ![pending] = "Playing"] /\ count' = count
    BY <1>6 DEF Take
  <2>3. pending \in Request
    BY <1>0, <2>2 DEF LocalTypeOK, Request, NoRequest
  <2>4. ~Finished(pending)
    BY <2>3 DEF JudgedInv, OwnerInv, HeldOnce
  <2>5. \A g \in Request : status'[g] = status[g] \/ (~Finished(g) /\ ~Finished(g)')
    BY <1>0, <2>2, <2>4 DEF Finished, PlaybackOutcome, LocalTypeOK
  <2>. QED BY <2>1, <2>2, <2>5, CountedKept, EndsKept
<1>7. ASSUME NEW t \in Client \cup {Main}, Notify(t) PROVE EndsAgree'
  <2>1. UNCHANGED <<status, count>> /\ thread[t].at = "notify"
    BY <1>7 DEF Notify, requests
  <2>2. \A s \in Thread : /\ thread'[s].at = "publish" <=> thread[s].at = "publish"
                          /\ thread'[s].gen = thread[s].gen /\ thread'[s].outcome = thread[s].outcome
    BY <1>0, <1>7, <2>1, NotifyMoves
  <2>. QED BY <1>3, <2>1, <2>2
<1>8. ASSUME NEW from, NEW tos, WorkerMoves(from, tos), from # "publish", "publish" \notin tos,
             UNCHANGED <<status, count>>
      PROVE  EndsAgree'
  <2>1. \A s \in Thread : /\ thread'[s].at = "publish" <=> thread[s].at = "publish"
                          /\ thread[s].at = "publish" => /\ thread'[s].gen = thread[s].gen
                                                         /\ thread'[s].outcome = thread[s].outcome
    BY <1>8 DEF WorkerMoves, Becomes
  <2>. QED BY <1>3, <1>8, <2>1
<1>9. CASE Sleep \/ Leave \/ Check \/ OpenFile \/ ClearDevice \/ Feed
  <2>1. UNCHANGED <<status, count>>
    BY <1>9 DEF Sleep, Leave, Check, OpenFile, ClearDevice, Feed, requests
  <2>. QED BY <1>0, <1>8, <1>9, <2>1, WorkerTable
<1>10. CASE WriteChunk \/ TimeOut \/ FinishPlayback \/ Restore \/ Settle
  <2>1. UNCHANGED <<status, count>>
    BY <1>10 DEF WriteChunk, TimeOut, FinishPlayback, Restore, Settle, requests
  <2>. QED BY <1>0, <1>8, <1>10, <2>1, WorkerTable
<1>11. CASE JoinWorker \/ CloseDevice
  BY <1>0, <1>3, <1>11, MainTable DEF Becomes, JoinWorker, CloseDevice, requests
<1>12. ASSUME NEW t \in Client, SubmitRejected(t) PROVE EndsAgree'
  <2>1. \A c \in {"Stopped", "Completed", "Failed", "TimedOut"} : count'[c] = count[c]
    BY <1>0, <1>12 DEF SubmitRejected, LocalTypeOK, Counter
  <2>. QED BY <1>3, <1>12, <2>1 DEF SubmitRejected, requests
<1>13. ASSUME UNCHANGED <<status, thread, count>> PROVE EndsAgree'
  BY <1>3, <1>13
<1>14. /\ \A g \in Request : Stop(g) => UNCHANGED <<status, thread, count>>
       /\ Look \/ KeepAlive \/ KeeperLeaves \/ Drain \/ UNCHANGED localVars => UNCHANGED <<status, thread, count>>
  BY DEF Stop, Look, KeepAlive, KeeperLeaves, Drain, localVars, requests
<1>. QED
  BY <1>1, <1>2, <1>4, <1>5, <1>6, <1>7, <1>9, <1>10, <1>11, <1>12, <1>13, <1>14, NextCases

\* Every accepted request is settled by exactly one of the client that displaced
\* it, the worker and the shutdown, and the statistics count it once, under the
\* outcome its handle shows: what was replaced says so, and what completed was
\* not replaced before it ended.
THEOREM EveryRequestSettlesOnce == LocalSpec => []RequestsSettleOnce
<1>. DEFINE I == JudgedInv /\ ReplacedAgree /\ EndsAgree
<1>1. LocalInit => I
  <2>. SUFFICES ASSUME LocalInit PROVE I
    OBVIOUS
  <2>1. \A t \in Thread : thread[t].at = "idle"
    BY RestIsTyped DEF LocalInit
  <2>2. \A o \in PlaybackOutcome : Counted(o) = {}
    BY <2>1 DEF LocalInit, Counted, PlaybackOutcome
  <2>3. {g \in Request : reason[g] = "Replaced"} = {}
    BY DEF LocalInit
  <2>4. \A c \in {"Replaced", "Stopped", "Completed", "Failed", "TimedOut"} : count[c] = 0
    BY DEF LocalInit, Counter
  <2>5. {"Stopped", "Shutdown", "Completed", "Failed", "TimedOut"} \subseteq PlaybackOutcome
    BY DEF PlaybackOutcome
  <2>6. Counted("Stopped") \cup Counted("Shutdown") = {}
    BY <2>2, <2>5
  <2>7. ReplacedAgree /\ EndsAgree
    BY <2>2, <2>3, <2>4, <2>5, <2>6, FS_EmptySet DEF ReplacedAgree, EndsAgree
  <2>. QED BY <2>7, JudgedInit
<1>2. I => RequestsSettleOnce
  BY DEF JudgedInv, OwnerInv, FreshInv, Typed, Judged, JudgedStatus, ReplacedAgree, EndsAgree,
     RequestsSettleOnce, CountsAgree
<1>3. I /\ [LocalNext]_localVars => I'
  BY JudgedStep, ReplacedStep, EndsStep
<1>. QED BY <1>1, <1>2, <1>3, PTL DEF LocalSpec

\* Last request wins, in the coordinator and on the device.
THEOREM NewestIsWhatIsHeard == LocalSpec => NewestIsHeard
  BY NewestStarts, DeviceHoldsOwnAudio DEF NewestIsHeard

=============================================================================
