----------------------- MODULE FixturePatternsProofs -----------------------
(***************************************************************************)
(* Proofs about the fixture runner, for any fixtures, bindings, threads    *)
(* and number of calls.                                                    *)
(***************************************************************************)
EXTENDS FixturePatterns, TLAPS

\* What a thread knows at each place.
Fits(w) ==
  /\ w.at \in {"check", "install"} =>
       w.job.fixture \in Fixtures /\ w.job.pattern \in Patterns /\ w.job.universe \in Universes
  /\ w.at = "setLive" => w.job.fixture \in Fixtures /\ w.job.universe \in Universes
  /\ w.at = "edge" => w.job.creature \in Creatures /\ w.job.to \in Activities
  /\ w.at = "scan" => w.job.creature \in Creatures
  /\ w.at = "autoStop" \/ w.job.stopAfter => w.job.fixture \in Fixtures
  /\ w.work # {} => w.job.fixture \in Fixtures /\ w.work \subseteq DOMAIN Bindings[w.job.fixture]
  /\ w.touched => w.job.creature \in Creatures /\ w.at \in {"scan", "check", "install"}

Working == \A t \in Callers : Fits(caller[t])

\* A channel that was sent non-zero belongs to a driver or was left behind.
LitByDriver ==
  \A f \in Fixtures :
    lit[f] \subseteq left[f] \cup (IF active[f] = None THEN {} ELSE {active[f].universe})
                             \cup (IF live[f] = None THEN {} ELSE {live[f].universe})

IInv == TypeOK /\ Working

LEMMA NoneApart ==
  /\ None \notin Universes /\ None \notin Creatures /\ None \notin Activities /\ None \notin Callers
BY FixtureAssumption DEF FixtureAssumption, Callers

LEMMA BindingTyped ==
  ASSUME NEW f \in Fixtures, NEW i \in DOMAIN Bindings[f]
  PROVE  /\ i \in Nat
         /\ Bindings[f][i].creature \in Creatures
         /\ Bindings[f][i].pattern \in Patterns
<1>. DEFINE B == [creature : Creatures, on : SUBSET Activities, pattern : Patterns]
<1>1. Bindings[f] \in Seq(B)
  BY FixtureAssumption DEF FixtureAssumption
<1>. HIDE DEF B
<1>2. DOMAIN Bindings[f] = 1 .. Len(Bindings[f]) /\ Len(Bindings[f]) \in Nat
  BY <1>1
<1>3. Bindings[f][i] \in B
  BY <1>1, <1>2
<1>. QED BY <1>2, <1>3 DEF B

LEMMA NoJobTyped ==
  /\ NoJob \in Job
  /\ NoJob.fixture = None /\ NoJob.creature = None /\ NoJob.stopAfter = FALSE
BY DEF NoJob, Job

LEMMA TaskTyped ==
  ASSUME NEW at \in {"idle", "edge", "check", "setLive", "arm"}, NEW job \in Job
  PROVE  /\ Task(at, job) \in Caller
         /\ Task(at, job).at = at /\ Task(at, job).job = job
         /\ Task(at, job).work = {} /\ Task(at, job).touched = FALSE
BY DEF Task, Caller

LEMMA IdleFits ==
  /\ Idle \in Caller /\ Fits(Idle)
  /\ Idle.at = "idle" /\ ~Idle.touched
<1>1. /\ Idle \in Caller /\ Idle.at = "idle" /\ Idle.job = NoJob
      /\ Idle.work = {} /\ Idle.touched = FALSE
  BY NoJobTyped, TaskTyped DEF Idle
<1>. QED BY <1>1, NoJobTyped DEF Fits

LEMMA ToArmFits ==
  ASSUME NEW f \in Fixtures \cup {None}, NEW s \in BOOLEAN, s => f \in Fixtures
  PROVE  /\ ToArm(f, s) \in Caller /\ Fits(ToArm(f, s))
         /\ ToArm(f, s).at = "arm" /\ ~ToArm(f, s).touched
<1>. DEFINE g == IF s THEN f ELSE None
            job == [NoJob EXCEPT !.fixture = g, !.stopAfter = s]
<1>1. g \in Fixtures \cup {None}
  <2>1. CASE s
    BY <2>1
  <2>2. CASE ~s
    BY <2>2
  <2>. QED BY <2>1, <2>2
<1>2. job \in Job /\ job.fixture = g /\ job.stopAfter = s
  BY <1>1, NoJobTyped DEF Job
<1>3. ToArm(f, s) = Task("arm", job)
  BY DEF ToArm
<1>. HIDE DEF job
<1>4. /\ ToArm(f, s) \in Caller /\ ToArm(f, s).at = "arm" /\ ToArm(f, s).job = job
      /\ ToArm(f, s).work = {} /\ ToArm(f, s).touched = FALSE
  BY <1>2, <1>3 DEF Task, Caller
<1>5. s => g = f
  OBVIOUS
<1>. HIDE DEF g
<1>6. Fits(ToArm(f, s))
  BY <1>2, <1>4, <1>5 DEF Fits
<1>. QED BY <1>4, <1>6

LEMMA AfterStartFits ==
  ASSUME TypeOK, Working, NEW t \in Callers, NEW s \in BOOLEAN, caller[t].at \in {"check", "install"}
  PROVE  /\ AfterStart(t, s) \in Caller /\ Fits(AfterStart(t, s))
         /\ caller[t].touched \/ s => AfterStart(t, s).at = "arm" \/ AfterStart(t, s).touched
         /\ AfterStart(t, s).at # "schedule"
<1>. DEFINE w == caller[t]
            new == [w EXCEPT !.at = "scan", !.touched = w.touched \/ s, !.job.pattern = None, !.job.universe = None]
<1>1. w \in Caller /\ Fits(w)
  BY DEF TypeOK, Working
<1>2. CASE w.job.creature # None
  <2>1. AfterStart(t, s) = new
    BY <1>2 DEF AfterStart
  <2>2. new \in Caller
    BY <1>1 DEF Caller, Job
  <2>3. /\ new.at = "scan" /\ new.touched = (w.touched \/ s) /\ new.work = w.work
        /\ new.job.fixture = w.job.fixture /\ new.job.creature = w.job.creature
        /\ new.job.stopAfter = w.job.stopAfter
    BY <1>1 DEF Caller, Job
  <2>4. w.job.creature \in Creatures
    BY <1>1, <1>2 DEF Caller, Job
  <2>. HIDE DEF new
  <2>5. Fits(new)
    BY <2>3, <2>4, <1>1 DEF Fits
  <2>. QED BY <2>1, <2>2, <2>3, <2>5
<1>3. CASE w.job.creature = None
  <2>1. ~w.touched
    BY <1>1, <1>3, NoneApart DEF Fits
  <2>2. w.job.fixture \in Fixtures /\ w.job.stopAfter \in BOOLEAN
    BY <1>1 DEF Fits, Caller, Job
  <2>3. AfterStart(t, s) = IF s THEN ToArm(w.job.fixture, w.job.stopAfter) ELSE Idle
    BY <1>3 DEF AfterStart
  <2>. QED BY <2>1, <2>2, <2>3, ToArmFits, IdleFits
<1>. QED BY <1>2, <1>3

LEMMA AfterArmFits ==
  ASSUME TypeOK, Working, NEW t \in Callers, caller[t].at \in {"arm", "schedule"}
  PROVE  /\ AfterArm(caller[t]) \in Caller /\ Fits(AfterArm(caller[t]))
         /\ AfterArm(caller[t]).at # "schedule" /\ ~AfterArm(caller[t]).touched
<1>. DEFINE w == caller[t]
            new == [w EXCEPT !.at = "autoStop"]
<1>1. w \in Caller /\ Fits(w)
  BY DEF TypeOK, Working
<1>2. CASE w.job.stopAfter
  <2>1. AfterArm(w) = new
    BY <1>2 DEF AfterArm
  <2>2. /\ new \in Caller /\ new.at = "autoStop" /\ new.job = w.job
        /\ new.work = w.work /\ new.touched = w.touched
    BY <1>1 DEF Caller
  <2>3. ~w.touched
    BY <1>1 DEF Fits
  <2>. HIDE DEF new
  <2>. QED BY <2>1, <2>2, <2>3, <1>1, <1>2 DEF Fits
<1>3. CASE ~w.job.stopAfter
  BY <1>3, IdleFits DEF AfterArm
<1>. QED BY <1>2, <1>3, <1>1 DEF Caller, Job

-----------------------------------------------------------------------------
(* A step of one thread.                                                   *)

\* Thread t has got a fitting record; the others have kept theirs.
Moves(t) ==
  /\ caller' \in [Callers -> Caller] /\ Fits(caller'[t])
  /\ \A s \in Callers \ {t} : caller'[s] = caller[s]

LEMMA MovesWork ==
  ASSUME Working, NEW t \in Callers, Moves(t)
  PROVE  Working'
BY DEF Working, Moves

LEMMA Replaced ==
  ASSUME TypeOK, NEW t \in Callers, NEW w \in Caller, Fits(w), caller' = [caller EXCEPT ![t] = w]
  PROVE  Moves(t) /\ caller'[t] = w
BY DEF TypeOK, Moves

LEMMA BeginsMoves ==
  ASSUME TypeOK, NEW t \in Callers, NEW at \in {"edge", "check", "setLive"}, NEW job \in Job,
         Begins(t, at, job), Fits(Task(at, job))
  PROVE  Moves(t)
BY Replaced, TaskTyped DEF Begins

LEMMA TriggerMoves ==
  ASSUME TypeOK, NEW t \in Callers, NEW f \in Fixtures, NEW p \in Patterns, NEW s \in BOOLEAN,
         Trigger(t, f, p, s)
  PROVE  Moves(t)
<1>. DEFINE job == [NoJob EXCEPT !.fixture = f, !.pattern = p, !.universe = assigned[f], !.stopAfter = s]
<1>1. assigned[f] \in Universes
  BY DEF TypeOK, Trigger
<1>2. /\ job \in Job /\ job.fixture = f /\ job.pattern = p /\ job.universe = assigned[f]
      /\ job.creature = None
  BY <1>1, NoJobTyped DEF Job
<1>3. Begins(t, "check", job)
  BY DEF Trigger
<1>. HIDE DEF job
<1>4. Fits(Task("check", job))
  BY <1>1, <1>2, NoneApart DEF Fits, Task
<1>. QED BY <1>2, <1>3, <1>4, BeginsMoves

LEMMA LiveMoves ==
  ASSUME TypeOK, NEW t \in Callers, NEW f \in Fixtures, Live(t, f)
  PROVE  Moves(t)
<1>. DEFINE job == [NoJob EXCEPT !.fixture = f, !.universe = assigned[f]]
<1>1. assigned[f] \in Universes
  BY DEF TypeOK, Live
<1>2. /\ job \in Job /\ job.fixture = f /\ job.universe = assigned[f]
      /\ job.creature = None /\ job.stopAfter = FALSE
  BY <1>1, NoJobTyped DEF Job
<1>3. Begins(t, "setLive", job)
  BY DEF Live
<1>. HIDE DEF job
<1>4. Fits(Task("setLive", job))
  BY <1>1, <1>2, NoneApart DEF Fits, Task
<1>. QED BY <1>2, <1>3, <1>4, BeginsMoves

LEMMA ReportMoves ==
  ASSUME TypeOK, NEW t \in Callers, NEW c \in Creatures, NEW a \in Activities, Report(t, c, a)
  PROVE  Moves(t)
<1>. DEFINE job == [NoJob EXCEPT !.creature = c, !.to = a]
<1>2. job \in Job /\ job.creature = c /\ job.to = a /\ job.stopAfter = FALSE
  BY NoJobTyped DEF Job
<1>3. Begins(t, "edge", job)
  BY DEF Report
<1>. HIDE DEF job
<1>4. Fits(Task("edge", job))
  BY <1>2, NoneApart DEF Fits, Task
<1>. QED BY <1>2, <1>3, <1>4, BeginsMoves

\* An update of some fields of a thread's record.
LEMMA Updated ==
  ASSUME TypeOK, NEW t \in Callers, NEW w \in Caller, Fits(w),
         caller' \in [Callers -> Caller], caller'[t] = w, \A s \in Callers \ {t} : caller'[s] = caller[s]
  PROVE  Moves(t)
BY DEF Moves

LEMMA CheckLiveMoves ==
  ASSUME TypeOK, Working, NEW t \in Callers, CheckLive(t)
  PROVE  Moves(t) /\ (caller[t].touched => WillArm(t)') /\ caller'[t].at # "schedule"
<1>. DEFINE w == caller[t]
            new == [w EXCEPT !.at = "install"]
<1>1. w \in Caller /\ Fits(w) /\ w.at = "check"
  BY DEF TypeOK, Working, CheckLive
<1>2. CASE live[w.job.fixture] # None
  <2>1. caller' = [caller EXCEPT ![t] = AfterStart(t, FALSE)]
    BY <1>2 DEF CheckLive
  <2>2. /\ AfterStart(t, FALSE) \in Caller /\ Fits(AfterStart(t, FALSE))
        /\ w.touched => AfterStart(t, FALSE).at = "arm" \/ AfterStart(t, FALSE).touched
        /\ AfterStart(t, FALSE).at # "schedule"
    BY <1>1, AfterStartFits
  <2>. QED BY <2>1, <2>2, Replaced DEF WillArm
<1>3. CASE live[w.job.fixture] = None
  <2>1. caller' = [caller EXCEPT ![t] = new]
    BY <1>3 DEF CheckLive
  <2>2. /\ new \in Caller /\ new.at = "install" /\ new.job = w.job
        /\ new.work = w.work /\ new.touched = w.touched
    BY <1>1 DEF Caller
  <2>. HIDE DEF new
  <2>3. Fits(new)
    BY <1>1, <2>2 DEF Fits
  <2>. QED BY <2>1, <2>2, <2>3, Replaced DEF WillArm
<1>. QED BY <1>2, <1>3

LEMMA InstallMoves ==
  ASSUME TypeOK, Working, NEW t \in Callers, Install(t)
  PROVE  Moves(t) /\ WillArm(t)' /\ caller'[t].at # "schedule"
<1>1. caller[t].at = "install" /\ caller' = [caller EXCEPT ![t] = AfterStart(t, TRUE)]
  BY DEF Install
<1>2. /\ AfterStart(t, TRUE) \in Caller /\ Fits(AfterStart(t, TRUE))
      /\ AfterStart(t, TRUE).at = "arm" \/ AfterStart(t, TRUE).touched
      /\ AfterStart(t, TRUE).at # "schedule"
  BY <1>1, AfterStartFits
<1>. QED BY <1>1, <1>2, Replaced DEF WillArm

LEMMA SetLiveMoves ==
  ASSUME TypeOK, Working, NEW t \in Callers, SetLive(t)
  PROVE  Moves(t) /\ WillArm(t)' /\ caller'[t].at # "schedule"
<1>1. caller[t].job.fixture \in Fixtures
  BY DEF SetLive, Working, Fits
<1>2. caller' = [caller EXCEPT ![t] = ToArm(caller[t].job.fixture, FALSE)]
  BY DEF SetLive
<1>. DEFINE new == ToArm(caller[t].job.fixture, FALSE)
<1>3. new \in Caller /\ Fits(new) /\ new.at = "arm"
  BY <1>1, ToArmFits
<1>. HIDE DEF new
<1>4. Moves(t) /\ caller'[t] = new
  BY <1>2, <1>3, Replaced DEF new
<1>. QED BY <1>3, <1>4 DEF WillArm

LEMMA TryArmMoves ==
  ASSUME TypeOK, Working, NEW t \in Callers, TryArm(t)
  PROVE  Moves(t) /\ (caller'[t].at = "schedule" <=> ~armed)
<1>. DEFINE w == caller[t]
            new == [w EXCEPT !.at = "schedule"]
<1>1. w \in Caller /\ Fits(w) /\ w.at = "arm"
  BY DEF TypeOK, Working, TryArm
<1>2. CASE armed
  <2>1. caller' = [caller EXCEPT ![t] = AfterArm(w)]
    BY <1>2 DEF TryArm
  <2>. QED BY <1>1, <1>2, <2>1, AfterArmFits, Replaced
<1>3. CASE ~armed
  <2>1. /\ caller' \in [Callers -> Caller]
        /\ caller'[t] = new
        /\ \A s \in Callers \ {t} : caller'[s] = caller[s]
    BY <1>1, <1>3 DEF TryArm, TypeOK, Caller
  <2>2. /\ new \in Caller /\ new.at = "schedule" /\ new.job = w.job
        /\ new.work = w.work /\ new.touched = w.touched
    BY <1>1 DEF Caller
  <2>. HIDE DEF new
  <2>3. Fits(new)
    BY <1>1, <2>2 DEF Fits
  <2>. QED BY <1>3, <2>1, <2>2, <2>3, Updated
<1>. QED BY <1>2, <1>3 DEF TypeOK

LEMMA ScheduleTickMoves ==
  ASSUME TypeOK, Working, NEW t \in Callers, ScheduleTick(t)
  PROVE  Moves(t) /\ caller'[t].at # "schedule"
<1>1. caller[t].at = "schedule" /\ caller' = [caller EXCEPT ![t] = AfterArm(caller[t])]
  BY DEF ScheduleTick
<1>. QED BY <1>1, AfterArmFits, Replaced

LEMMA ScheduleAutoStopMoves ==
  ASSUME TypeOK, Working, NEW t \in Callers, ScheduleAutoStop(t)
  PROVE  Moves(t) /\ caller'[t].at # "schedule"
<1>1. caller' = [caller EXCEPT ![t] = Idle]
  BY DEF ScheduleAutoStop
<1>. QED BY <1>1, IdleFits, Replaced

LEMMA ScanDoneMoves ==
  ASSUME TypeOK, Working, NEW t \in Callers, ScanDone(t)
  PROVE  Moves(t) /\ (caller[t].touched => WillArm(t)') /\ caller'[t].at # "schedule"
<1>1. CASE caller[t].touched
  <2>1. caller' = [caller EXCEPT ![t] = ToArm(None, FALSE)]
    BY <1>1 DEF ScanDone
  <2>. QED BY <2>1, ToArmFits, Replaced DEF WillArm
<1>2. CASE ~caller[t].touched
  <2>1. caller' = [caller EXCEPT ![t] = Idle]
    BY <1>2 DEF ScanDone
  <2>. QED BY <1>2, <2>1, IdleFits, Replaced
<1>. QED BY <1>1, <1>2

LEMMA EdgeMoves ==
  ASSUME TypeOK, Working, NEW t \in Callers, Edge(t)
  PROVE  Moves(t) /\ caller'[t].at # "schedule" /\ ~caller[t].touched
<1>. DEFINE w == caller[t]
            c == w.job.creature
            new == [w EXCEPT !.at = "scan", !.todo = cached, !.job.from = lastSeen[c]]
<1>1. w \in Caller /\ Fits(w) /\ w.at = "edge" /\ c \in Creatures
  BY DEF TypeOK, Working, Edge, Fits
<1>2. ~w.touched
  BY <1>1 DEF Fits
<1>3. CASE lastSeen[c] = w.job.to
  <2>1. caller' = [caller EXCEPT ![t] = Idle]
    BY <1>3 DEF Edge
  <2>. QED BY <1>2, <2>1, IdleFits, Replaced
<1>4. CASE lastSeen[c] # w.job.to
  <2>1. caller' = [caller EXCEPT ![t].at = "scan", ![t].todo = cached, ![t].job.from = lastSeen[c]]
    BY <1>4 DEF Edge
  <2>2. lastSeen[c] \in Activities \cup {None}
    BY <1>1 DEF TypeOK
  <2>3. /\ new \in Caller /\ new.at = "scan" /\ new.work = w.work /\ new.touched = w.touched
        /\ new.job.fixture = w.job.fixture /\ new.job.creature = c /\ new.job.stopAfter = w.job.stopAfter
    BY <1>1, <2>2 DEF Caller, Job, TypeOK
  <2>4. caller' \in [Callers -> Caller] /\ caller'[t] = new /\ \A s \in Callers \ {t} : caller'[s] = caller[s]
    BY <1>1, <2>1, <2>2 DEF TypeOK, Caller, Job
  <2>. HIDE DEF new
  <2>5. Fits(new)
    BY <1>1, <2>3 DEF Fits
  <2>. QED BY <1>2, <2>3, <2>4, <2>5, Updated
<1>. QED BY <1>3, <1>4

LEMMA SwitchedTyped ==
  ASSUME NEW f \in Fixtures, NEW c, NEW from, NEW to
  PROVE  Switched(f, c, from, to) \subseteq DOMAIN Bindings[f] /\ Switched(f, c, from, to) \subseteq Nat
BY BindingTyped DEF Switched

LEMMA ScanFixtureMoves ==
  ASSUME TypeOK, Working, NEW t \in Callers, NEW f \in Fixtures, ScanFixture(t, f)
  PROVE  Moves(t) /\ caller'[t].at = "scan" /\ caller'[t].touched = caller[t].touched
<1>. DEFINE w == caller[t]
            work == IF f \in cached THEN Switched(f, w.job.creature, w.job.from, w.job.to) ELSE {}
            new == [w EXCEPT !.todo = w.todo \ {f}, !.job.fixture = f, !.work = work]
<1>1. w \in Caller /\ Fits(w) /\ w.at = "scan"
  BY DEF TypeOK, Working, ScanFixture
<1>2. work \subseteq DOMAIN Bindings[f] /\ work \subseteq Nat
  BY SwitchedTyped
<1>3. caller' = [caller EXCEPT ![t].todo = @ \ {f}, ![t].job.fixture = f, ![t].work = work]
  BY DEF ScanFixture
<1>. HIDE DEF work
<1>4. /\ new \in Caller /\ new.at = "scan" /\ new.work = work /\ new.touched = w.touched
      /\ new.job.fixture = f /\ new.job.creature = w.job.creature /\ new.job.stopAfter = w.job.stopAfter
  BY <1>1, <1>2 DEF Caller, Job
<1>5. caller' \in [Callers -> Caller] /\ caller'[t] = new /\ \A s \in Callers \ {t} : caller'[s] = caller[s]
  BY <1>1, <1>2, <1>3 DEF TypeOK, Caller, Job
<1>. HIDE DEF new
<1>6. Fits(new)
  BY <1>1, <1>2, <1>4 DEF Fits
<1>. QED BY <1>4, <1>5, <1>6, Updated

LEMMA BindingStartsMoves ==
  ASSUME TypeOK, Working, NEW t \in Callers, NEW i \in caller[t].work, BindingStarts(t, i)
  PROVE  Moves(t) /\ caller'[t].at # "schedule" /\ caller'[t].touched = caller[t].touched
<1>. DEFINE w == caller[t]
            f == w.job.fixture
            u == assigned[f]
            p == IF u = None THEN None ELSE Bindings[f][i].pattern
            at == IF u = None THEN "scan" ELSE "check"
            new == [w EXCEPT !.work = w.work \ {i}, !.at = at, !.job.pattern = p, !.job.universe = u]
<1>1. w \in Caller /\ Fits(w) /\ w.at = "scan" /\ f \in Fixtures /\ i \in DOMAIN Bindings[f]
  BY DEF TypeOK, Working, BindingStarts, IsNext, Fits
<1>2. u \in Universes \cup {None} /\ at \in {"scan", "check"}
  BY <1>1 DEF TypeOK
<1>3. p \in Patterns \cup {None} /\ (at = "check" => p \in Patterns /\ u \in Universes)
  BY <1>1, <1>2, BindingTyped
<1>4. caller' = [caller EXCEPT ![t] = new]
  BY DEF BindingStarts
<1>. HIDE DEF p, at, u
<1>5. /\ new \in Caller /\ new.at = at /\ new.work = w.work \ {i} /\ new.touched = w.touched
      /\ new.job.fixture = f /\ new.job.creature = w.job.creature /\ new.job.stopAfter = w.job.stopAfter
      /\ new.job.pattern = p /\ new.job.universe = u
  BY <1>1, <1>2, <1>3 DEF Caller, Job
<1>. HIDE DEF new
<1>7. Fits(new)
  BY <1>1, <1>2, <1>3, <1>5 DEF Fits
<1>. QED BY <1>2, <1>4, <1>5, <1>7, Replaced

LEMMA BindingStopsMoves ==
  ASSUME TypeOK, Working, NEW t \in Callers, NEW i \in caller[t].work, BindingStops(t, i)
  PROVE  Moves(t) /\ caller'[t].at # "schedule" /\ WillArm(t)'
<1>. DEFINE w == caller[t]
            new == [w EXCEPT !.work = w.work \ {i}, !.touched = TRUE]
<1>1. w \in Caller /\ Fits(w) /\ w.at = "scan"
  BY DEF TypeOK, Working, BindingStops, IsNext
<1>2. /\ new \in Caller /\ new.at = "scan" /\ new.work = w.work \ {i} /\ new.touched = TRUE /\ new.job = w.job
  BY <1>1 DEF Caller
<1>3. caller' \in [Callers -> Caller] /\ caller'[t] = new /\ \A s \in Callers \ {t} : caller'[s] = caller[s]
  BY <1>1 DEF TypeOK, Caller, BindingStops
<1>. HIDE DEF new
<1>4. Fits(new)
  BY <1>1, <1>2 DEF Fits
<1>. QED BY <1>2, <1>3, <1>4, Updated DEF WillArm
-----------------------------------------------------------------------------
(* The other variables.                                                    *)

\* A step of a thread moves that thread alone.
LEMMA ThreadMoves ==
  ASSUME IInv, NEW t \in Callers, Calls(t) \/ CallerNext(t)
  PROVE  Moves(t)
<1>1. ASSUME Calls(t) PROVE Moves(t)
  BY <1>1, TriggerMoves, LiveMoves, ReportMoves DEF Calls, Preview, IInv
<1>2. ASSUME CallerNext(t) PROVE Moves(t)
  BY <1>2, CheckLiveMoves, InstallMoves, SetLiveMoves, TryArmMoves, ScheduleTickMoves,
     ScheduleAutoStopMoves, EdgeMoves, ScanDoneMoves, ScanFixtureMoves, BindingStartsMoves,
     BindingStopsMoves DEF CallerNext, IInv
<1>. QED BY <1>1, <1>2

\* A step that is no thread's leaves the threads alone.
LEMMA OthersKeep ==
  ASSUME IInv, [Next]_vars, ~\E t \in Callers : Calls(t) \/ CallerNext(t)
  PROVE  UNCHANGED caller
BY DEF Next, LoopNext, Configure, Time, vars, TickBegins, Tick, TickRearms, TickReschedules, AutoStop,
   PhaseDue, LiveDue, SetUniverse, DeleteFixture, ForgetUniverse

LEMMA CallersTyped ==
  ASSUME IInv, [Next]_vars
  PROVE  caller' \in [Callers -> Caller] /\ Working'
<1>1. CASE \E t \in Callers : Calls(t) \/ CallerNext(t)
  BY <1>1, ThreadMoves, MovesWork DEF Moves, IInv
<1>2. CASE ~\E t \in Callers : Calls(t) \/ CallerNext(t)
  BY <1>2, OthersKeep DEF IInv, TypeOK, Working
<1>. QED BY <1>1, <1>2

LEMMA StoppedTyped ==
  ASSUME TypeOK, NEW f \in Fixtures
  PROVE  /\ Stopped(f) \in [Fixtures -> ActivePattern \cup {None}]
         /\ \A g \in Fixtures : (Stopped(f)[g] = None) <=> (active[g] = None)
         /\ \A g \in Fixtures : active[g] # None => Stopped(f)[g].universe = active[g].universe
<1>. DEFINE new == [active[f] EXCEPT !.phase = "fadeOut", !.due = FALSE]
<1>1. CASE active[f] = None \/ active[f].phase = "fadeOut"
  BY <1>1 DEF Stopped, TypeOK
<1>2. CASE ~(active[f] = None \/ active[f].phase = "fadeOut")
  <2>1. active[f] \in ActivePattern
    BY <1>2 DEF TypeOK
  <2>2. new \in ActivePattern /\ new.universe = active[f].universe
    BY <2>1 DEF ActivePattern, Phase
  <2>3. Stopped(f) = [active EXCEPT ![f] = new]
    BY <1>2 DEF Stopped
  <2>4. new # None
    BY <2>2, NoneIsNoEntry
  <2>. HIDE DEF new
  <2>. QED BY <1>2, <2>2, <2>3, <2>4 DEF TypeOK
<1>. QED BY <1>1, <1>2

LEMMA DueTyped ==
  ASSUME TypeOK, NEW f \in Fixtures
  PROVE  /\ PhaseDue(f) => /\ active' \in [Fixtures -> ActivePattern \cup {None}]
                           /\ \A g \in Fixtures : (active'[g] = None) <=> (active[g] = None)
                           /\ \A g \in Fixtures : active[g] # None => active'[g].universe = active[g].universe
         /\ LiveDue(f) => /\ live' \in [Fixtures -> ActiveLive \cup {None}]
                          /\ \A g \in Fixtures : (live'[g] = None) <=> (live[g] = None)
                          /\ \A g \in Fixtures : live[g] # None => live'[g].universe = live[g].universe
<1>. DEFINE a == [active[f] EXCEPT !.due = TRUE]
            l == [live[f] EXCEPT !.due = TRUE]
<1>1. ASSUME PhaseDue(f)
      PROVE  /\ active' \in [Fixtures -> ActivePattern \cup {None}]
             /\ \A g \in Fixtures : (active'[g] = None) <=> (active[g] = None)
             /\ \A g \in Fixtures : active[g] # None => active'[g].universe = active[g].universe
  <2>1. active[f] # None /\ active[f] \in ActivePattern /\ active' = [active EXCEPT ![f] = a]
    BY <1>1 DEF TypeOK, PhaseDue
  <2>2. a \in ActivePattern /\ a.universe = active[f].universe
    BY <2>1 DEF ActivePattern
  <2>3. a # None
    BY <2>2, NoneIsNoEntry
  <2>. HIDE DEF a
  <2>. QED BY <2>1, <2>2, <2>3 DEF TypeOK
<1>2. ASSUME LiveDue(f)
      PROVE  /\ live' \in [Fixtures -> ActiveLive \cup {None}]
             /\ \A g \in Fixtures : (live'[g] = None) <=> (live[g] = None)
             /\ \A g \in Fixtures : live[g] # None => live'[g].universe = live[g].universe
  <2>1. live[f] # None /\ live[f] \in ActiveLive /\ live' = [live EXCEPT ![f] = l]
    BY <1>2 DEF TypeOK, LiveDue
  <2>2. l \in ActiveLive /\ l.universe = live[f].universe
    BY <2>1 DEF ActiveLive
  <2>3. l # None
    BY <2>2, NoneIsNoEntry
  <2>. HIDE DEF l
  <2>. QED BY <2>1, <2>2, <2>3 DEF TypeOK
<1>. QED BY <1>1, <1>2

LEMMA AdvancedTyped ==
  ASSUME NEW e \in ActivePattern
  PROVE  /\ Advanced(e) \in ActivePattern \cup {None}
         /\ Advanced(e) # None => Advanced(e).universe = e.universe
<1>. DEFINE hold == [e EXCEPT !.phase = "hold", !.due = FALSE]
            fade == [e EXCEPT !.phase = "fadeOut", !.due = FALSE]
<1>1. hold \in ActivePattern /\ hold.universe = e.universe /\ fade \in ActivePattern /\ fade.universe = e.universe
  BY DEF ActivePattern, Phase
<1>2. Advanced(e) \in {hold, fade, None, e}
  BY DEF Advanced
<1>. HIDE DEF hold, fade
<1>. QED BY <1>1, <1>2

LEMMA TickTyped ==
  ASSUME TypeOK, Tick
  PROVE  /\ active' \in [Fixtures -> ActivePattern \cup {None}]
         /\ live' \in [Fixtures -> ActiveLive \cup {None}]
         /\ lit' \in [Fixtures -> SUBSET Universes]
         /\ \A f \in Fixtures : active[f] = None => active'[f] = None
         /\ \A f \in Fixtures : active[f] # None /\ active'[f] # None => active'[f].universe = active[f].universe
         /\ \A f \in Fixtures : live'[f] # None => live'[f] = live[f]
<1>1. \A f \in Fixtures : active[f] # None => active[f] \in ActivePattern /\ active[f].universe \in Universes
  BY DEF TypeOK, ActivePattern
<1>2. \A f \in Fixtures : live[f] # None => live[f] \in ActiveLive /\ live[f].universe \in Universes
  BY DEF TypeOK, ActiveLive
<1>3. \A f \in Fixtures : Sent(f) \in SUBSET Universes
  BY <1>1, <1>2 DEF Sent, TypeOK
<1>4. \A f \in Fixtures : Rendered(f) \in ActivePattern \cup {None}
  BY <1>1, AdvancedTyped DEF Rendered
<1>5. active' = [f \in Fixtures |-> Rendered(f)]
  BY DEF Tick
<1>6. live' \in [Fixtures -> ActiveLive \cup {None}] /\ \A f \in Fixtures : live'[f] # None => live'[f] = live[f]
  BY DEF Tick, TypeOK
<1>7. lit' \in [Fixtures -> SUBSET Universes]
  BY <1>3 DEF Tick
<1>8. \A f \in Fixtures : active[f] # None /\ active'[f] # None => active'[f].universe = active[f].universe
  BY <1>1, <1>5, AdvancedTyped DEF Rendered
<1>9. \A f \in Fixtures : active[f] = None => active'[f] = None
  BY <1>5 DEF Rendered
<1>. QED BY <1>4, <1>5, <1>6, <1>7, <1>8, <1>9

\* What TypeOK says of all but the threads.
Shared ==
  /\ active \in [Fixtures -> ActivePattern \cup {None}]
  /\ live \in [Fixtures -> ActiveLive \cup {None}]
  /\ armed \in BOOLEAN /\ ticks \in Nat
  /\ loop \in {"rest", "tick", "again", "reschedule"}
  /\ stops \in [Fixtures -> Nat]
  /\ lastSeen \in [Creatures -> Activities \cup {None}]
  /\ lock \in [Creatures -> Callers \cup {None}]
  /\ cached \subseteq Fixtures /\ assigned \in [Fixtures -> Universes \cup {None}]
  /\ lit \in [Fixtures -> SUBSET Universes] /\ left \in [Fixtures -> SUBSET Universes]
  /\ calls \in 0 .. MaxCalls

LEMMA UnlockedTyped ==
  ASSUME TypeOK, NEW t \in Callers
  PROVE  Unlocked(t) \in [Creatures -> Callers \cup {None}]
BY DEF Unlocked, TypeOK

LEMMA LeftTyped ==
  ASSUME TypeOK, NEW f \in Fixtures, NEW u
  PROVE  /\ LeftBehind(f, u) \in SUBSET Universes
         /\ left[f] \subseteq LeftBehind(f, u)
         /\ active[f] # None => active[f].universe \in LeftBehind(f, u) \cup {u}
         /\ live[f] # None => live[f].universe \in LeftBehind(f, u) \cup {u}
<1>1. active[f] # None => active[f].universe \in Universes
  BY DEF TypeOK, ActivePattern
<1>2. live[f] # None => live[f].universe \in Universes
  BY DEF TypeOK, ActiveLive
<1>. QED BY <1>1, <1>2 DEF LeftBehind, TypeOK

LEMMA InstallTyped ==
  ASSUME IInv, NEW t \in Callers, Install(t)
  PROVE  LET f == caller[t].job.fixture
             u == caller[t].job.universe
         IN  /\ f \in Fixtures
             /\ active' \in [Fixtures -> ActivePattern \cup {None}]
             /\ active'[f] # None /\ active'[f].universe = u
             /\ \A g \in Fixtures \ {f} : active'[g] = active[g]
             /\ left' = [left EXCEPT ![f] = LeftBehind(f, u)]
             /\ left' \in [Fixtures -> SUBSET Universes]
<1>. DEFINE w == caller[t]
            f == w.job.fixture
            e == [pattern |-> w.job.pattern, by |-> w.job.creature, universe |-> w.job.universe,
                  phase |-> "fadeIn", due |-> FALSE]
<1>1. w \in Caller /\ f \in Fixtures /\ w.job.pattern \in Patterns /\ w.job.universe \in Universes
  BY DEF IInv, TypeOK, Working, Fits, Install
<1>2. e \in ActivePattern /\ e.universe = w.job.universe
  BY <1>1 DEF ActivePattern, Phase, Caller, Job
<1>3. e # None
  BY <1>2, NoneIsNoEntry
<1>4. active' = [active EXCEPT ![f] = e] /\ left' = [left EXCEPT ![f] = LeftBehind(f, w.job.universe)]
  BY DEF Install
<1>. HIDE DEF e
<1>5. left' \in [Fixtures -> SUBSET Universes]
  BY <1>1, <1>4, LeftTyped DEF IInv, TypeOK
<1>. QED BY <1>1, <1>2, <1>3, <1>4, <1>5 DEF IInv, TypeOK

LEMMA SetLiveTyped ==
  ASSUME IInv, NEW t \in Callers, SetLive(t)
  PROVE  LET f == caller[t].job.fixture
             u == caller[t].job.universe
         IN  /\ f \in Fixtures
             /\ active' \in [Fixtures -> ActivePattern \cup {None}]
             /\ live' \in [Fixtures -> ActiveLive \cup {None}]
             /\ live'[f] # None /\ live'[f].universe = u
             /\ \A g \in Fixtures \ {f} : active'[g] = active[g] /\ live'[g] = live[g]
             /\ left' = [left EXCEPT ![f] = LeftBehind(f, u)]
             /\ left' \in [Fixtures -> SUBSET Universes]
<1>. DEFINE w == caller[t]
            f == w.job.fixture
            e == [universe |-> w.job.universe, due |-> FALSE]
<1>1. w \in Caller /\ f \in Fixtures /\ w.job.universe \in Universes
  BY DEF IInv, TypeOK, Working, Fits, SetLive
<1>2. e \in ActiveLive /\ e.universe = w.job.universe
  BY <1>1 DEF ActiveLive
<1>3. e # None
  BY <1>2, NoneIsNoEntry
<1>4. live' = [live EXCEPT ![f] = e] /\ left' = [left EXCEPT ![f] = LeftBehind(f, w.job.universe)]
  BY DEF SetLive
<1>. HIDE DEF e
<1>5. left' \in [Fixtures -> SUBSET Universes]
  BY <1>1, <1>4, LeftTyped DEF IInv, TypeOK
<1>6. active' \in [Fixtures -> ActivePattern \cup {None}] /\ \A g \in Fixtures \ {f} : active'[g] = active[g]
  BY <1>1 DEF SetLive, IInv, TypeOK
<1>. QED BY <1>1, <1>2, <1>3, <1>4, <1>5, <1>6 DEF IInv, TypeOK

LEMMA ThreadShared ==
  ASSUME IInv, NEW t \in Callers, Calls(t) \/ CallerNext(t)
  PROVE  Shared'
<1>. USE UnlockedTyped DEF IInv, Shared
<1>1. ASSUME Calls(t) PROVE Shared'
  <2>1. UNCHANGED <<runnerVars, tickVars, stops, lastSeen, lock, configVars, wireVars>>
    BY <1>1 DEF Calls, Trigger, Preview, Live, Report
  <2>2. calls' \in 0 .. MaxCalls
    <3>1. calls < MaxCalls /\ calls' = calls + 1
      BY <1>1 DEF Calls, Trigger, Preview, Live, Report, Begins
    <3>. QED BY <3>1, FixtureAssumption DEF TypeOK, FixtureAssumption
  <2>. QED BY <2>1, <2>2 DEF TypeOK, runnerVars, tickVars, configVars, wireVars
<1>2. ASSUME Install(t) PROVE Shared'
  BY <1>2, InstallTyped DEF Install, TypeOK, tickVars, configVars
<1>3. ASSUME SetLive(t) PROVE Shared'
  BY <1>3, SetLiveTyped DEF SetLive, TypeOK, tickVars, configVars
<1>4. ASSUME CheckLive(t) PROVE Shared'
  BY <1>4 DEF CheckLive, TypeOK, runnerVars, tickVars, configVars, wireVars
<1>5. ASSUME TryArm(t) PROVE Shared'
  BY <1>5 DEF TryArm, TypeOK, runnerVars, configVars, wireVars
<1>6. ASSUME ScheduleTick(t) PROVE Shared'
  BY <1>6 DEF ScheduleTick, TypeOK, runnerVars, configVars, wireVars
<1>7. ASSUME ScheduleAutoStop(t) PROVE Shared'
  <2>1. caller[t].job.fixture \in Fixtures
    BY <1>7 DEF ScheduleAutoStop, Working, Fits
  <2>. QED BY <1>7, <2>1 DEF ScheduleAutoStop, TypeOK, runnerVars, tickVars, configVars, wireVars
<1>8. ASSUME Edge(t) PROVE Shared'
  <2>1. caller[t].job.creature \in Creatures /\ caller[t].job.to \in Activities
    BY <1>8 DEF Edge, Working, Fits
  <2>2. lastSeen' \in [Creatures -> Activities \cup {None}] /\ lock' \in [Creatures -> Callers \cup {None}]
    BY <1>8, <2>1 DEF Edge, TypeOK
  <2>. QED BY <1>8, <2>2 DEF Edge, TypeOK, runnerVars, tickVars, configVars, wireVars
<1>9. ASSUME ScanDone(t) PROVE Shared'
  BY <1>9 DEF ScanDone, TypeOK, runnerVars, tickVars, configVars, wireVars
<1>10. ASSUME NEW f \in Fixtures, ScanFixture(t, f) PROVE Shared'
  BY <1>10 DEF ScanFixture, TypeOK, runnerVars, tickVars, configVars, wireVars
<1>11. ASSUME NEW i \in caller[t].work, BindingStarts(t, i) PROVE Shared'
  BY <1>11 DEF BindingStarts, TypeOK, runnerVars, tickVars, configVars, wireVars
<1>12. ASSUME NEW i \in caller[t].work, BindingStops(t, i) PROVE Shared'
  <2>1. caller[t].job.fixture \in Fixtures
    BY <1>12 DEF BindingStops, Working, Fits
  <2>2. active' \in [Fixtures -> ActivePattern \cup {None}]
    BY <1>12, <2>1, StoppedTyped DEF BindingStops
  <2>. QED BY <1>12, <2>2 DEF BindingStops, TypeOK, tickVars, configVars, wireVars
<1>. QED BY <1>1, <1>2, <1>3, <1>4, <1>5, <1>6, <1>7, <1>8, <1>9, <1>10, <1>11, <1>12 DEF CallerNext

LEMMA OthersShared ==
  ASSUME IInv, [Next]_vars, ~\E t \in Callers : Calls(t) \/ CallerNext(t)
  PROVE  Shared'
<1>. USE DEF IInv, Shared, runnerVars, tickVars, configVars, wireVars
<1>1. ASSUME NEW f \in Fixtures, Configure(f) PROVE Shared'
  <2>1. ASSUME calls < MaxCalls, calls' = calls + 1 PROVE calls' \in 0 .. MaxCalls
    BY <2>1, FixtureAssumption DEF TypeOK, FixtureAssumption
  <2>2. ASSUME NEW u \in Universes \cup {None}, SetUniverse(f, u) PROVE Shared'
    BY <2>1, <2>2 DEF SetUniverse, TypeOK
  <2>3. ASSUME DeleteFixture(f) PROVE Shared'
    BY <2>1, <2>3 DEF DeleteFixture, TypeOK
  <2>4. ASSUME ForgetUniverse(f) PROVE Shared'
    BY <2>4 DEF ForgetUniverse, TypeOK
  <2>. QED BY <1>1, <2>2, <2>3, <2>4 DEF Configure
<1>2. ASSUME NEW f \in Fixtures, AutoStop(f) PROVE Shared'
  BY <1>2, StoppedTyped DEF AutoStop, TypeOK
<1>3. ASSUME NEW f \in Fixtures, Time(f) PROVE Shared'
  BY <1>3, DueTyped DEF Time, PhaseDue, LiveDue, TypeOK
<1>4. ASSUME Tick PROVE Shared'
  BY <1>4, TickTyped DEF Tick, TypeOK
<1>5. ASSUME TickBegins \/ TickRearms \/ TickReschedules PROVE Shared'
  <2>1. ASSUME TickBegins PROVE Shared'
    <3>1. ticks' \in Nat
      BY <2>1 DEF TickBegins, TypeOK
    <3>. QED BY <2>1, <3>1 DEF TickBegins, TypeOK
  <2>2. ASSUME TickRearms PROVE Shared'
    BY <2>2 DEF TickRearms, TypeOK
  <2>3. ASSUME TickReschedules PROVE Shared'
    BY <2>3 DEF TickReschedules, TypeOK
  <2>. QED BY <1>5, <2>1, <2>2, <2>3
<1>6. ASSUME UNCHANGED vars PROVE Shared'
  BY <1>6 DEF vars, TypeOK
<1>. QED BY <1>1, <1>2, <1>3, <1>4, <1>5, <1>6 DEF Next, LoopNext

LEMMA TypeStep ==
  ASSUME IInv, [Next]_vars
  PROVE  IInv'
<1>1. Shared'
  BY ThreadShared, OthersShared
<1>2. caller' \in [Callers -> Caller] /\ Working'
  BY CallersTyped
<1>. QED BY <1>1, <1>2 DEF IInv, TypeOK, Shared

LEMMA TypeInit ==
  ASSUME Init
  PROVE  IInv
<1>1. Idle \in Caller /\ Fits(Idle)
  BY IdleFits
<1>2. (CHOOSE u \in Universes : TRUE) \in Universes /\ MaxCalls \in Nat
  BY FixtureAssumption DEF FixtureAssumption
<1>3. assigned \in [Fixtures -> Universes \cup {None}]
  BY <1>2 DEF Init
<1>4. calls \in 0 .. MaxCalls
  BY <1>2 DEF Init
<1>. QED BY <1>1, <1>3, <1>4 DEF Init, IInv, TypeOK, Working

(***************************************************************************)
(* The runner's and the threads' state is of its type.                     *)
(***************************************************************************)
THEOREM FixturesTyped == Spec => []TypeOK
<1>1. IInv => TypeOK
  BY DEF IInv
<1>. QED BY <1>1, TypeInit, TypeStep, PTL DEF Spec

-----------------------------------------------------------------------------
(* The one tick.                                                           *)

\* The other threads are where they were.
LEMMA SchedulingMoves ==
  ASSUME NEW t \in Callers, Moves(t)
  PROVE  Scheduling' \ {t} = Scheduling \ {t} /\ (t \in Scheduling' <=> caller'[t].at = "schedule")
BY DEF Scheduling, Moves

LEMMA OneTickStep ==
  ASSUME IInv, OneTick, [Next]_vars
  PROVE  OneTick'
<1>. USE DEF OneTick
<1>1. ASSUME NEW t \in Callers, TryArm(t) PROVE OneTick'
  <2>1. Moves(t) /\ (caller'[t].at = "schedule" <=> ~armed) /\ t \notin Scheduling
    BY <1>1, TryArmMoves DEF IInv, TryArm, Scheduling
  <2>2. UNCHANGED <<ticks, loop>> /\ armed'
    BY <1>1 DEF TryArm
  <2>3. CASE armed
    <3>1. Scheduling' = Scheduling
      BY <2>1, <2>3, SchedulingMoves
    <3>. QED BY <2>2, <2>3, <3>1
  <2>4. CASE ~armed
    <3>1. Scheduling = {} /\ ticks = 0 /\ loop # "reschedule"
      BY <2>4
    <3>2. Scheduling' = {t}
      BY <2>1, <2>4, <3>1, SchedulingMoves
    <3>. QED BY <2>2, <3>1, <3>2
  <2>. QED BY <2>3, <2>4 DEF IInv, TypeOK
<1>2. ASSUME NEW t \in Callers, ScheduleTick(t) PROVE OneTick'
  <2>1. Moves(t) /\ caller'[t].at # "schedule" /\ t \in Scheduling
    BY <1>2, ScheduleTickMoves DEF IInv, ScheduleTick, Scheduling
  <2>2. UNCHANGED <<armed, loop>> /\ ticks' = ticks + 1
    BY <1>2 DEF ScheduleTick
  <2>3. Scheduling = {t} /\ ticks = 0 /\ loop # "reschedule" /\ armed
    BY <2>1
  <2>4. Scheduling' = {}
    BY <2>1, <2>3, SchedulingMoves
  <2>. QED BY <2>2, <2>3, <2>4
<1>3. ASSUME NEW t \in Callers, Calls(t) \/ CallerNext(t), ~TryArm(t), ~ScheduleTick(t) PROVE OneTick'
  <2>1. Moves(t)
    BY <1>3, ThreadMoves
  <2>2. UNCHANGED <<armed, loop, ticks>>
    BY <1>3 DEF Calls, Trigger, Preview, Live, Report, CallerNext, CheckLive, Install, SetLive, ScheduleAutoStop,
       Edge, ScanDone, ScanFixture, BindingStarts, BindingStops, tickVars
  <2>3. caller'[t].at # "schedule"
    <3>1. ASSUME Calls(t) PROVE caller'[t].at # "schedule"
      <4>1. ASSUME NEW at \in {"check", "setLive", "edge"}, NEW job, Begins(t, at, job)
            PROVE  caller'[t].at # "schedule"
        <5>1. caller'[t] = Task(at, job) /\ Task(at, job).at = at
          BY <4>1 DEF Begins, IInv, TypeOK, Task
        <5>. QED BY <5>1
      <4>. QED BY <3>1, <4>1 DEF Calls, Trigger, Preview, Live, Report
    <3>2. ASSUME CallerNext(t) PROVE caller'[t].at # "schedule"
      BY <1>3, <3>2, CheckLiveMoves, InstallMoves, SetLiveMoves, ScheduleAutoStopMoves, EdgeMoves, ScanDoneMoves,
         ScanFixtureMoves, BindingStartsMoves, BindingStopsMoves DEF CallerNext, IInv
    <3>. QED BY <1>3, <3>1, <3>2
  <2>4. caller[t].at # "schedule"
    BY <1>3 DEF Calls, Trigger, Preview, Live, Report, Begins, CallerNext, CheckLive, Install, SetLive,
       ScheduleAutoStop, Edge, ScanDone, ScanFixture, BindingStarts, BindingStops, IsNext
  <2>5. Scheduling' = Scheduling
    BY <2>1, <2>3, <2>4, SchedulingMoves DEF Scheduling
  <2>. QED BY <2>2, <2>5
<1>4. ASSUME ~\E t \in Callers : Calls(t) \/ CallerNext(t) PROVE OneTick'
  <2>1. Scheduling' = Scheduling
    BY <1>4, OthersKeep DEF Scheduling
  <2>2. ASSUME TickBegins PROVE OneTick'
    BY <2>1, <2>2 DEF TickBegins
  <2>3. ASSUME Tick PROVE OneTick'
    BY <2>1, <2>3 DEF Tick
  <2>4. ASSUME TickRearms PROVE OneTick'
    BY <2>1, <2>4 DEF TickRearms, IInv, TypeOK
  <2>5. ASSUME TickReschedules PROVE OneTick'
    BY <2>1, <2>5 DEF TickReschedules
  <2>6. ASSUME UNCHANGED <<armed, ticks, loop>> PROVE OneTick'
    BY <2>1, <2>6
  <2>7. (\E f \in Fixtures : Configure(f) \/ AutoStop(f) \/ Time(f)) \/ UNCHANGED vars => UNCHANGED <<armed, ticks, loop>>
    BY DEF Configure, SetUniverse, DeleteFixture, ForgetUniverse, AutoStop, Time, PhaseDue, LiveDue, tickVars, vars
  <2>. QED BY <1>4, <2>2, <2>3, <2>4, <2>5, <2>6, <2>7 DEF Next, LoopNext
<1>. QED BY <1>1, <1>2, <1>3, <1>4

(***************************************************************************)
(* However calls, threads and the event loop meet, the armed flag stands   *)
(* for exactly one tick event.                                             *)
(***************************************************************************)
THEOREM TickIsUnique == Spec => []OneTick
<1>1. Init => OneTick
  BY IdleFits DEF Init, OneTick, Scheduling
<1>. QED BY <1>1, TypeInit, TypeStep, OneTickStep, PTL DEF Spec

-----------------------------------------------------------------------------
(* A driven fixture is rendered.                                           *)

LEMMA WillArmKept ==
  ASSUME NEW t \in Callers, Moves(t), NEW s \in Callers \ {t}, WillArm(s)
  PROVE  WillArm(s)'
BY DEF Moves, WillArm

\* A thread that has still to arm the tick when it moves arms it or has still to.
LEMMA ThreadArms ==
  ASSUME IInv, NEW t \in Callers, Calls(t) \/ CallerNext(t), WillArm(t)
  PROVE  WillArm(t)' \/ armed'
<1>1. ~Calls(t)
  BY DEF Calls, Trigger, Preview, Live, Report, Begins, WillArm, IInv, Working, Fits
<1>2. ASSUME TryArm(t) PROVE armed'
  BY <1>2 DEF TryArm
<1>3. ASSUME ~TryArm(t) PROVE caller[t].touched /\ caller[t].at \in {"scan", "check", "install"}
  <2>1. caller[t].at # "arm"
    BY <1>1, <1>3 DEF CallerNext, CheckLive, Install, SetLive, ScheduleTick, ScheduleAutoStop,
       Edge, ScanDone, ScanFixture, BindingStarts, BindingStops, IsNext
  <2>. QED BY <2>1 DEF WillArm, IInv, Working, Fits
<1>4. ASSUME ~TryArm(t) PROVE WillArm(t)'
  <2>. USE <1>3, <1>4 DEF IInv
  <2>1. ASSUME NEW f \in Fixtures, ScanFixture(t, f) PROVE WillArm(t)'
    BY <2>1, ScanFixtureMoves DEF WillArm
  <2>2. ASSUME NEW i \in caller[t].work, BindingStarts(t, i) PROVE WillArm(t)'
    BY <2>2, BindingStartsMoves DEF WillArm
  <2>3. ASSUME NEW i \in caller[t].work, BindingStops(t, i) PROVE WillArm(t)'
    BY <2>3, BindingStopsMoves
  <2>. QED BY <1>1, <2>1, <2>2, <2>3, CheckLiveMoves, InstallMoves, SetLiveMoves, ScanDoneMoves
       DEF CallerNext, ScheduleTick, ScheduleAutoStop, Edge
<1>. QED BY <1>2, <1>4

LEMMA DrivenStep ==
  ASSUME IInv, DrivenIsTicked, [Next]_vars
  PROVE  DrivenIsTicked'
<1>. USE DEF DrivenIsTicked
<1>1. ASSUME NEW t \in Callers, Calls(t) \/ CallerNext(t) PROVE DrivenIsTicked'
  <2>1. Moves(t)
    BY <1>1, ThreadMoves
  <2>2. loop' = loop
    BY <1>1 DEF Calls, Trigger, Preview, Live, Report, CallerNext, CheckLive, Install, SetLive, TryArm, ScheduleTick,
       ScheduleAutoStop, Edge, ScanDone, ScanFixture, BindingStarts, BindingStops, tickVars
  <2>3. armed => armed'
    BY <1>1 DEF Calls, Trigger, Preview, Live, Report, CallerNext, CheckLive, Install, SetLive, TryArm, ScheduleTick,
       ScheduleAutoStop, Edge, ScanDone, ScanFixture, BindingStarts, BindingStops, tickVars
  <2>4. CASE \E f \in Fixtures : Driven(f)
    BY <1>1, <2>1, <2>2, <2>3, <2>4, ThreadArms, WillArmKept
  <2>5. CASE ~\E f \in Fixtures : Driven(f)
    <3>1. ASSUME Install(t) \/ SetLive(t) \/ \E i \in caller[t].work : BindingStops(t, i) PROVE WillArm(t)'
      BY <3>1, InstallMoves, SetLiveMoves, BindingStopsMoves DEF IInv
    <3>2. ASSUME ~Install(t), ~SetLive(t), ~\E i \in caller[t].work : BindingStops(t, i) PROVE UNCHANGED <<active, live>>
      BY <1>1, <3>2 DEF Calls, Trigger, Preview, Live, Report, CallerNext, CheckLive, TryArm, ScheduleTick,
       ScheduleAutoStop, Edge, ScanDone, ScanFixture, BindingStarts, runnerVars
    <3>. QED BY <2>5, <3>1, <3>2 DEF Driven
  <2>. QED BY <2>4, <2>5
<1>2. ASSUME ~\E t \in Callers : Calls(t) \/ CallerNext(t) PROVE DrivenIsTicked'
  <2>1. (\E t \in Callers : WillArm(t)) => \E t \in Callers : WillArm(t)'
    BY <1>2, OthersKeep DEF WillArm
  <2>2. ASSUME TickBegins \/ TickRearms PROVE DrivenIsTicked'
    BY <2>2 DEF TickBegins, TickRearms
  <2>3. ASSUME TickReschedules PROVE DrivenIsTicked'
    BY <2>1, <2>3 DEF TickReschedules, runnerVars, Driven
  <2>4. ASSUME Tick PROVE DrivenIsTicked'
    BY <2>4 DEF Tick, Driven
  <2>5. ASSUME NEW f \in Fixtures, Configure(f) \/ AutoStop(f) \/ Time(f) PROVE DrivenIsTicked'
    <3>1. UNCHANGED <<armed, loop>>
      BY <2>5 DEF Configure, SetUniverse, DeleteFixture, ForgetUniverse, AutoStop, Time, PhaseDue, LiveDue, tickVars
    <3>2. \A g \in Fixtures : active[g] = None => active'[g] = None
      <4>1. ASSUME AutoStop(f) PROVE \A g \in Fixtures : active[g] = None => active'[g] = None
        BY <4>1, StoppedTyped DEF AutoStop, IInv
      <4>2. ASSUME PhaseDue(f) PROVE \A g \in Fixtures : active[g] = None => active'[g] = None
        BY <4>2, DueTyped DEF IInv
      <4>3. ASSUME Configure(f) \/ LiveDue(f) PROVE UNCHANGED active
        BY <4>3 DEF Configure, SetUniverse, DeleteFixture, ForgetUniverse, LiveDue, runnerVars
      <4>. QED BY <2>5, <4>1, <4>2, <4>3 DEF Time
    <3>3. \A g \in Fixtures : live[g] = None => live'[g] = None
      <4>1. ASSUME LiveDue(f) PROVE \A g \in Fixtures : live[g] = None => live'[g] = None
        BY <4>1, DueTyped DEF IInv
      <4>2. ASSUME Configure(f) \/ AutoStop(f) \/ PhaseDue(f) PROVE UNCHANGED live
        BY <4>2 DEF Configure, SetUniverse, DeleteFixture, ForgetUniverse, AutoStop, PhaseDue, runnerVars
      <4>. QED BY <2>5, <4>1, <4>2 DEF Time
    <3>4. (\E g \in Fixtures : Driven(g)') => \E g \in Fixtures : Driven(g)
      BY <3>2, <3>3 DEF Driven
    <3>. QED BY <2>1, <3>1, <3>4
  <2>6. ASSUME UNCHANGED vars PROVE DrivenIsTicked'
    BY <2>1, <2>6 DEF vars, runnerVars, tickVars, Driven
  <2>. QED BY <1>2, <2>2, <2>3, <2>4, <2>5, <2>6 DEF Next, LoopNext
<1>. QED BY <1>1, <1>2

(***************************************************************************)
(* However calls, threads and the event loop meet, a fixture with a        *)
(* pattern or an override has a tick on its way.                           *)
(***************************************************************************)
THEOREM DrivenIsRendered == Spec => []DrivenIsTicked
<1>1. Init => DrivenIsTicked
  BY DEF Init, DrivenIsTicked, Driven
<1>. QED BY <1>1, TypeInit, TypeStep, DrivenStep, PTL DEF Spec

-----------------------------------------------------------------------------
(* Channels.                                                               *)

LEMMA LitStep ==
  ASSUME IInv, LitByDriver, [Next]_vars
  PROVE  LitByDriver'
<1>. USE DEF LitByDriver
<1>1. ASSUME NEW t \in Callers, Install(t) PROVE LitByDriver'
  <2>1. UNCHANGED <<lit, live>>
    BY <1>1 DEF Install
  <2>. QED BY <1>1, <2>1, InstallTyped, LeftTyped DEF IInv, TypeOK
<1>2. ASSUME NEW t \in Callers, SetLive(t) PROVE LitByDriver'
  <2>1. UNCHANGED lit
    BY <1>2 DEF SetLive
  <2>. QED BY <1>2, <2>1, SetLiveTyped, LeftTyped DEF IInv, TypeOK
<1>3. ASSUME Tick PROVE LitByDriver'
  <2>1. left' = left /\ lit' = [f \in Fixtures |-> Sent(f)]
    BY <1>3 DEF Tick
  <2>2. \A f \in Fixtures :
          /\ active[f] # None /\ Advanced(active[f]) # None => active'[f] # None /\ active'[f].universe = active[f].universe
          /\ live[f] # None /\ ~live[f].due => live'[f] = live[f]
    BY <1>3, TickTyped DEF Tick, Rendered, IInv
  <2>. QED BY <2>1, <2>2 DEF Sent
<1>4. ASSUME NEW f \in Fixtures, active' = Stopped(f), UNCHANGED <<live, lit, left>> PROVE LitByDriver'
  BY <1>4, StoppedTyped DEF IInv
<1>5. ASSUME NEW f \in Fixtures, PhaseDue(f) PROVE LitByDriver'
  <2>1. UNCHANGED <<live, lit, left>>
    BY <1>5 DEF PhaseDue, wireVars
  <2>. QED BY <1>5, <2>1, DueTyped DEF IInv
<1>6. ASSUME NEW f \in Fixtures, LiveDue(f) PROVE LitByDriver'
  <2>1. UNCHANGED <<active, lit, left>>
    BY <1>6 DEF LiveDue, wireVars
  <2>. QED BY <1>6, <2>1, DueTyped DEF IInv
<1>7. ASSUME UNCHANGED <<active, live, lit, left>> PROVE LitByDriver'
  BY <1>7
<1>8. ASSUME NEW t \in Callers, Calls(t) \/ CallerNext(t) PROVE LitByDriver'
  <2>1. ASSUME NEW i \in caller[t].work, BindingStops(t, i) PROVE LitByDriver'
    <3>1. caller[t].job.fixture \in Fixtures
      BY <2>1 DEF BindingStops, IInv, Working, Fits
    <3>. QED BY <2>1, <3>1, <1>4 DEF BindingStops, wireVars
  <2>2. ASSUME ~Install(t), ~SetLive(t), ~\E i \in caller[t].work : BindingStops(t, i)
        PROVE  UNCHANGED <<active, live, lit, left>>
    BY <1>8, <2>2 DEF Calls, Trigger, Preview, Live, Report, CallerNext, CheckLive, TryArm, ScheduleTick,
       ScheduleAutoStop, Edge, ScanDone, ScanFixture, BindingStarts, runnerVars, wireVars
  <2>. QED BY <1>1, <1>2, <1>7, <2>1, <2>2
<1>9. ASSUME NEW f \in Fixtures, Configure(f) \/ AutoStop(f) PROVE LitByDriver'
  BY <1>4, <1>7, <1>9 DEF Configure, SetUniverse, DeleteFixture, ForgetUniverse, AutoStop, runnerVars, wireVars
<1>10. ASSUME TickBegins \/ TickRearms \/ TickReschedules \/ UNCHANGED vars PROVE LitByDriver'
  BY <1>7, <1>10 DEF TickBegins, TickRearms, TickReschedules, vars, runnerVars, wireVars
<1>. QED BY <1>3, <1>5, <1>6, <1>8, <1>9, <1>10 DEF Next, LoopNext, Time

(***************************************************************************)
(* A fixture that nothing drives is dark: whatever lit it was sent to zero *)
(* when it ended, or the fixture was moved away from that universe.        *)
(***************************************************************************)
THEOREM ReleasedFixturesAreDark == Spec => []ReleasedIsDark
<1>1. Init => LitByDriver
  BY DEF Init, LitByDriver
<1>2. LitByDriver => ReleasedIsDark
  BY DEF LitByDriver, ReleasedIsDark, Driven
<1>. QED BY <1>1, <1>2, TypeInit, TypeStep, LitStep, PTL DEF Spec

(* A light is rendered while it is driven and dark when it is not.         *)
THEOREM LightsStayDriven == Spec => []LightsAreDriven
  BY DrivenIsRendered, ReleasedFixturesAreDark, PTL DEF LightsAreDriven

-----------------------------------------------------------------------------
(***************************************************************************)
(* Bound patterns.  A creature's mutex is held from the change of its last *)
(* activity to the end of the scan of its bindings; meanwhile a pattern    *)
(* that is not wanted any more has its stop still to come.                 *)
(***************************************************************************)

\* The thread is in the scan of a creature's bindings.
Scanning(w) == w.at \in {"scan", "check", "install"} /\ w.job.creature # None

Locks ==
  /\ \A t \in Callers :
       Scanning(caller[t]) => /\ lock[caller[t].job.creature] = t
                              /\ lastSeen[caller[t].job.creature] = caller[t].job.to
  /\ \A c \in Creatures :
       lock[c] # None => \/ Scanning(caller[lock[c]]) /\ caller[lock[c]].job.creature = c
                         \/ caller[lock[c]].at \in {"arm", "schedule"} /\ ~caller[lock[c]].job.stopAfter

Wanted(f, c, p, activity) ==
  \E i \in DOMAIN Bindings[f] : /\ Bindings[f][i].creature = c /\ Bindings[f][i].pattern = p
                                /\ Matches(Bindings[f][i], activity)

\* A thread that is about to start a bound pattern has been told to.
StartsWanted ==
  \A t \in Callers :
    caller[t].at \in {"check", "install"} /\ caller[t].job.creature # None =>
      Wanted(caller[t].job.fixture, caller[t].job.creature, caller[t].job.pattern, caller[t].job.to)

\* The scan w has the fixture still before it, or is about to stop it.
Owes(w, f, c, p) ==
  /\ Scanning(w)
  /\ \/ f \in w.todo /\ Wanted(f, c, p, w.job.from)
     \/ f = w.job.fixture /\ \E i \in w.work : ~Matches(Bindings[f][i], w.job.to)

Bound(f, c) == active[f] # None /\ active[f].by = c /\ active[f].phase # "fadeOut"

Settled ==
  \A f \in cached, c \in Creatures :
    Bound(f, c) => \/ Wanted(f, c, active[f].pattern, lastSeen[c])
                   \/ lock[c] # None /\ Owes(caller[lock[c]], f, c, active[f].pattern)

\* The bindings a scan has left to switch are its creature's.
OwnWork ==
  \A t \in Callers : \A i \in caller[t].work :
    Bindings[caller[t].job.fixture][i].creature = caller[t].job.creature

BindingInv == Locks /\ StartsWanted /\ Settled

\* The scan in w goes on in v, with what it owes.
GoesOn(w, v) ==
  /\ Scanning(v) /\ v.job.creature = w.job.creature /\ v.job.to = w.job.to
  /\ v.job.from = w.job.from /\ v.job.fixture = w.job.fixture
  /\ v.todo = w.todo /\ v.work = w.work

LEMMA AfterStartRecord ==
  ASSUME IInv, NEW t \in Callers, NEW s \in BOOLEAN, caller[t].at \in {"check", "install"}
  PROVE  /\ caller[t].job.creature # None => GoesOn(caller[t], AfterStart(t, s))
                                             /\ AfterStart(t, s).at = "scan"
         /\ caller[t].job.creature = None => ~Scanning(AfterStart(t, s))
<1>. DEFINE w == caller[t]
            new == [w EXCEPT !.at = "scan", !.touched = w.touched \/ s, !.job.pattern = None, !.job.universe = None]
<1>1. w \in Caller /\ Fits(w)
  BY DEF IInv, TypeOK, Working
<1>2. CASE w.job.creature # None
  <2>1. AfterStart(t, s) = new
    BY <1>2 DEF AfterStart
  <2>2. GoesOn(w, new) /\ new.at = "scan"
    BY <1>1, <1>2 DEF GoesOn, Scanning, Caller, Job
  <2>. QED BY <1>2, <2>1, <2>2
<1>3. CASE w.job.creature = None
  <2>1. w.job.fixture \in Fixtures /\ w.job.stopAfter \in BOOLEAN
    BY <1>1 DEF Fits, Caller, Job, IInv
  <2>2. AfterStart(t, s) = IF s THEN ToArm(w.job.fixture, w.job.stopAfter) ELSE Idle
    BY <1>3 DEF AfterStart
  <2>. QED BY <1>3, <2>1, <2>2, ToArmFits, IdleFits DEF Scanning
<1>. QED BY <1>2, <1>3

LEMMA ToArmRecord ==
  ASSUME NEW f \in Fixtures \cup {None}
  PROVE  ToArm(f, FALSE).at = "arm" /\ ~ToArm(f, FALSE).job.stopAfter
<1>1. [NoJob EXCEPT !.fixture = IF FALSE THEN f ELSE None, !.stopAfter = FALSE].stopAfter = FALSE
  BY DEF NoJob
<1>. QED BY <1>1 DEF ToArm, Task

(* Who holds a creature's mutex keeps it through a step that leaves the    *)
(* mutexes alone.                                                          *)
LEMMA LocksKept ==
  ASSUME IInv, Locks, NEW t \in Callers, Moves(t), UNCHANGED <<lock, lastSeen>>,
         Scanning(caller'[t]) =>
           /\ Scanning(caller[t]) /\ caller'[t].job.creature = caller[t].job.creature
           /\ caller'[t].job.to = caller[t].job.to,
         Scanning(caller[t]) =>
           Scanning(caller'[t]) \/ (caller'[t].at = "arm" /\ ~caller'[t].job.stopAfter),
         caller[t].at \in {"arm", "schedule"} /\ ~caller[t].job.stopAfter =>
           caller'[t].at \in {"arm", "schedule"} /\ ~caller'[t].job.stopAfter
  PROVE  Locks'
<1>1. \A s \in Callers \ {t} : caller'[s] = caller[s]
  BY DEF Moves
<1>2. ASSUME NEW s \in Callers, Scanning(caller'[s])
      PROVE  lock[caller'[s].job.creature] = s /\ lastSeen[caller'[s].job.creature] = caller'[s].job.to
  BY <1>1, <1>2 DEF Locks
<1>3. ASSUME NEW c \in Creatures, lock[c] # None
      PROVE  \/ Scanning(caller'[lock[c]]) /\ caller'[lock[c]].job.creature = c
             \/ caller'[lock[c]].at \in {"arm", "schedule"} /\ ~caller'[lock[c]].job.stopAfter
  <2>1. lock[c] \in Callers
    BY <1>3 DEF IInv, TypeOK
  <2>2. CASE lock[c] # t
    BY <1>1, <1>3, <2>1, <2>2 DEF Locks
  <2>3. CASE lock[c] = t
    BY <1>3, <2>3 DEF Locks
  <2>. QED BY <2>2, <2>3
<1>. QED BY <1>2, <1>3 DEF Locks

(* What a scan owes stays owed, or is paid.                                *)
LEMMA SettledKept ==
  ASSUME IInv, Settled, NEW t \in Callers, Moves(t), UNCHANGED <<lock, lastSeen, cached>>,
         \A f \in cached, c \in Creatures :
           Bound(f, c)' =>
             \/ /\ Bound(f, c) /\ active'[f].pattern = active[f].pattern
                /\ lock[c] = t /\ Owes(caller[t], f, c, active[f].pattern) =>
                     \/ Wanted(f, c, active[f].pattern, lastSeen[c])
                     \/ Owes(caller'[t], f, c, active[f].pattern)
             \/ Wanted(f, c, active'[f].pattern, lastSeen[c])
  PROVE  Settled'
<1>1. \A s \in Callers \ {t} : caller'[s] = caller[s]
  BY DEF Moves
<1>2. ASSUME NEW f \in cached, NEW c \in Creatures, Bound(f, c)'
      PROVE  \/ Wanted(f, c, active'[f].pattern, lastSeen[c])
             \/ lock[c] # None /\ Owes(caller'[lock[c]], f, c, active'[f].pattern)
  <2>1. CASE Wanted(f, c, active'[f].pattern, lastSeen[c])
    BY <2>1
  <2>2. CASE ~Wanted(f, c, active'[f].pattern, lastSeen[c])
    <3>1. /\ Bound(f, c) /\ active'[f].pattern = active[f].pattern
          /\ lock[c] = t /\ Owes(caller[t], f, c, active[f].pattern) =>
                 Owes(caller'[t], f, c, active[f].pattern)
      BY <1>2, <2>2
    <3>2. lock[c] # None /\ Owes(caller[lock[c]], f, c, active[f].pattern)
      BY <2>2, <3>1 DEF Settled
    <3>3. lock[c] \in Callers
      BY <3>2 DEF IInv, TypeOK
    <3>. QED BY <1>1, <3>1, <3>2, <3>3
  <2>. QED BY <2>1, <2>2
<1>3. \A f, c, p, a : Wanted(f, c, p, a) <=> Wanted(f, c, p, a)'
  BY DEF Wanted, Matches
<1>. QED BY <1>2, <1>3 DEF Settled, Owes, Scanning, Wanted, Matches

(* The runner's own steps only take patterns away or let them fade.        *)
LEMMA StoppedBound ==
  ASSUME IInv, NEW g \in Fixtures, active' = Stopped(g)
  PROVE  /\ \A f \in Fixtures, c \in Creatures :
              Bound(f, c)' => Bound(f, c) /\ active'[f].pattern = active[f].pattern
         /\ \A c \in Creatures : ~Bound(g, c)'
<1>. DEFINE new == [active[g] EXCEPT !.phase = "fadeOut", !.due = FALSE]
<1>1. CASE active[g] = None \/ active[g].phase = "fadeOut"
  BY <1>1 DEF Stopped, Bound
<1>2. CASE ~(active[g] = None \/ active[g].phase = "fadeOut")
  <2>1. active' = [active EXCEPT ![g] = new]
    BY <1>2 DEF Stopped
  <2>2. active[g] \in ActivePattern
    BY <1>2 DEF IInv, TypeOK
  <2>3. new.phase = "fadeOut"
    BY <2>2 DEF ActivePattern
  <2>. HIDE DEF new
  <2>4. active'[g] = new /\ \A f \in Fixtures \ {g} : active'[f] = active[f]
    BY <2>1 DEF IInv, TypeOK
  <2>. QED BY <2>3, <2>4 DEF Bound
<1>. QED BY <1>1, <1>2

LEMMA TimeBound ==
  ASSUME IInv, Tick \/ \E g \in Fixtures : PhaseDue(g)
  PROVE  \A f \in Fixtures, c \in Creatures :
           Bound(f, c)' => Bound(f, c) /\ active'[f].pattern = active[f].pattern
<1>. SUFFICES ASSUME NEW f \in Fixtures, NEW c \in Creatures, Bound(f, c)'
              PROVE  Bound(f, c) /\ active'[f].pattern = active[f].pattern
  OBVIOUS
<1>1. ASSUME NEW g \in Fixtures, PhaseDue(g) PROVE Bound(f, c) /\ active'[f].pattern = active[f].pattern
  <2>. DEFINE new == [active[g] EXCEPT !.due = TRUE]
  <2>1. active[g] # None /\ active[g] \in ActivePattern /\ active' = [active EXCEPT ![g] = new]
    BY <1>1 DEF PhaseDue, IInv, TypeOK
  <2>2. new.phase = active[g].phase /\ new.by = active[g].by /\ new.pattern = active[g].pattern
    BY <2>1 DEF ActivePattern
  <2>. HIDE DEF new
  <2>3. active'[g] = new /\ \A h \in Fixtures \ {g} : active'[h] = active[h]
    BY <2>1 DEF IInv, TypeOK
  <2>. QED BY <2>1, <2>2, <2>3 DEF Bound
<1>2. ASSUME Tick PROVE Bound(f, c) /\ active'[f].pattern = active[f].pattern
  <2>. DEFINE e == active[f]
              hold == [e EXCEPT !.phase = "hold", !.due = FALSE]
              fade == [e EXCEPT !.phase = "fadeOut", !.due = FALSE]
  <2>1. active'[f] = Rendered(f) /\ Rendered(f) # None
    BY <1>2 DEF Tick, Bound
  <2>2. e # None /\ e \in ActivePattern /\ active'[f] = Advanced(e)
    BY <2>1 DEF Rendered, IInv, TypeOK
  <2>3. hold.by = e.by /\ hold.pattern = e.pattern /\ fade.phase = "fadeOut"
    BY <2>2 DEF ActivePattern
  <2>4. \/ Advanced(e) = hold /\ e.phase = "fadeIn"
        \/ Advanced(e) = fade \/ Advanced(e) = None \/ Advanced(e) = e
    BY DEF Advanced
  <2>. HIDE DEF e, hold, fade
  <2>5. e.phase = "fadeIn" => e.phase # "fadeOut"
    OBVIOUS
  <2>. QED BY <2>1, <2>2, <2>3, <2>4, <2>5 DEF Bound, e
<1>. QED BY <1>1, <1>2

\* What is wanted of a thread about to start a pattern.
StartWanted(w) ==
  w.at \in {"check", "install"} /\ w.job.creature # None =>
    Wanted(w.job.fixture, w.job.creature, w.job.pattern, w.job.to)

LEMMA StartsKept ==
  ASSUME StartsWanted, NEW t \in Callers, Moves(t), StartWanted(caller'[t])
  PROVE  StartsWanted'
BY DEF StartsWanted, StartWanted, Moves, Wanted, Matches

(* A call begins with no mutex.                                            *)
LEMMA CallsBind ==
  ASSUME IInv, BindingInv, NEW t \in Callers, Calls(t)
  PROVE  BindingInv'
<1>1. Moves(t) /\ UNCHANGED <<lock, lastSeen, cached, active>> /\ caller[t].at = "idle"
  BY ThreadMoves DEF Calls, Trigger, Preview, Live, Report, Begins, runnerVars, configVars
<1>2. \/ caller'[t].at = "check" /\ caller'[t].job.creature = None
      \/ caller'[t].at \in {"setLive", "edge"}
  <2>1. ASSUME NEW f \in Fixtures, NEW p \in Patterns, NEW s \in BOOLEAN, Trigger(t, f, p, s)
        PROVE  caller'[t].at = "check" /\ caller'[t].job.creature = None
    <3>. DEFINE job == [NoJob EXCEPT !.fixture = f, !.pattern = p, !.universe = assigned[f], !.stopAfter = s]
    <3>1. caller' = [caller EXCEPT ![t] = Task("check", job)] /\ job.creature = None
      BY <2>1 DEF Trigger, Begins, NoJob
    <3>. HIDE DEF job
    <3>. QED BY <3>1 DEF IInv, TypeOK, Task
  <2>2. ASSUME NEW at \in {"setLive", "edge"}, NEW job, Begins(t, at, job)
        PROVE  caller'[t].at \in {"setLive", "edge"}
    BY <2>2 DEF Begins, IInv, TypeOK, Task
  <2>. QED BY <2>1, <2>2 DEF Calls, Preview, Live, Report
<1>3. ~Scanning(caller'[t]) /\ ~Scanning(caller[t]) /\ StartWanted(caller'[t])
  BY <1>1, <1>2 DEF Scanning, StartWanted
<1>4. Locks'
  BY <1>1, <1>3, LocksKept DEF BindingInv
<1>5. Settled'
  BY <1>1, <1>3, SettledKept DEF BindingInv, Bound, Owes
<1>. QED BY <1>1, <1>3, <1>4, <1>5, StartsKept DEF BindingInv

LEMMA CheckLiveBinds ==
  ASSUME IInv, BindingInv, NEW t \in Callers, CheckLive(t)
  PROVE  BindingInv'
<1>. DEFINE w == caller[t]
            new == [w EXCEPT !.at = "install"]
<1>1. /\ Moves(t) /\ UNCHANGED <<lock, lastSeen, cached, active>> /\ w.at = "check"
      /\ w \in Caller
  BY CheckLiveMoves DEF CheckLive, runnerVars, configVars, IInv, TypeOK
<1>2. \/ caller'[t] = AfterStart(t, FALSE) \/ caller'[t] = new
  BY DEF CheckLive, IInv, TypeOK
<1>3. /\ new.at = "install" /\ new.job = w.job /\ new.todo = w.todo /\ new.work = w.work
  BY <1>1 DEF Caller
<1>. HIDE DEF new
<1>4. /\ w.job.creature # None => GoesOn(w, caller'[t])
      /\ w.job.creature = None => ~Scanning(caller'[t]) /\ ~Scanning(w)
  <2>1. CASE caller'[t] = new
    BY <1>1, <1>3, <2>1 DEF GoesOn, Scanning
  <2>2. CASE caller'[t] = AfterStart(t, FALSE)
    BY <1>1, <2>2, AfterStartRecord DEF Scanning
  <2>. QED BY <1>2, <2>1, <2>2
<1>5. StartWanted(caller'[t])
  <2>1. CASE caller'[t] = new
    BY <1>1, <1>3, <2>1 DEF BindingInv, StartsWanted, StartWanted
  <2>2. CASE caller'[t] = AfterStart(t, FALSE)
    BY <1>1, <1>4, <2>2, AfterStartRecord DEF StartWanted, Scanning
  <2>. QED BY <1>2, <2>1, <2>2
<1>6. Locks'
  <2>1. Scanning(caller'[t]) =>
          /\ Scanning(caller[t]) /\ caller'[t].job.creature = caller[t].job.creature
          /\ caller'[t].job.to = caller[t].job.to
    BY <1>1, <1>4 DEF GoesOn, Scanning
  <2>2. Scanning(caller[t]) => Scanning(caller'[t])
    BY <1>1, <1>4 DEF GoesOn, Scanning
  <2>3. ~(caller[t].at \in {"arm", "schedule"})
    BY <1>1
  <2>4. Moves(t) /\ UNCHANGED <<lock, lastSeen>>
    BY <1>1
  <2>. HIDE DEF w
  <2>. QED BY <2>1, <2>2, <2>3, <2>4, LocksKept DEF BindingInv
<1>7. Settled'
  BY <1>1, <1>4, SettledKept DEF BindingInv, Bound, Owes, GoesOn, Scanning
<1>. QED BY <1>1, <1>5, <1>6, <1>7, StartsKept DEF BindingInv

(* A pattern that a scan installs is wanted by the activity it deals with. *)
LEMMA InstallBinds ==
  ASSUME IInv, BindingInv, NEW t \in Callers, Install(t)
  PROVE  BindingInv'
<1>. PICK g \in Fixtures : g = caller[t].job.fixture
  BY InstallTyped
<1>. DEFINE w == caller[t]
            e == [pattern |-> w.job.pattern, by |-> w.job.creature, universe |-> w.job.universe,
                  phase |-> "fadeIn", due |-> FALSE]
<1>1. /\ Moves(t) /\ UNCHANGED <<lock, lastSeen, cached>> /\ w.at = "install"
      /\ caller'[t] = AfterStart(t, TRUE) /\ w \in Caller
  BY InstallMoves DEF Install, configVars, IInv, TypeOK
<1>2. active'[g] = e /\ \A f \in Fixtures \ {g} : active'[f] = active[f]
  BY <1>1 DEF Install, IInv, TypeOK
<1>3. /\ w.job.creature # None => GoesOn(w, caller'[t])
      /\ w.job.creature = None => ~Scanning(caller'[t]) /\ ~Scanning(w)
      /\ StartWanted(caller'[t])
  BY <1>1, AfterStartRecord DEF Scanning, StartWanted
<1>4. Locks'
  <2>1. Scanning(caller'[t]) =>
          /\ Scanning(caller[t]) /\ caller'[t].job.creature = caller[t].job.creature
          /\ caller'[t].job.to = caller[t].job.to
    BY <1>1, <1>3 DEF GoesOn, Scanning
  <2>2. Scanning(caller[t]) => Scanning(caller'[t])
    BY <1>1, <1>3 DEF GoesOn, Scanning
  <2>3. ~(caller[t].at \in {"arm", "schedule"})
    BY <1>1
  <2>4. Moves(t) /\ UNCHANGED <<lock, lastSeen>>
    BY <1>1
  <2>. HIDE DEF w
  <2>. QED BY <2>1, <2>2, <2>3, <2>4, LocksKept DEF BindingInv
<1>5. Settled'
  <2>1. ASSUME NEW f \in cached, NEW c \in Creatures, Bound(f, c)', f # g
        PROVE  /\ Bound(f, c) /\ active'[f].pattern = active[f].pattern
               /\ Owes(caller[t], f, c, active[f].pattern) => Owes(caller'[t], f, c, active[f].pattern)
    <3>1. f \in Fixtures \ {g}
      BY <2>1 DEF IInv, TypeOK
    <3>. QED BY <1>2, <1>3, <2>1, <3>1 DEF Bound, Owes, GoesOn, Scanning
  <2>2. ASSUME NEW c \in Creatures, Bound(g, c)'
        PROVE  Wanted(g, c, active'[g].pattern, lastSeen[c])
    <3>1. w.job.creature = c /\ active'[g].pattern = w.job.pattern
      <4>1. active'[g].by = c
        BY <2>2 DEF Bound
      <4>2. active'[g] = e /\ e.by = w.job.creature /\ e.pattern = w.job.pattern
        BY <1>2
      <4>. QED BY <4>1, <4>2
    <3>2. c # None
      BY NoneApart
    <3>3. Wanted(g, c, w.job.pattern, w.job.to)
      BY <1>1, <3>1, <3>2 DEF BindingInv, StartsWanted
    <3>4. lastSeen[c] = w.job.to
      BY <1>1, <3>1, <3>2 DEF BindingInv, Locks, Scanning
    <3>. QED BY <3>1, <3>3, <3>4
  <2>3. \A f \in cached, c \in Creatures :
          Bound(f, c)' =>
            \/ /\ Bound(f, c) /\ active'[f].pattern = active[f].pattern
               /\ lock[c] = t /\ Owes(caller[t], f, c, active[f].pattern) =>
                    \/ Wanted(f, c, active[f].pattern, lastSeen[c])
                    \/ Owes(caller'[t], f, c, active[f].pattern)
            \/ Wanted(f, c, active'[f].pattern, lastSeen[c])
    <3>. SUFFICES ASSUME NEW f \in cached, NEW c \in Creatures, Bound(f, c)'
                  PROVE  \/ /\ Bound(f, c) /\ active'[f].pattern = active[f].pattern
                            /\ lock[c] = t /\ Owes(caller[t], f, c, active[f].pattern) =>
                                 \/ Wanted(f, c, active[f].pattern, lastSeen[c])
                                 \/ Owes(caller'[t], f, c, active[f].pattern)
                         \/ Wanted(f, c, active'[f].pattern, lastSeen[c])
      OBVIOUS
    <3>1. CASE f = g
      BY <2>2, <3>1
    <3>2. CASE f # g
      BY <2>1, <3>2
    <3>. QED BY <3>1, <3>2
  <2>. QED BY <1>1, <2>3, SettledKept DEF BindingInv
<1>. QED BY <1>1, <1>3, <1>4, <1>5, StartsKept DEF BindingInv

LEMMA SetLiveBinds ==
  ASSUME IInv, BindingInv, NEW t \in Callers, SetLive(t)
  PROVE  BindingInv'
<1>. DEFINE g == caller[t].job.fixture
<1>1. /\ Moves(t) /\ UNCHANGED <<lock, lastSeen, cached>> /\ caller[t].at = "setLive"
      /\ g \in Fixtures /\ caller' = [caller EXCEPT ![t] = ToArm(g, FALSE)]
  BY SetLiveMoves, SetLiveTyped DEF SetLive, configVars, IInv
<1>2. caller'[t].at = "arm" /\ ~caller'[t].job.stopAfter
  BY <1>1, ToArmRecord DEF IInv, TypeOK
<1>3. ~Scanning(caller'[t]) /\ ~Scanning(caller[t]) /\ StartWanted(caller'[t])
  BY <1>1, <1>2 DEF Scanning, StartWanted
<1>4. \A f \in Fixtures, c \in Creatures :
        Bound(f, c)' => Bound(f, c) /\ active'[f].pattern = active[f].pattern
  BY DEF SetLive, Bound, IInv, TypeOK
<1>5. Locks'
  BY <1>1, <1>2, <1>3, LocksKept DEF BindingInv
<1>6. cached \subseteq Fixtures
  BY DEF IInv, TypeOK
<1>7. Settled'
  BY <1>1, <1>3, <1>4, <1>6, SettledKept DEF BindingInv, Owes
<1>. QED BY <1>1, <1>3, <1>5, <1>7, StartsKept DEF BindingInv

(* The mutex is given back by a thread whose scan owes nothing any more.   *)
LEMMA UnlockBinds ==
  ASSUME IInv, BindingInv, NEW t \in Callers, Moves(t), UNCHANGED <<lastSeen, cached, active>>,
         ~Scanning(caller'[t]), StartWanted(caller'[t]),
         \A f \in cached, c \in Creatures : ~Owes(caller[t], f, c, active[f].pattern),
         \/ lock' = Unlocked(t)
         \/ lock' = lock /\ \A c \in Creatures : lock[c] # t
         \/ lock' = lock /\ caller'[t].at \in {"arm", "schedule"} /\ ~caller'[t].job.stopAfter
  PROVE  BindingInv'
<1>1. \A s \in Callers \ {t} : caller'[s] = caller[s]
  BY DEF Moves
<1>2. \A c \in Creatures : lock'[c] \in {None, lock[c]} /\ (lock[c] # t => lock'[c] = lock[c])
  BY NoneApart DEF Unlocked, IInv, TypeOK
<1>3. ASSUME NEW c \in Creatures, lock'[c] = t
      PROVE  caller'[t].at \in {"arm", "schedule"} /\ ~caller'[t].job.stopAfter
  BY <1>3, NoneApart DEF Unlocked
<1>4. Locks'
  <2>1. ASSUME NEW s \in Callers, Scanning(caller'[s])
        PROVE  lock'[caller'[s].job.creature] = s /\ lastSeen[caller'[s].job.creature] = caller'[s].job.to
    <3>1. s # t /\ caller'[s] = caller[s]
      BY <1>1, <2>1
    <3>2. caller[s].job.creature \in Creatures
      BY <2>1, <3>1 DEF Scanning, IInv, TypeOK, Caller, Job
    <3>3. lock[caller[s].job.creature] = s /\ lastSeen[caller[s].job.creature] = caller[s].job.to
      BY <2>1, <3>1 DEF BindingInv, Locks
    <3>. QED BY <1>2, <3>1, <3>2, <3>3
  <2>2. ASSUME NEW c \in Creatures, lock'[c] # None
        PROVE  \/ Scanning(caller'[lock'[c]]) /\ caller'[lock'[c]].job.creature = c
               \/ caller'[lock'[c]].at \in {"arm", "schedule"} /\ ~caller'[lock'[c]].job.stopAfter
    <3>1. lock'[c] = lock[c] /\ lock[c] \in Callers
      BY <1>2, <2>2 DEF IInv, TypeOK
    <3>2. CASE lock[c] = t
      BY <1>3, <3>1, <3>2
    <3>3. CASE lock[c] # t
      BY <1>1, <2>2, <3>1, <3>3 DEF BindingInv, Locks
    <3>. QED BY <3>2, <3>3
  <2>. QED BY <2>1, <2>2 DEF Locks
<1>5. Settled'
  <2>1. ASSUME NEW f \in cached, NEW c \in Creatures, Bound(f, c)
        PROVE  \/ Wanted(f, c, active[f].pattern, lastSeen[c])
               \/ lock'[c] # None /\ Owes(caller'[lock'[c]], f, c, active[f].pattern)
    <3>1. CASE Wanted(f, c, active[f].pattern, lastSeen[c])
      BY <3>1
    <3>2. CASE ~Wanted(f, c, active[f].pattern, lastSeen[c])
      <4>1. lock[c] # None /\ Owes(caller[lock[c]], f, c, active[f].pattern)
        BY <2>1, <3>2 DEF BindingInv, Settled
      <4>2. lock[c] # t /\ lock[c] \in Callers
        BY <4>1 DEF IInv, TypeOK
      <4>. QED BY <1>1, <1>2, <4>1, <4>2
    <3>. QED BY <3>1, <3>2
  <2>. QED BY <2>1 DEF Settled, Bound, Owes, Scanning, Wanted, Matches
<1>. QED BY <1>4, <1>5, StartsKept DEF BindingInv

LEMMA ArmBinds ==
  ASSUME IInv, BindingInv, NEW t \in Callers, TryArm(t) \/ ScheduleTick(t)
  PROVE  BindingInv'
<1>. DEFINE w == caller[t]
            armer == [w EXCEPT !.at = "schedule"]
            stopper == [w EXCEPT !.at = "autoStop"]
<1>1. /\ Moves(t) /\ UNCHANGED <<lastSeen, cached, active>> /\ w.at \in {"arm", "schedule"}
      /\ w \in Caller
  BY TryArmMoves, ScheduleTickMoves
  DEF TryArm, ScheduleTick, runnerVars, configVars, IInv, TypeOK
<1>2. \/ w.job.stopAfter /\ caller'[t] = stopper /\ lock' = lock
      \/ ~w.job.stopAfter /\ caller'[t] = Idle /\ lock' = Unlocked(t)
      \/ caller'[t] = armer /\ lock' = lock
  BY DEF TryArm, ScheduleTick, AfterArm, IInv, TypeOK, Caller
<1>3. /\ armer.at = "schedule" /\ armer.job = w.job
      /\ stopper.at = "autoStop" /\ stopper.job = w.job
  BY <1>1 DEF Caller
<1>. HIDE DEF armer, stopper
<1>4. ~Scanning(caller'[t]) /\ StartWanted(caller'[t]) /\ ~Scanning(w)
  BY <1>1, <1>2, <1>3, IdleFits DEF Scanning, StartWanted
<1>5. \A f \in cached, c \in Creatures : ~Owes(w, f, c, active[f].pattern)
  BY <1>4 DEF Owes
<1>6. w.job.stopAfter => \A c \in Creatures : lock[c] # t
  <2>. SUFFICES ASSUME w.job.stopAfter, NEW c \in Creatures, lock[c] = t PROVE FALSE
    OBVIOUS
  <2>1. t # None
    BY NoneApart
  <2>. QED BY <1>4, <2>1 DEF BindingInv, Locks
<1>7. \/ lock' = Unlocked(t)
      \/ lock' = lock /\ \A c \in Creatures : lock[c] # t
      \/ lock' = lock /\ caller'[t].at \in {"arm", "schedule"} /\ ~caller'[t].job.stopAfter
  <2>1. CASE w.job.stopAfter
    BY <1>2, <1>6, <2>1
  <2>2. CASE ~w.job.stopAfter
    BY <1>2, <1>3, <2>2
  <2>. QED BY <2>1, <2>2
<1>. HIDE DEF w
<1>8. \A f \in cached, c \in Creatures : ~Owes(caller[t], f, c, active[f].pattern)
  BY <1>5 DEF w
<1>. QED BY <1>1, <1>4, <1>7, <1>8, UnlockBinds

LEMMA AutoStopBinds ==
  ASSUME IInv, BindingInv, NEW t \in Callers, ScheduleAutoStop(t)
  PROVE  BindingInv'
<1>1. /\ Moves(t) /\ UNCHANGED <<lastSeen, cached, active, lock>> /\ caller[t].at = "autoStop"
      /\ caller'[t] = Idle
  BY ScheduleAutoStopMoves DEF ScheduleAutoStop, runnerVars, configVars, IInv, TypeOK
<1>2. ~Scanning(caller'[t]) /\ ~Scanning(caller[t]) /\ StartWanted(caller'[t])
  BY <1>1, IdleFits DEF Scanning, StartWanted
<1>3. Locks'
  BY <1>1, <1>2, LocksKept DEF BindingInv
<1>4. Settled'
  BY <1>1, <1>2, SettledKept DEF BindingInv, Bound, Owes
<1>. QED BY <1>1, <1>2, <1>3, <1>4, StartsKept DEF BindingInv

LEMMA ScanDoneBinds ==
  ASSUME IInv, BindingInv, NEW t \in Callers, ScanDone(t)
  PROVE  BindingInv'
<1>1. /\ Moves(t) /\ UNCHANGED <<lastSeen, cached, active>>
      /\ caller[t].work = {} /\ caller[t].todo = {}
  BY ScanDoneMoves DEF ScanDone, runnerVars, configVars, IInv
<1>2. \/ caller'[t] = ToArm(None, FALSE) /\ lock' = lock
      \/ caller'[t] = Idle /\ lock' = Unlocked(t)
  BY DEF ScanDone, IInv, TypeOK
<1>3. ~Scanning(caller'[t]) /\ StartWanted(caller'[t])
  BY <1>2, ToArmRecord, IdleFits DEF Scanning, StartWanted
<1>4. \/ lock' = Unlocked(t)
      \/ lock' = lock /\ caller'[t].at \in {"arm", "schedule"} /\ ~caller'[t].job.stopAfter
  BY <1>2, ToArmRecord
<1>5. \A f \in cached, c \in Creatures : ~Owes(caller[t], f, c, active[f].pattern)
  BY <1>1 DEF Owes
<1>. QED BY <1>1, <1>3, <1>4, <1>5, UnlockBinds

(* A change of activity leaves everything to the scan that begins.         *)
LEMMA EdgeBinds ==
  ASSUME IInv, BindingInv, NEW t \in Callers, Edge(t)
  PROVE  BindingInv'
<1>. PICK c \in Creatures : c = caller[t].job.creature
  BY DEF IInv, Working, Fits, Edge
<1>. DEFINE w == caller[t]
            new == [w EXCEPT !.at = "scan", !.todo = cached, !.job.from = lastSeen[c]]
<1>1. /\ Moves(t) /\ UNCHANGED <<cached, active>> /\ w.at = "edge" /\ lock[c] = None /\ w \in Caller
  BY EdgeMoves DEF Edge, runnerVars, configVars, IInv, TypeOK
<1>2. ~Scanning(w) /\ \A d \in Creatures : lock[d] # t
  <2>1. t # None
    BY NoneApart
  <2>2. ~Scanning(w) /\ w.at \notin {"arm", "schedule"}
    BY <1>1 DEF Scanning
  <2>. QED BY <2>1, <2>2 DEF BindingInv, Locks
<1>3. CASE lastSeen[c] = w.job.to
  <2>1. caller'[t] = Idle /\ UNCHANGED <<lastSeen, lock>>
    BY <1>3 DEF Edge, IInv, TypeOK
  <2>2. ~Scanning(caller'[t]) /\ StartWanted(caller'[t])
    BY <2>1, IdleFits DEF Scanning, StartWanted
  <2>3. \A f \in cached, d \in Creatures : ~Owes(caller[t], f, d, active[f].pattern)
    BY <1>2 DEF Owes
  <2>. QED BY <1>1, <1>2, <2>1, <2>2, <2>3, UnlockBinds
<1>4. CASE lastSeen[c] # w.job.to
  <2>1. /\ lastSeen' = [lastSeen EXCEPT ![c] = w.job.to] /\ lock' = [lock EXCEPT ![c] = t]
        /\ caller' = [caller EXCEPT ![t].at = "scan", ![t].todo = cached, ![t].job.from = lastSeen[c]]
    BY <1>4 DEF Edge
  <2>2. /\ lastSeen'[c] = w.job.to /\ lock'[c] = t
        /\ \A d \in Creatures \ {c} : lastSeen'[d] = lastSeen[d] /\ lock'[d] = lock[d]
    BY <2>1 DEF IInv, TypeOK
  <2>3. caller'[t] = new
    BY <1>1, <2>1 DEF IInv, TypeOK, Caller, Job
  <2>4. /\ new.at = "scan" /\ new.todo = cached /\ new.job.from = lastSeen[c]
        /\ new.job.creature = c /\ new.job.to = w.job.to
    BY <1>1 DEF Caller, Job
  <2>. HIDE DEF new
  <2>5. Scanning(caller'[t]) /\ StartWanted(caller'[t])
    BY <2>3, <2>4, NoneApart DEF Scanning, StartWanted
  <2>6. \A s \in Callers \ {t} : caller'[s] = caller[s]
    BY <1>1 DEF Moves
  <2>7. Locks'
    <3>1. ASSUME NEW s \in Callers, Scanning(caller'[s])
          PROVE  lock'[caller'[s].job.creature] = s
                 /\ lastSeen'[caller'[s].job.creature] = caller'[s].job.to
      <4>1. CASE s = t
        BY <2>2, <2>3, <2>4, <4>1
      <4>2. CASE s # t
        <5>1. caller'[s] = caller[s]
          BY <2>6, <4>2
        <5>2. caller[s].job.creature \in Creatures
          BY <3>1, <5>1 DEF Scanning, IInv, TypeOK, Caller, Job
        <5>3. lock[caller[s].job.creature] = s /\ lastSeen[caller[s].job.creature] = caller[s].job.to
          BY <3>1, <5>1 DEF BindingInv, Locks
        <5>4. caller[s].job.creature # c
          BY <1>1, <5>3, NoneApart
        <5>. QED BY <2>2, <5>1, <5>2, <5>3, <5>4
      <4>. QED BY <4>1, <4>2
    <3>2. ASSUME NEW d \in Creatures, lock'[d] # None
          PROVE  \/ Scanning(caller'[lock'[d]]) /\ caller'[lock'[d]].job.creature = d
                 \/ caller'[lock'[d]].at \in {"arm", "schedule"} /\ ~caller'[lock'[d]].job.stopAfter
      <4>1. CASE d = c
        BY <2>2, <2>3, <2>4, <2>5, <4>1
      <4>2. CASE d # c
        <5>1. lock'[d] = lock[d] /\ lock[d] \in Callers \ {t}
          BY <1>2, <2>2, <3>2, <4>2 DEF IInv, TypeOK
        <5>. QED BY <2>6, <3>2, <5>1 DEF BindingInv, Locks
      <4>. QED BY <4>1, <4>2
    <3>. QED BY <3>1, <3>2 DEF Locks
  <2>8. Settled'
    <3>1. ASSUME NEW f \in cached, NEW d \in Creatures, Bound(f, d)
          PROVE  \/ Wanted(f, d, active[f].pattern, lastSeen'[d])
                 \/ lock'[d] # None /\ Owes(caller'[lock'[d]], f, d, active[f].pattern)
      <4>1. CASE d = c
        <5>1. Wanted(f, c, active[f].pattern, lastSeen[c])
          BY <1>1, <3>1, <4>1 DEF BindingInv, Settled
        <5>2. lock'[d] # None
          BY <2>2, <4>1, NoneApart
        <5>. QED BY <2>2, <2>3, <2>4, <2>5, <4>1, <5>1, <5>2 DEF Owes
      <4>2. CASE d # c
        <5>1. lock'[d] = lock[d] /\ lock[d] # t /\ lastSeen'[d] = lastSeen[d]
          BY <1>2, <2>2, <4>2
        <5>2. lock[d] # None => lock[d] \in Callers \ {t}
          BY <5>1 DEF IInv, TypeOK
        <5>. QED BY <2>6, <3>1, <5>1, <5>2 DEF BindingInv, Settled
      <4>. QED BY <4>1, <4>2
    <3>. QED BY <1>1, <3>1 DEF Settled, Bound, Owes, Scanning, Wanted, Matches
  <2>. QED BY <1>1, <2>5, <2>7, <2>8, StartsKept DEF BindingInv
<1>. QED BY <1>3, <1>4

(* A fixture that is scanned next owes the stops of its own bindings.      *)
LEMMA ScanFixtureBinds ==
  ASSUME IInv, BindingInv, NEW t \in Callers, NEW g \in Fixtures, ScanFixture(t, g)
  PROVE  BindingInv'
<1>. DEFINE w == caller[t]
            work == IF g \in cached THEN Switched(g, w.job.creature, w.job.from, w.job.to) ELSE {}
            new == [w EXCEPT !.todo = w.todo \ {g}, !.job.fixture = g, !.work = work]
<1>1. /\ Moves(t) /\ UNCHANGED <<lock, lastSeen, cached, active>> /\ w.at = "scan" /\ w.work = {}
      /\ w \in Caller /\ caller' = [caller EXCEPT ![t].todo = @ \ {g}, ![t].job.fixture = g, ![t].work = work]
  BY ScanFixtureMoves DEF ScanFixture, runnerVars, configVars, IInv, TypeOK
<1>2. w.job.creature \in Creatures
  BY <1>1 DEF IInv, Working, Fits
<1>3. caller'[t] = new
  BY <1>1 DEF IInv, TypeOK, Caller, Job
<1>4. /\ new.at = "scan" /\ new.todo = w.todo \ {g} /\ new.work = work /\ new.job.fixture = g
      /\ new.job.creature = w.job.creature /\ new.job.to = w.job.to /\ new.job.from = w.job.from
  BY <1>1 DEF Caller, Job
<1>. HIDE DEF new
<1>5. Scanning(caller[t]) /\ Scanning(caller'[t]) /\ StartWanted(caller'[t])
  BY <1>1, <1>2, <1>3, <1>4, NoneApart DEF Scanning, StartWanted
<1>6. Locks'
  BY <1>1, <1>3, <1>4, <1>5, LocksKept DEF BindingInv
<1>7. ASSUME NEW f \in cached, NEW c \in Creatures, lock[c] = t, Owes(w, f, c, active[f].pattern)
      PROVE  \/ Wanted(f, c, active[f].pattern, lastSeen[c])
             \/ Owes(caller'[t], f, c, active[f].pattern)
  <2>1. f \in w.todo /\ Wanted(f, c, active[f].pattern, w.job.from)
    BY <1>1, <1>7 DEF Owes
  <2>2. CASE f # g
    BY <1>3, <1>4, <1>5, <2>1, <2>2 DEF Owes
  <2>3. CASE f = g
    <3>1. w.job.creature = c /\ lastSeen[c] = w.job.to
      <4>1. t # None /\ w.at \notin {"arm", "schedule"}
        BY <1>1, NoneApart
      <4>. QED BY <1>5, <1>7, <4>1 DEF BindingInv, Locks
    <3>2. PICK i \in DOMAIN Bindings[g] : /\ Bindings[g][i].creature = c
                                          /\ Bindings[g][i].pattern = active[g].pattern
                                          /\ Matches(Bindings[g][i], w.job.from)
      BY <2>1, <2>3 DEF Wanted
    <3>3. CASE Matches(Bindings[g][i], w.job.to)
      BY <2>3, <3>1, <3>2, <3>3 DEF Wanted
    <3>4. CASE ~Matches(Bindings[g][i], w.job.to)
      <4>1. i \in work
        BY <2>3, <3>1, <3>2, <3>4 DEF Switched
      <4>. QED BY <1>3, <1>4, <1>5, <2>3, <3>4, <4>1 DEF Owes
    <3>. QED BY <3>3, <3>4
  <2>. QED BY <2>2, <2>3
<1>. HIDE DEF w
<1>8. Settled'
  BY <1>1, <1>7, SettledKept DEF BindingInv, Bound, w
<1>. QED BY <1>1, <1>5, <1>6, <1>8, StartsKept DEF BindingInv

LEMMA BindingStartsBinds ==
  ASSUME IInv, BindingInv, OwnWork, NEW t \in Callers, NEW i \in caller[t].work, BindingStarts(t, i)
  PROVE  BindingInv'
<1>. PICK g \in Fixtures : g = caller[t].job.fixture
  BY DEF IInv, Working, Fits
<1>. DEFINE w == caller[t]
            u == assigned[g]
            b == Bindings[g][i]
            new == [w EXCEPT !.work = w.work \ {i}, !.at = IF u = None THEN "scan" ELSE "check",
                             !.job.pattern = IF u = None THEN None ELSE b.pattern,
                             !.job.universe = u]
<1>1. /\ Moves(t) /\ UNCHANGED <<lock, lastSeen, cached, active>> /\ w.at = "scan"
      /\ w \in Caller /\ caller'[t] = new /\ Matches(b, w.job.to) /\ Fits(w)
  BY BindingStartsMoves DEF BindingStarts, IsNext, runnerVars, configVars, IInv, TypeOK, Working
<1>2. w.job.creature \in Creatures /\ i \in DOMAIN Bindings[g]
  BY <1>1 DEF Fits
<1>3. /\ new.at \in {"scan", "check"} /\ new.todo = w.todo /\ new.work = w.work \ {i}
      /\ new.job.fixture = g /\ new.job.creature = w.job.creature /\ new.job.to = w.job.to
      /\ new.job.from = w.job.from /\ (new.at = "check" => new.job.pattern = b.pattern)
  BY <1>1 DEF Caller, Job
<1>. HIDE DEF new
<1>4. Scanning(caller[t]) /\ Scanning(caller'[t])
  BY <1>1, <1>2, <1>3, NoneApart DEF Scanning
<1>5. Locks'
  BY <1>1, <1>3, <1>4, LocksKept DEF BindingInv
<1>6. Settled'
  <2>1. ASSUME NEW f \in cached, NEW c \in Creatures, Owes(w, f, c, active[f].pattern)
        PROVE  Owes(caller'[t], f, c, active[f].pattern)
    BY <1>1, <1>3, <1>4, <2>1 DEF Owes
  <2>. HIDE DEF w
  <2>. QED BY <1>1, <2>1, SettledKept DEF BindingInv, Bound, w
<1>7. StartWanted(caller'[t])
  <2>1. b.creature = w.job.creature /\ b.pattern = b.pattern
    BY DEF OwnWork
  <2>2. Wanted(g, w.job.creature, b.pattern, w.job.to)
    BY <1>1, <1>2, <2>1 DEF Wanted
  <2>. QED BY <1>1, <1>3, <2>2 DEF StartWanted
<1>. QED BY <1>1, <1>5, <1>6, <1>7, StartsKept DEF BindingInv

(* A stop is paid when the fixture has begun to fade.                      *)
LEMMA BindingStopsBinds ==
  ASSUME IInv, BindingInv, NEW t \in Callers, NEW i \in caller[t].work, BindingStops(t, i)
  PROVE  BindingInv'
<1>. PICK g \in Fixtures : g = caller[t].job.fixture
  BY DEF IInv, Working, Fits
<1>. DEFINE w == caller[t]
            new == [w EXCEPT !.work = w.work \ {i}, !.touched = TRUE]
<1>1. /\ Moves(t) /\ UNCHANGED <<lock, lastSeen, cached>> /\ w.at = "scan"
      /\ w \in Caller /\ active' = Stopped(g) /\ Fits(w)
  BY BindingStopsMoves DEF BindingStops, IsNext, configVars, IInv, TypeOK, Working
<1>2. caller'[t] = new
  BY <1>1 DEF BindingStops, IInv, TypeOK, Caller
<1>3. w.job.creature \in Creatures
  BY <1>1 DEF Fits
<1>4. new.at = "scan" /\ new.job = w.job /\ new.todo = w.todo
  BY <1>1 DEF Caller
<1>. HIDE DEF new
<1>5. Scanning(caller[t]) /\ Scanning(caller'[t]) /\ StartWanted(caller'[t])
  BY <1>1, <1>2, <1>3, <1>4, NoneApart DEF Scanning, StartWanted
<1>6. Locks'
  BY <1>1, <1>2, <1>4, <1>5, LocksKept DEF BindingInv
<1>7. ASSUME NEW f \in cached, NEW c \in Creatures, Bound(f, c)'
      PROVE  /\ Bound(f, c) /\ active'[f].pattern = active[f].pattern
             /\ Owes(w, f, c, active[f].pattern) => Owes(caller'[t], f, c, active[f].pattern)
  <2>1. cached \subseteq Fixtures
    BY DEF IInv, TypeOK
  <2>2. Bound(f, c) /\ active'[f].pattern = active[f].pattern /\ f # g
    BY <1>1, <1>7, <2>1, StoppedBound
  <2>. QED BY <1>2, <1>4, <1>5, <2>2 DEF Owes
<1>. HIDE DEF w
<1>8. Settled'
  BY <1>1, <1>7, SettledKept DEF BindingInv, w
<1>. QED BY <1>1, <1>5, <1>6, <1>8, StartsKept DEF BindingInv

LEMMA OwnWorkKept ==
  ASSUME OwnWork, NEW t \in Callers, Moves(t),
         \/ caller'[t].work = {}
         \/ /\ caller'[t].work \subseteq caller[t].work
            /\ caller'[t].job.fixture = caller[t].job.fixture
            /\ caller'[t].job.creature = caller[t].job.creature
  PROVE  OwnWork'
<1>1. \A s \in Callers \ {t} : caller'[s] = caller[s]
  BY DEF Moves
<1>. QED BY <1>1 DEF OwnWork

\* The work of a scan is what ScanFixture takes from the bindings.
LEMMA OwnWorkStep ==
  ASSUME IInv, OwnWork, NEW t \in Callers, Calls(t) \/ CallerNext(t)
  PROVE  OwnWork'
<1>. DEFINE w == caller[t]
            Less(v) == v.work \subseteq w.work /\ v.job.fixture = w.job.fixture
                       /\ v.job.creature = w.job.creature
<1>1. Moves(t) /\ w \in Caller
  BY ThreadMoves DEF IInv, TypeOK
<1>2. Idle.work = {} /\ \A f, s : ToArm(f, s).work = {}
  BY DEF Idle, ToArm, Task
<1>3. ASSUME NEW s \in BOOLEAN
      PROVE  AfterStart(t, s).work = {} \/ Less(AfterStart(t, s))
  BY <1>1, <1>2 DEF AfterStart, Caller, Job
<1>4. AfterArm(w).work = {} \/ Less(AfterArm(w))
  BY <1>1, <1>2 DEF AfterArm, Caller, Job
<1>5. ASSUME NEW at \in {"install", "schedule"} PROVE Less([w EXCEPT !.at = at])
  BY <1>1 DEF Caller, Job
<1>6. CASE Calls(t)
  <2>1. ASSUME NEW at, NEW job, Begins(t, at, job) PROVE caller'[t].work = {}
    BY <2>1 DEF Begins, IInv, TypeOK, Task
  <2>2. caller'[t].work = {}
    BY <1>6, <2>1 DEF Calls, Trigger, Preview, Live, Report
  <2>. QED BY <1>1, <2>2, OwnWorkKept
<1>7. CASE CheckLive(t) \/ Install(t)
  <2>1. caller'[t] \in {AfterStart(t, FALSE), AfterStart(t, TRUE), [w EXCEPT !.at = "install"]}
    BY <1>7 DEF CheckLive, Install, IInv, TypeOK
  <2>2. caller'[t].work = {} \/ Less(caller'[t])
    BY <1>3, <1>5, <2>1
  <2>. QED BY <1>1, <2>2, OwnWorkKept
<1>8. CASE TryArm(t) \/ ScheduleTick(t)
  <2>1. caller'[t] \in {AfterArm(w), [w EXCEPT !.at = "schedule"]}
    BY <1>8 DEF TryArm, ScheduleTick, IInv, TypeOK
  <2>2. caller'[t].work = {} \/ Less(caller'[t])
    BY <1>4, <1>5, <2>1
  <2>. QED BY <1>1, <2>2, OwnWorkKept
<1>9. CASE SetLive(t) \/ ScheduleAutoStop(t) \/ ScanDone(t)
  <2>1. caller'[t] \in {Idle, ToArm(w.job.fixture, FALSE), ToArm(None, FALSE)}
    BY <1>9 DEF SetLive, ScheduleAutoStop, ScanDone, IInv, TypeOK
  <2>2. caller'[t].work = {}
    BY <1>2, <2>1
  <2>. QED BY <1>1, <2>2, OwnWorkKept
<1>10. CASE Edge(t)
  <2>. DEFINE new == [w EXCEPT !.at = "scan", !.todo = cached, !.job.from = lastSeen[w.job.creature]]
  <2>1. Less(new)
    BY <1>1 DEF Caller, Job
  <2>2. caller'[t] \in {Idle, new}
    BY <1>1, <1>10 DEF Edge, IInv, TypeOK, Caller, Job
  <2>3. caller'[t].work = {} \/ Less(caller'[t])
    BY <1>2, <2>1, <2>2
  <2>. QED BY <1>1, <2>3, OwnWorkKept
<1>11. ASSUME NEW g \in Fixtures, ScanFixture(t, g) PROVE OwnWork'
  <2>. DEFINE work == IF g \in cached THEN Switched(g, w.job.creature, w.job.from, w.job.to) ELSE {}
              new == [w EXCEPT !.todo = w.todo \ {g}, !.job.fixture = g, !.work = work]
  <2>1. caller'[t] = new
    BY <1>1, <1>11 DEF ScanFixture, IInv, TypeOK, Caller, Job
  <2>2. new.work = work /\ new.job.fixture = g /\ new.job.creature = w.job.creature
    BY <1>1 DEF Caller, Job
  <2>3. \A i \in work : Bindings[g][i].creature = w.job.creature
    BY DEF Switched
  <2>. HIDE DEF work, new
  <2>4. \A i \in caller'[t].work : Bindings[caller'[t].job.fixture][i].creature = caller'[t].job.creature
    BY <2>1, <2>2, <2>3
  <2>. QED BY <1>1, <2>4 DEF OwnWork, Moves
<1>12. ASSUME NEW i \in w.work, BindingStarts(t, i) \/ BindingStops(t, i) PROVE OwnWork'
  <2>1. ASSUME BindingStarts(t, i) PROVE Less(caller'[t])
    <3>. DEFINE f == w.job.fixture
                u == assigned[f]
                p == IF u = None THEN None ELSE Bindings[f][i].pattern
                at == IF u = None THEN "scan" ELSE "check"
                new == [w EXCEPT !.work = w.work \ {i}, !.at = at, !.job.pattern = p, !.job.universe = u]
    <3>1. caller'[t] = new
      BY <2>1 DEF BindingStarts, IInv, TypeOK
    <3>. HIDE DEF p, at, u
    <3>2. Less(new)
      BY <1>1 DEF Caller, Job
    <3>. QED BY <3>1, <3>2
  <2>2. ASSUME BindingStops(t, i) PROVE Less(caller'[t])
    <3>. DEFINE new == [w EXCEPT !.work = w.work \ {i}, !.touched = TRUE]
    <3>1. caller'[t] = new
      BY <1>1, <2>2 DEF BindingStops, IInv, TypeOK, Caller
    <3>2. Less(new)
      BY <1>1 DEF Caller, Job
    <3>. QED BY <3>1, <3>2
  <2>. QED BY <1>1, <1>12, <2>1, <2>2, OwnWorkKept
<1>. QED BY <1>6, <1>7, <1>8, <1>9, <1>10, <1>11, <1>12 DEF CallerNext

\* What is no thread's step leaves the mutexes to their holders and starts nothing.
LEMMA OthersBind ==
  ASSUME IInv, BindingInv, [Next]_vars, ~\E t \in Callers : Calls(t) \/ CallerNext(t)
  PROVE  BindingInv'
<1>1. UNCHANGED <<caller, lock, lastSeen>> /\ cached' \subseteq cached
  BY OthersKeep DEF Next, LoopNext, Configure, Time, vars, TickBegins, Tick, TickRearms, TickReschedules,
     AutoStop, PhaseDue, LiveDue, SetUniverse, DeleteFixture, ForgetUniverse, configVars
<1>2. \A f \in Fixtures, c \in Creatures :
        Bound(f, c)' => Bound(f, c) /\ active'[f].pattern = active[f].pattern
  <2>1. CASE Tick \/ \E g \in Fixtures : PhaseDue(g)
    BY <2>1, TimeBound
  <2>2. CASE \E g \in Fixtures : AutoStop(g)
    BY <2>2, StoppedBound DEF AutoStop
  <2>3. CASE ~(Tick \/ \E g \in Fixtures : PhaseDue(g)) /\ ~\E g \in Fixtures : AutoStop(g)
    <3>1. UNCHANGED active
      BY <2>3 DEF Next, LoopNext, Configure, Time, vars, TickBegins, TickRearms, TickReschedules,
         LiveDue, SetUniverse, DeleteFixture, ForgetUniverse, runnerVars
    <3>. QED BY <3>1 DEF Bound
  <2>. QED BY <2>1, <2>2, <2>3
<1>3. Locks' /\ StartsWanted'
  BY <1>1 DEF BindingInv, Locks, StartsWanted, Scanning, Wanted, Matches
<1>4. Settled'
  <2>1. ASSUME NEW f \in cached', NEW c \in Creatures, Bound(f, c)'
        PROVE  \/ Wanted(f, c, active'[f].pattern, lastSeen[c])
               \/ lock[c] # None /\ Owes(caller[lock[c]], f, c, active'[f].pattern)
    <3>1. f \in cached /\ f \in Fixtures
      BY <1>1, <2>1 DEF IInv, TypeOK
    <3>2. Bound(f, c) /\ active'[f].pattern = active[f].pattern
      BY <1>2, <2>1, <3>1
    <3>. QED BY <3>1, <3>2 DEF BindingInv, Settled
  <2>. QED BY <1>1, <2>1 DEF Settled, Owes, Scanning, Wanted, Matches
<1>. QED BY <1>3, <1>4 DEF BindingInv

LEMMA BindingStep ==
  ASSUME IInv, BindingInv, OwnWork, [Next]_vars
  PROVE  BindingInv' /\ OwnWork'
<1>1. ASSUME NEW t \in Callers, Calls(t) \/ CallerNext(t) PROVE BindingInv' /\ OwnWork'
  <2>1. ASSUME NEW g \in Fixtures, ScanFixture(t, g) PROVE BindingInv'
    BY <2>1, ScanFixtureBinds
  <2>2. ASSUME NEW i \in caller[t].work, BindingStarts(t, i) \/ BindingStops(t, i) PROVE BindingInv'
    BY <2>2, BindingStartsBinds, BindingStopsBinds
  <2>3. BindingInv'
    BY <1>1, <2>1, <2>2, CallsBind, CheckLiveBinds, InstallBinds, SetLiveBinds, ArmBinds, AutoStopBinds,
       EdgeBinds, ScanDoneBinds DEF CallerNext
  <2>. QED BY <1>1, <2>3, OwnWorkStep
<1>2. ASSUME ~\E t \in Callers : Calls(t) \/ CallerNext(t) PROVE BindingInv' /\ OwnWork'
  BY <1>2, OthersKeep, OthersBind DEF OwnWork
<1>. QED BY <1>1, <1>2

(***************************************************************************)
(* However reports, requests and the event loop meet: once a report has    *)
(* been dealt with, a pattern that an activity switched on and that does   *)
(* not fade is called for by the creature's last activity.                 *)
(***************************************************************************)
THEOREM BoundPatternsAreWanted == Spec => []BoundPatternIsWanted
<1>1. Init => BindingInv /\ OwnWork
  <2>1. Idle.at = "idle" /\ Idle.work = {}
    BY DEF Idle, Task
  <2>. QED BY <2>1 DEF Init, BindingInv, OwnWork, Locks, StartsWanted, Settled, Scanning, Bound
<1>2. IInv /\ BindingInv => BoundPatternIsWanted
  <2>. SUFFICES ASSUME IInv, BindingInv, NEW f \in cached, active[f] # None, active[f].by # None,
                       active[f].phase # "fadeOut"
                PROVE  \/ lock[active[f].by] # None
                       \/ \E i \in DOMAIN Bindings[f] :
                            /\ Bindings[f][i].creature = active[f].by
                            /\ Bindings[f][i].pattern = active[f].pattern
                            /\ Matches(Bindings[f][i], lastSeen[active[f].by])
    BY DEF BoundPatternIsWanted
  <2>1. active[f].by \in Creatures
    BY DEF IInv, TypeOK, ActivePattern
  <2>2. Bound(f, active[f].by)
    BY DEF Bound
  <2>. QED BY <2>1, <2>2 DEF BindingInv, Settled, Wanted
<1>. QED BY <1>1, <1>2, TypeInit, TypeStep, BindingStep, PTL DEF Spec
=============================================================================
