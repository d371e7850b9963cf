-------------------------- MODULE FixturePatterns --------------------------
(***************************************************************************)
(* Light fixtures.  Each fixture may have an active pattern and a live     *)
(* override in FixturePatternRunner; REST threads trigger patterns and     *)
(* move sliders (ws/service/DmxFixtureService.cpp), threads that report a  *)
(* creature's activity start and stop the patterns bound to it             *)
(* (fixture/FixtureBindingDispatcher.cpp), and a tick on the event loop    *)
(* renders what there is and comes back only while something is left       *)
(* (fixture/FixturePatternTickEvent.cpp).                                  *)
(*                                                                         *)
(* Each critical section of the runner's mutexes and each look-up whose    *)
(* result is used later is a step of its own.  Channel bytes are reduced   *)
(* to whether the fixture may be lit on a universe; frame arithmetic to    *)
(* whether the deadline of the current phase has been reached (due).       *)
(***************************************************************************)
EXTENDS Naturals, Sequences, FiniteSets

CONSTANTS
  Fixtures, Creatures, Patterns, Universes,
  Timed,       \* the patterns whose hold_ms is not 0
  Activities,  \* (reason, state) pairs
  Bindings,    \* of each fixture, in order: [creature, on, pattern]
  CallerCount, \* threads in a call at a time: REST and those that report an activity
  MaxCalls,    \* bound: the calls made in a behaviour
  None

ASSUME FixtureAssumption ==
  /\ Timed \subseteq Patterns /\ Universes # {}
  /\ Bindings \in [Fixtures -> Seq([creature : Creatures, on : SUBSET Activities,
                                    pattern : Patterns])]
  /\ MaxCalls \in Nat /\ CallerCount \in Nat
  /\ None \notin Universes \cup Creatures \cup Activities \cup Nat

VARIABLES
  active,    \* active_
  live,      \* live_
  armed,     \* tickArmed_
  ticks,     \* tick events in the event loop
  stops,     \* auto-stop events in the event loop, for each fixture
  loop,      \* where the event loop stands in a tick event
  lastSeen,  \* the dispatcher's lastSeen_
  lock,      \* creatureMutexes_: the thread that holds each
  caller,    \* each calling thread
  cached,    \* keys of fixtureCache
  assigned,  \* fixtureUniverseMap
  lit,       \* universes on which the fixture's channels were last sent non-zero
  left,      \* universes a lit fixture was moved away from (history)
  calls

runnerVars == <<active, live>>
tickVars == <<armed, ticks, loop>>
wireVars == <<lit, left>>
configVars == <<cached, assigned>>
vars == <<runnerVars, tickVars, stops, lastSeen, lock, caller, configVars, wireVars, calls>>

Callers == 1 .. CallerCount

Phase == {"fadeIn", "hold", "fadeOut"}

ActivePattern ==
  [pattern : Patterns, by : Creatures \cup {None}, universe : Universes, phase : Phase, due : BOOLEAN]

ActiveLive == [universe : Universes, due : BOOLEAN]

ASSUME NoneIsNoEntry == None \notin ActivePattern \cup ActiveLive

\* What a thread has to do: the fixture and pattern it works on, the universe
\* it looked up, the creature whose activity it reports.
Job == [fixture : Fixtures \cup {None}, pattern : Patterns \cup {None}, universe : Universes \cup {None},
        creature : Creatures \cup {None}, from : Activities \cup {None}, to : Activities \cup {None},
        stopAfter : BOOLEAN]

Caller == [at : {"idle", "edge", "scan", "check", "install", "setLive", "arm", "schedule", "autoStop"},
           job : Job, todo : SUBSET Fixtures, work : SUBSET Nat, touched : BOOLEAN]

NoJob == [fixture |-> None, pattern |-> None, universe |-> None, creature |-> None,
          from |-> None, to |-> None, stopAfter |-> FALSE]

Task(at, job) == [at |-> at, job |-> job, todo |-> {}, work |-> {}, touched |-> FALSE]

Idle == Task("idle", NoJob)

Driven(f) == active[f] # None \/ live[f] # None

\* FixtureBindingDispatcher::matches, with the filters of a binding as the set
\* of activities they let through.
Matches(b, activity) == activity \in b.on

Init ==
  /\ active = [f \in Fixtures |-> None]
  /\ live = [f \in Fixtures |-> None]
  /\ armed = FALSE /\ ticks = 0 /\ loop = "rest"
  /\ stops = [f \in Fixtures |-> 0]
  /\ lastSeen = [c \in Creatures |-> None]
  /\ lock = [c \in Creatures |-> None]
  /\ caller = [t \in Callers |-> Idle]
  /\ cached = Fixtures
  /\ assigned = [f \in Fixtures |-> CHOOSE u \in Universes : TRUE]
  /\ lit = [f \in Fixtures |-> {}] /\ left = [f \in Fixtures |-> {}]
  /\ calls = 0

-----------------------------------------------------------------------------
(* Calls.  A request that is answered with an error before it reaches the  *)
(* runner changes nothing and has no action.                               *)

\* Threads do not differ: the first idle one takes the call.
Begins(t, at, job) ==
  /\ caller[t].at = "idle"
  /\ \A s \in Callers : s < t => caller[s].at # "idle"
  /\ calls < MaxCalls
  /\ calls' = calls + 1
  /\ caller' = [caller EXCEPT ![t] = Task(at, job)]

\* triggerPattern up to its look-up of the universe.
Trigger(t, f, p, stopAfter) ==
  /\ f \in cached
  /\ assigned[f] # None
  /\ Begins(t, "check", [NoJob EXCEPT !.fixture = f, !.pattern = p, !.universe = assigned[f],
                                      !.stopAfter = stopAfter])
  /\ UNCHANGED <<runnerVars, tickVars, stops, lastSeen, lock, configVars, wireVars>>

\* previewPattern: a pattern that is not saved takes the same steps.
Preview(t, f, p, stopAfter) == Trigger(t, f, p, stopAfter)

\* setFixtureLive up to its look-up of the universe.
Live(t, f) ==
  /\ f \in cached
  /\ assigned[f] # None
  /\ Begins(t, "setLive", [NoJob EXCEPT !.fixture = f, !.universe = assigned[f]])
  /\ UNCHANGED <<runnerVars, tickVars, stops, lastSeen, lock, configVars, wireVars>>

\* setActivityState calls its hook: onCreatureActivity.
Report(t, c, activity) ==
  /\ Begins(t, "edge", [NoJob EXCEPT !.creature = c, !.to = activity])
  /\ UNCHANGED <<runnerVars, tickVars, stops, lastSeen, lock, configVars, wireVars>>

\* setFixtureUniverse: the runner is not told.
SetUniverse(f, u) ==
  /\ f \in cached
  /\ calls < MaxCalls
  /\ assigned[f] # u
  /\ calls' = calls + 1
  /\ assigned' = [assigned EXCEPT ![f] = u]
  /\ UNCHANGED <<runnerVars, tickVars, stops, lastSeen, lock, caller, cached, wireVars>>

\* deleteFixture: the cache first, then the map; the runner is not told.
DeleteFixture(f) ==
  /\ f \in cached
  /\ calls < MaxCalls
  /\ calls' = calls + 1
  /\ cached' = cached \ {f}
  /\ UNCHANGED <<runnerVars, tickVars, stops, lastSeen, lock, caller, assigned, wireVars>>

ForgetUniverse(f) ==
  /\ f \notin cached
  /\ assigned[f] # None
  /\ assigned' = [assigned EXCEPT ![f] = None]
  /\ UNCHANGED <<runnerVars, tickVars, stops, lastSeen, lock, caller, cached, wireVars, calls>>

-----------------------------------------------------------------------------
(* FixturePatternRunner::start, stop and setLive.                          *)

\* A thread that has the tick to arm, and then perhaps an auto-stop to schedule.
ToArm(f, stopAfter) ==
  Task("arm", [NoJob EXCEPT !.fixture = IF stopAfter THEN f ELSE None, !.stopAfter = stopAfter])

\* Where a thread goes on after start(): a request that was refused is over,
\* the dispatcher goes on with its scan.
AfterStart(t, started) ==
  LET w == caller[t]
  IN  IF w.job.creature # None
      THEN [w EXCEPT !.at = "scan", !.touched = @ \/ started, !.job.pattern = None, !.job.universe = None]
      ELSE IF started THEN ToArm(w.job.fixture, w.job.stopAfter) ELSE Idle

\* start(), first section: live control wins.
CheckLive(t) ==
  /\ caller[t].at = "check"
  /\ caller' = [caller EXCEPT ![t] = IF live[@.job.fixture] # None
                                     THEN AfterStart(t, FALSE)
                                     ELSE [@ EXCEPT !.at = "install"]]
  /\ UNCHANGED <<runnerVars, tickVars, stops, lastSeen, lock, configVars, wireVars, calls>>

\* The universe that stays lit when a driver is replaced by one on another.
LeftBehind(f, u) ==
  LET old == (IF active[f] = None THEN {} ELSE {active[f].universe})
             \cup (IF live[f] = None THEN {} ELSE {live[f].universe})
  IN  left[f] \cup (old \ {u})

\* start(), second section: install the pattern, whatever ran before.
Install(t) ==
  LET job == caller[t].job
      f == job.fixture
  IN  /\ caller[t].at = "install"
      /\ active' = [active EXCEPT ![f] = [pattern |-> job.pattern, by |-> job.creature,
                                          universe |-> job.universe, phase |-> "fadeIn", due |-> FALSE]]
      /\ left' = [left EXCEPT ![f] = LeftBehind(f, job.universe)]
      /\ caller' = [caller EXCEPT ![t] = AfterStart(t, TRUE)]
      /\ UNCHANGED <<live, tickVars, stops, lastSeen, lock, configVars, lit, calls>>

\* stop(): nothing to do when the fixture has no pattern or fades out already.
Stopped(f) ==
  IF active[f] = None \/ active[f].phase = "fadeOut"
  THEN active
  ELSE [active EXCEPT ![f] = [@ EXCEPT !.phase = "fadeOut", !.due = FALSE]]

\* setLive(): the first call of a session removes the pattern without a fade,
\* the following ones put the deadline off.
SetLive(t) ==
  LET job == caller[t].job
      f == job.fixture
  IN  /\ caller[t].at = "setLive"
      /\ active' = IF live[f] = None THEN [active EXCEPT ![f] = None] ELSE active
      /\ live' = [live EXCEPT ![f] = [universe |-> job.universe, due |-> FALSE]]
      /\ left' = [left EXCEPT ![f] = LeftBehind(f, job.universe)]
      /\ caller' = [caller EXCEPT ![t] = ToArm(f, FALSE)]
      /\ UNCHANGED <<tickVars, stops, lastSeen, lock, configVars, lit, calls>>

-----------------------------------------------------------------------------
(* Arming the tick: tryArm(), then scheduleEvent.                          *)

\* What is left to do once the tick is armed.
AfterArm(w) ==
  IF w.job.stopAfter THEN [w EXCEPT !.at = "autoStop"] ELSE Idle

Unlocked(t) == [c \in Creatures |-> IF lock[c] = t THEN None ELSE lock[c]]

TryArm(t) ==
  /\ caller[t].at = "arm"
  /\ armed' = TRUE
  /\ IF armed
     THEN /\ caller' = [caller EXCEPT ![t] = AfterArm(@)]
          /\ lock' = IF caller[t].job.stopAfter THEN lock ELSE Unlocked(t)
     ELSE caller' = [caller EXCEPT ![t].at = "schedule"] /\ lock' = lock
  /\ UNCHANGED <<runnerVars, ticks, loop, stops, lastSeen, configVars, wireVars, calls>>

ScheduleTick(t) ==
  /\ caller[t].at = "schedule"
  /\ ticks' = ticks + 1
  /\ caller' = [caller EXCEPT ![t] = AfterArm(@)]
  /\ lock' = IF caller[t].job.stopAfter THEN lock ELSE Unlocked(t)
  /\ UNCHANGED <<runnerVars, armed, loop, stops, lastSeen, configVars, wireVars, calls>>

ScheduleAutoStop(t) ==
  /\ caller[t].at = "autoStop"
  /\ stops' = [stops EXCEPT ![caller[t].job.fixture] = @ + 1]
  /\ caller' = [caller EXCEPT ![t] = Idle]
  /\ UNCHANGED <<runnerVars, tickVars, lastSeen, lock, configVars, wireVars, calls>>

-----------------------------------------------------------------------------
(* onCreatureActivity, under the creature's mutex.                         *)

\* An activity that was seen last is no edge.
Edge(t) ==
  LET c == caller[t].job.creature
      to == caller[t].job.to
  IN  /\ caller[t].at = "edge"
      /\ lock[c] = None
      /\ IF lastSeen[c] = to
         THEN caller' = [caller EXCEPT ![t] = Idle] /\ UNCHANGED <<lastSeen, lock>>
         ELSE /\ lastSeen' = [lastSeen EXCEPT ![c] = to]
              /\ lock' = [lock EXCEPT ![c] = t]
              /\ caller' = [caller EXCEPT ![t].at = "scan", ![t].todo = cached,
                                          ![t].job.from = lastSeen[c]]
      /\ UNCHANGED <<runnerVars, tickVars, stops, configVars, wireVars, calls>>

\* The bindings of a fixture that a change of activity switches, by their place.
Switched(f, c, from, to) ==
  {i \in DOMAIN Bindings[f] :
     /\ Bindings[f][i].creature = c
     /\ Matches(Bindings[f][i], from) # Matches(Bindings[f][i], to)}

ScanFixture(t, f) ==
  LET job == caller[t].job
  IN  /\ caller[t].at = "scan" /\ caller[t].work = {} /\ f \in caller[t].todo
      /\ caller' = [caller EXCEPT ![t].todo = @ \ {f}, ![t].job.fixture = f,
                                  ![t].work = IF f \in cached
                                              THEN Switched(f, job.creature, job.from, job.to)
                                              ELSE {}]
      /\ UNCHANGED <<runnerVars, tickVars, stops, lastSeen, lock, configVars, wireVars, calls>>

\* Binding i of the fixture is the next one in order.
IsNext(t, i) ==
  /\ caller[t].at = "scan" /\ i \in caller[t].work
  /\ \A j \in caller[t].work : i <= j

BindingStarts(t, i) ==
  LET w == caller[t]
      b == Bindings[w.job.fixture][i]
      u == assigned[w.job.fixture]
  IN  /\ IsNext(t, i) /\ Matches(b, w.job.to)
      /\ caller' = [caller EXCEPT ![t] = [w EXCEPT !.work = w.work \ {i},
                                                   !.at = IF u = None THEN "scan" ELSE "check",
                                                   !.job.pattern = IF u = None THEN None ELSE b.pattern,
                                                   !.job.universe = u]]
      /\ UNCHANGED <<runnerVars, tickVars, stops, lastSeen, lock, configVars, wireVars, calls>>

\* Mutant: a binding that ends leaves the pattern to its own hold time.
BindingStopsLazily(t, i) ==
  LET job == caller[t].job
  IN  /\ IsNext(t, i) /\ ~Matches(Bindings[job.fixture][i], job.to)
      /\ caller' = [caller EXCEPT ![t].work = @ \ {i}, ![t].touched = TRUE]
      /\ UNCHANGED <<runnerVars, tickVars, stops, lastSeen, lock, configVars, wireVars, calls>>

BindingStops(t, i) ==
  LET job == caller[t].job
  IN  /\ IsNext(t, i) /\ ~Matches(Bindings[job.fixture][i], job.to)
      /\ active' = Stopped(job.fixture)
      /\ caller' = [caller EXCEPT ![t].work = @ \ {i}, ![t].touched = TRUE]
      /\ UNCHANGED <<live, tickVars, stops, lastSeen, lock, configVars, wireVars, calls>>

ScanDone(t) ==
  /\ caller[t].at = "scan" /\ caller[t].work = {} /\ caller[t].todo = {}
  /\ IF caller[t].touched
     THEN caller' = [caller EXCEPT ![t] = ToArm(None, FALSE)] /\ lock' = lock
     ELSE caller' = [caller EXCEPT ![t] = Idle] /\ lock' = Unlocked(t)
  /\ UNCHANGED <<runnerVars, tickVars, stops, lastSeen, configVars, wireVars, calls>>

-----------------------------------------------------------------------------
(* The event loop.                                                         *)

\* FixturePatternTickEvent: disarm() ...
TickBegins ==
  /\ loop = "rest" /\ ticks > 0
  /\ armed' = FALSE
  /\ ticks' = ticks - 1
  /\ loop' = "tick"
  /\ UNCHANGED <<runnerVars, stops, lastSeen, lock, caller, configVars, wireVars, calls>>

\* Mutant: hold_ms is not looked at.
AdvancedHolds(e) ==
  CASE e.phase = "fadeIn" /\ e.due -> [e EXCEPT !.phase = "hold", !.due = FALSE]
    [] e.phase = "fadeOut" /\ e.due -> None
    [] OTHER -> e

\* One frame of a pattern: it moves on when its phase has reached its deadline.
Advanced(e) ==
  CASE e.phase = "fadeIn" /\ e.due -> [e EXCEPT !.phase = "hold", !.due = FALSE]
    [] e.phase = "hold" /\ e.due -> [e EXCEPT !.phase = "fadeOut", !.due = FALSE]
    [] e.phase = "fadeOut" /\ e.due -> None
    [] OTHER -> e

\* Mutant: an override that expires is erased without its final blackout.
SentNoBlackout(f) ==
  LET dark1 == IF active[f] = None THEN {} ELSE {active[f].universe}
      lit1 == IF active[f] = None \/ Advanced(active[f]) = None THEN {} ELSE {active[f].universe}
      lit2 == IF live[f] = None \/ live[f].due THEN {} ELSE {live[f].universe}
  IN  ((lit[f] \ dark1) \cup lit1) \cup lit2

\* ... tick(): patterns are sent first, live values after them; what has ended
\* sends zeros once and is erased ...
Sent(f) ==
  LET dark1 == IF active[f] = None THEN {} ELSE {active[f].universe}
      lit1 == IF active[f] = None \/ Advanced(active[f]) = None THEN {} ELSE {active[f].universe}
      dark2 == IF live[f] = None THEN {} ELSE {live[f].universe}
      lit2 == IF live[f] = None \/ live[f].due THEN {} ELSE {live[f].universe}
  IN  (((lit[f] \ dark1) \cup lit1) \ dark2) \cup lit2

Rendered(f) == IF active[f] = None THEN None ELSE Advanced(active[f])

\* Mutant: only the patterns keep the tick going.
TickForgetsLive ==
  /\ loop = "tick"
  /\ active' = [f \in Fixtures |-> Rendered(f)]
  /\ live' = [f \in Fixtures |-> IF live[f] # None /\ live[f].due THEN None ELSE live[f]]
  /\ lit' = [f \in Fixtures |-> Sent(f)]
  /\ loop' = IF \E f \in Fixtures : active'[f] # None THEN "again" ELSE "rest"
  /\ UNCHANGED <<armed, ticks, stops, lastSeen, lock, caller, configVars, left, calls>>

Tick ==
  /\ loop = "tick"
  /\ active' = [f \in Fixtures |-> Rendered(f)]
  /\ live' = [f \in Fixtures |-> IF live[f] # None /\ live[f].due THEN None ELSE live[f]]
  /\ lit' = [f \in Fixtures |-> Sent(f)]
  /\ loop' = IF \E f \in Fixtures : active'[f] # None \/ live'[f] # None THEN "again" ELSE "rest"
  /\ UNCHANGED <<armed, ticks, stops, lastSeen, lock, caller, configVars, left, calls>>

\* ... and tryArm() and a new event while something is left.
TickRearms ==
  /\ loop = "again"
  /\ armed' = TRUE
  /\ loop' = IF armed THEN "rest" ELSE "reschedule"
  /\ UNCHANGED <<runnerVars, ticks, stops, lastSeen, lock, caller, configVars, wireVars, calls>>

TickReschedules ==
  /\ loop = "reschedule"
  /\ ticks' = ticks + 1
  /\ loop' = "rest"
  /\ UNCHANGED <<runnerVars, armed, stops, lastSeen, lock, caller, configVars, wireVars, calls>>

\* AutoStopEvent stops whatever the fixture shows by then.
AutoStop(f) ==
  /\ loop = "rest" /\ stops[f] > 0
  /\ stops' = [stops EXCEPT ![f] = @ - 1]
  /\ active' = Stopped(f)
  /\ UNCHANGED <<live, tickVars, lastSeen, lock, caller, configVars, wireVars, calls>>

-----------------------------------------------------------------------------
(* Time: the frame counter reaches a deadline.                             *)

Ends(e) == e.phase # "hold" \/ e.pattern \in Timed

PhaseDue(f) ==
  /\ active[f] # None /\ ~active[f].due /\ Ends(active[f])
  /\ active' = [active EXCEPT ![f] = [@ EXCEPT !.due = TRUE]]
  /\ UNCHANGED <<live, tickVars, stops, lastSeen, lock, caller, configVars, wireVars, calls>>

LiveDue(f) ==
  /\ live[f] # None /\ ~live[f].due
  /\ live' = [live EXCEPT ![f] = [@ EXCEPT !.due = TRUE]]
  /\ UNCHANGED <<active, tickVars, stops, lastSeen, lock, caller, configVars, wireVars, calls>>

-----------------------------------------------------------------------------
Calls(t) ==
  \/ \E f \in Fixtures, p \in Patterns, s \in BOOLEAN : Trigger(t, f, p, s) \/ Preview(t, f, p, s)
  \/ \E f \in Fixtures : Live(t, f)
  \/ \E c \in Creatures, a \in Activities : Report(t, c, a)

CallerNext(t) ==
  \/ CheckLive(t) \/ Install(t) \/ SetLive(t)
  \/ TryArm(t) \/ ScheduleTick(t) \/ ScheduleAutoStop(t)
  \/ Edge(t) \/ ScanDone(t)
  \/ \E f \in Fixtures : ScanFixture(t, f)
  \/ \E i \in caller[t].work : BindingStarts(t, i) \/ BindingStops(t, i)

LoopNext == TickBegins \/ Tick \/ TickRearms \/ TickReschedules

Time(f) == PhaseDue(f) \/ LiveDue(f)

Configure(f) == (\E u \in Universes \cup {None} : SetUniverse(f, u)) \/ DeleteFixture(f) \/ ForgetUniverse(f)

Next ==
  \/ \E t \in Callers : Calls(t) \/ CallerNext(t)
  \/ \E f \in Fixtures : Configure(f) \/ AutoStop(f) \/ Time(f)
  \/ LoopNext

Spec == Init /\ [][Next]_vars

\* The threads and the event loop run, and frames go by.
FairSpec ==
  /\ Spec
  /\ \A t \in Callers : WF_vars(CallerNext(t))
  /\ WF_vars(LoopNext)
  /\ \A f \in Fixtures : WF_vars(PhaseDue(f)) /\ WF_vars(LiveDue(f))

-----------------------------------------------------------------------------
TypeOK ==
  /\ active \in [Fixtures -> ActivePattern \cup {None}]
  /\ live \in [Fixtures -> ActiveLive \cup {None}]
  /\ armed \in BOOLEAN /\ ticks \in Nat
  /\ loop \in {"rest", "tick", "again", "reschedule"}
  /\ stops \in [Fixtures -> Nat]
  /\ lastSeen \in [Creatures -> Activities \cup {None}]
  /\ lock \in [Creatures -> Callers \cup {None}]
  /\ caller \in [Callers -> Caller]
  /\ cached \subseteq Fixtures /\ assigned \in [Fixtures -> Universes \cup {None}]
  /\ lit \in [Fixtures -> SUBSET Universes] /\ left \in [Fixtures -> SUBSET Universes]
  /\ calls \in 0 .. MaxCalls

\* A thread that has changed the runner and has still to arm the tick.
WillArm(t) == caller[t].at = "arm" \/ caller[t].touched

(* While a fixture has a pattern or an override, its next frame is coming: *)
(* a tick event is pending, one is being executed, or a thread is about to *)
(* arm one.  A tick that decides to stop while a caller finds the flag     *)
(* still armed would leave the light frozen with nobody to render it.      *)
DrivenIsTicked ==
  (\E f \in Fixtures : Driven(f)) =>
     armed \/ loop \in {"tick", "again"} \/ \E t \in Callers : WillArm(t)

\* The threads that have armed the tick and have still to schedule it.
Scheduling == {t \in Callers : caller[t].at = "schedule"}

(* The flag means exactly one tick on its way: no tick is scheduled twice, *)
(* and the flag never stays set with no tick to clear it.                  *)
OneTick ==
  /\ armed <=> ticks = 1 \/ loop = "reschedule" \/ Scheduling # {}
  /\ ticks \in {0, 1}
  /\ ~(ticks = 1 /\ loop = "reschedule")
  /\ ticks = 1 \/ loop = "reschedule" => Scheduling = {}
  /\ \A s, t \in Scheduling : s = t

(* A pattern that a creature's activity switched on and that has not begun *)
(* to fade is still called for by the last activity reported, once the     *)
(* report has been dealt with.                                             *)
BoundPatternIsWanted ==
  \A f \in cached :
    active[f] # None /\ active[f].by # None /\ active[f].phase # "fadeOut" =>
      \/ lock[active[f].by] # None
      \/ \E i \in DOMAIN Bindings[f] :
           LET b == Bindings[f][i]
           IN  /\ b.creature = active[f].by /\ b.pattern = active[f].pattern
               /\ Matches(b, lastSeen[active[f].by])

(* A fixture that nothing drives any more is dark, on every universe from  *)
(* which it was not moved away while lit.                                  *)
ReleasedIsDark ==
  \A f \in Fixtures : ~Driven(f) => lit[f] \subseteq left[f]

(* Safety: a light is rendered while it is driven and dark when it is not. *)
LightsAreDriven == DrivenIsTicked /\ ReleasedIsDark

\* What must end by itself: an override, a pattern that fades or is timed.
Ending(f) ==
  \/ live[f] # None
  \/ active[f] # None /\ (active[f].phase = "fadeOut" \/ active[f].pattern \in Timed)

(* Liveness: an override expires, a pattern that fades ends, and so does   *)
(* one with a hold time: a light the code promises to switch off goes off. *)
LightsEnd == \A f \in Fixtures : Ending(f) ~> ~Ending(f)

(* "Mutually exclusive with patterns per fixture."                         *)
LiveExcludesPatterns == \A f \in Fixtures : ~(active[f] # None /\ live[f] # None)
=============================================================================
