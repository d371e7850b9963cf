----------------------------- MODULE Performance -----------------------------
(***************************************************************************)
(* What one creature does during a scene whose mouths are known: its body  *)
(* cycles a loop for speaking and another for silence, its beak follows    *)
(* its own voice, and its head looks at whoever has the floor.  The layers *)
(* meet in the same frames: the head overwrites the body's pan and         *)
(* elevation, and its cock only while the creature listens.                *)
(*                                                                         *)
(* Time is counted in frames and angles in the bytes of their axis; sines  *)
(* and hyperbolic tangents are not modelled, so an aim is a place on the   *)
(* axis, and the slow drift of a held head is left out.                    *)
(***************************************************************************)
EXTENDS Integers, FiniteSets, SequencesExt

CONSTANTS
  Self, Peers,      \* the creature and the others
  Aims,             \* of a creature on the stage, and of Audience: where Self looks
  Audience,
  Centre,           \* of every axis
  Leans,            \* places of a cocked head
  Speeches,         \* what may be voiced: of a creature, the mouth of each frame, 0 is shut
  SpeechLoop,       \* frames of the body, as bytes of the slots
  IdleLoops,        \* sequences of frames; the empty one if there is none to use
  Tolerance,        \* longest pause within a turn
  BodyTail,         \* kBodyTailFrames
  Crossfade,        \* crossfadeFrames
  Hold,             \* frames of silence before heads turn home
  MinReaction, MaxReaction, MinTravel, MaxTravel, SettleTime,
  Overshoots,
  MaxByte,
  MaxStep           \* a servo's largest step in the loops and moves at hand

Axis == {"pan", "elevation", "cock"}

Slot == Axis \cup {"beak", "wing"}

Performer == Peers \cup {Self}

ASSUME PerformanceAssumption ==
  /\ Self \notin Peers /\ Audience \in DOMAIN Aims /\ Self \notin DOMAIN Aims
  /\ \A who \in DOMAIN Aims : Aims[who] \in [{"pan", "elevation"} -> 0 .. MaxByte]
  /\ \A s \in Speeches : \A c \in Performer : DOMAIN s[c] = DOMAIN s[Self]
  /\ SpeechLoop # <<>>
  /\ \A loop \in IdleLoops \cup {SpeechLoop} : \A i \in DOMAIN loop : loop[i] \in [Slot -> 0 .. MaxByte]
  /\ {Tolerance, BodyTail, Crossfade, Hold, SettleTime} \subseteq Nat
  /\ MinReaction <= MaxReaction /\ 0 < MinTravel /\ MinTravel <= MaxTravel

VARIABLES
  filming,   \* how far the track is: "start", "floor", "watch", "plan", "film", "done" or "failed"
  mouths,    \* what is voiced
  idleLoop,  \* frames for silence, from the drawn phase on
  timeline,  \* who holds the floor: spans in the order they begin
  watched,   \* spans that the head has considered
  cues,      \* where the head is to look, and from when
  moves,     \* how it gets there
  film       \* the frames

performanceVars == <<filming, mouths, idleLoop, timeline, watched, cues, moves, film>>

PerformanceInit ==
  /\ filming = "start" /\ mouths = [c \in Performer |-> <<>>] /\ idleLoop = <<>>
  /\ timeline = <<>> /\ watched = 0 /\ cues = <<>> /\ moves = <<>> /\ film = <<>>

TotalFrames == Len(mouths[Self])

Larger(x, y) == IF x > y THEN x ELSE y

Smaller(x, y) == IF x < y THEN x ELSE y

-----------------------------------------------------------------------------
(* Loops and floor.                                                        *)

FilmingFails ==
  /\ filming' = "failed"
  /\ UNCHANGED <<mouths, idleLoop, timeline, watched, cues, moves, film>>

\* Whatever is wrong with an idle loop only leaves the creature without one.
ChooseLoops(speech, loop, phase) ==
  /\ filming = "start"
  /\ mouths' = speech
  /\ idleLoop' = SubSeq(loop, phase, Len(loop)) \o SubSeq(loop, 1, phase - 1)
  /\ filming' = "floor"
  /\ UNCHANGED <<timeline, watched, cues, moves, film>>

\* No voice, no loop for speaking, an unreadable or an uneven one, one at
\* another rate; and later, too many frames or too large a document.
ChooseFails == filming \in {"floor", "film"} /\ FilmingFails

\* Runs of voiced frames, which pauses up to the tolerance do not end.
Turns(c) ==
  LET look(run, f) ==
        IF f <= TotalFrames /\ mouths[c][f] # 0
        THEN [run EXCEPT !.from = IF @ = 0 THEN f ELSE @, !.last = f]
        ELSE IF run.from # 0 /\ (f - run.last > Tolerance \/ f = TotalFrames + 1)
        THEN [run EXCEPT !.from = 0, !.done = @ \cup {[who |-> c, from |-> run.from, to |-> run.last + 1]}]
        ELSE run
  IN  FoldLeft(look, [from |-> 0, last |-> 0, done |-> {}], [f \in 1 .. TotalFrames + 1 |-> f]).done

FindFloor ==
  /\ filming = "floor"
  /\ timeline' = SetToSortSeq(UNION {Turns(c) : c \in Performer}, LAMBDA x, y : x.from < y.from)
  /\ cues' = <<[at |-> 1, home |-> FALSE,
                aim |-> [a \in Axis |-> IF a = "cock" THEN Centre ELSE Aims[Audience][a]]]>>
  /\ filming' = "watch"
  /\ UNCHANGED <<mouths, idleLoop, watched, moves, film>>

\* The creature is not on a stage, or has no head to turn.
NoStage ==
  /\ filming = "floor" /\ filming' = "film"
  /\ UNCHANGED <<mouths, idleLoop, timeline, watched, cues, moves, film>>

-----------------------------------------------------------------------------
(* Where to look.                                                          *)

Home == [a \in Axis |-> Centre]

\* Turning home is slower.
Relaxed(travel) == (7 * travel + 2) \div 5

HomeTravel == Relaxed(MaxTravel) + MinReaction + SettleTime

LatestStart == IF TotalFrames > HomeTravel THEN TotalFrames - HomeTravel + 1 ELSE 1

\* Not if it is home, or would be before the move under way.
GoHome(planned, at) ==
  IF Last(planned).aim = Home \/ at <= Last(planned).at THEN planned
  ELSE Append(planned, [at |-> at, home |-> TRUE, aim |-> Home])

QuietSince(n) == IF n = 0 THEN 0 ELSE CHOOSE q \in {timeline[i].to : i \in 1 .. n} :
                                        \A i \in 1 .. n : timeline[i].to <= q

\* A silence that is long enough to turn home and arrive.
RestBefore(planned, n) ==
  LET at == QuietSince(n - 1) + Hold
  IN  IF n = 1 \/ at + HomeTravel >= timeline[n].from \/ at > TotalFrames THEN planned
      ELSE GoHome(planned, at)

\* The next span: a speaker plays to the audience with a level head, a
\* listener looks at who speaks, cocking its head, keeping it cocked, or not.
Watch(lean, ignores) ==
  LET n == watched + 1
      span == timeline[n]
      planned == RestBefore(cues, n)
      who == IF span.who = Self THEN Audience ELSE span.who
      aim == [a \in Axis |-> IF a = "cock" THEN lean ELSE Aims[who][a]]
  IN  /\ filming = "watch" /\ watched < Len(timeline)
      /\ lean \in (IF span.who = Self THEN {Centre} ELSE Leans \cup {Centre, Last(planned).aim["cock"]})
      /\ watched' = n
      /\ cues' = IF who \notin DOMAIN Aims THEN planned
                 ELSE IF aim = Last(planned).aim \/ ignores \/ span.from >= LatestStart THEN planned
                 ELSE Append(planned, [at |-> span.from, home |-> FALSE, aim |-> aim])
      /\ UNCHANGED <<filming, mouths, idleLoop, timeline, moves, film>>

\* Mutant of Settle: heads only turn home after a long silence.
SettleAfterSilence ==
  /\ filming = "watch" /\ watched = Len(timeline)
  /\ cues' = IF timeline = <<>> THEN cues ELSE GoHome(cues, QuietSince(watched) + Hold)
  /\ filming' = "plan"
  /\ UNCHANGED <<mouths, idleLoop, timeline, watched, moves, film>>

\* Whatever is said last, the scene ends with the head turned home.
Settle ==
  /\ filming = "watch" /\ watched = Len(timeline)
  /\ cues' = IF timeline = <<>> THEN cues
             ELSE GoHome(cues, Smaller(QuietSince(watched) + Hold, LatestStart))
  /\ filming' = "plan"
  /\ UNCHANGED <<mouths, idleLoop, timeline, watched, moves, film>>

\* One reaction for all axes, and a way of its own for each.
PlanMove(reaction, travel, over) ==
  LET cue == cues[Len(moves) + 2]
      pan == IF cue.home THEN Relaxed(travel) ELSE travel
      way == [a \in Axis |-> IF a = "pan" THEN pan ELSE IF a = "cock" THEN 2 * pan ELSE Larger(1, pan - 1)]
      start == cue.at + (IF cue.home THEN MinReaction ELSE reaction)
  IN  /\ filming = "plan" /\ Len(moves) + 1 < Len(cues)
      /\ moves' = Append(moves,
           [start |-> start,
            travel |-> way,
            settle |-> [a \in Axis |-> IF a = "cock" THEN 0 ELSE SettleTime],
            over |-> [a \in Axis |-> IF a = "cock" \/ cue.home THEN 0
                                     ELSE IF a = "pan" THEN over ELSE over \div 2]])
      /\ UNCHANGED <<filming, mouths, idleLoop, timeline, watched, cues, film>>

Planned ==
  /\ filming = "plan" /\ Len(moves) + 1 = Len(cues) /\ filming' = "film"
  /\ UNCHANGED <<mouths, idleLoop, timeline, watched, cues, moves, film>>

-----------------------------------------------------------------------------
(* The head.                                                               *)

\* A share n/d of the way from x to y, slow at both ends.
Ease(x, y, n, d) == x + ((y - x) * n * n * (3 * d - 2 * n)) \div (d * d * d)

\* An axis that moves from where it was at "start", past its target by
\* "arrive", and back by "settled".
AxisAt(m, f) ==
  IF f < m.start THEN m.from
  ELSE IF f < m.arrive THEN Ease(m.from, m.peak, f - m.start, m.arrive - m.start)
  ELSE IF f < m.settled THEN Ease(m.peak, m.target, f - m.arrive, m.settled - m.arrive)
  ELSE m.target

\* A move that comes before the last has ended goes on from where the head is.
Arm(m, i, a, f) ==
  LET now == AxisAt(m, f)
      move == moves[i]
      target == cues[i + 1].aim[a]
      start == Larger(move.start, f)
      arrive == start + move.travel[a]
  IN  [start |-> start, arrive |-> arrive, settled |-> arrive + move.settle[a], from |-> now, target |-> target,
       peak |-> IF target < now THEN target - move.over[a] ELSE target + move.over[a]]

\* Where an axis is in every frame.
HeadAxis(a) ==
  LET still(angle) == [start |-> 0, arrive |-> 0, settled |-> 0, from |-> angle, peak |-> angle, target |-> angle]
      at[f \in 0 .. TotalFrames] ==
        IF f = 0 THEN still(cues[1].aim[a])
        ELSE FoldLeft(LAMBDA m, i : IF cues[i + 1].at = f THEN Arm(m, i, a, f) ELSE m,
                      at[f - 1], [i \in DOMAIN moves |-> i])
  IN  [f \in 1 .. TotalFrames |-> Larger(0, Smaller(MaxByte, AxisAt(at[f], f)))]

-----------------------------------------------------------------------------
(* The track.                                                              *)

Voiced(f) == mouths[Self][f] # 0

\* The body keeps speaking for a while.
Speaking(f) == \E g \in Larger(1, f - BodyTail) .. f : Voiced(g)

\* A share n/d of the way from x to y, rounded.
Blend(x, y, n, d) == (2 * (x * (d - n) + y * n) + d) \div (2 * d)

\* The frame of the body's loops, each of which goes on where it stopped.
LoopFrame(f) ==
  LET before(on) == Cardinality({g \in 1 .. f - 1 : Speaking(g) = on})
  IN  IF Speaking(f) THEN SpeechLoop[(before(TRUE) % Len(SpeechLoop)) + 1]
      ELSE IF idleLoop # <<>> THEN idleLoop[(before(FALSE) % Len(idleLoop)) + 1]
      ELSE SpeechLoop[1]

Faded(x, y, left) == IF left = 0 THEN y ELSE Blend(x, y, Crossfade - left + 1, Crossfade + 1)

\* The frames, one after the other: "body" is the last one's before the beak
\* and the head, the fades are from "source" and from "cock".
Track ==
  LET turned == cues # <<>>
      head == [a \in Axis |-> IF turned THEN HeadAxis(a) ELSE <<>>]
      add(done, f) ==
        LET changes == f > 1 /\ Speaking(f) # Speaking(f - 1)
            fades == changes /\ idleLoop # <<>> /\ Crossfade > 0
            source == IF fades THEN done.body ELSE done.source
            left == IF fades THEN Crossfade ELSE done.left
            body == [s \in Slot |-> Faded(source[s], LoopFrame(f)[s], left)]
            cock == IF changes THEN done.frames[f - 1]["cock"] ELSE done.cock
            cockLeft == IF changes THEN Crossfade ELSE done.cockLeft
            owner == IF Speaking(f) THEN body["cock"] ELSE head["cock"][f]
            frame == [s \in Slot |->
                        IF s = "beak" THEN (IF Speaking(f) THEN mouths[Self][f]
                                            ELSE IF idleLoop # <<>> THEN 0 ELSE body[s])
                        ELSE IF ~turned \/ s = "wing" THEN body[s]
                        ELSE IF s = "cock" THEN Faded(cock, owner, cockLeft)
                        ELSE head[s][f]]
        IN  [body |-> body, source |-> source, left |-> Larger(0, left - 1),
             cock |-> cock, cockLeft |-> Larger(0, cockLeft - 1),
             frames |-> Append(done.frames, frame)]
  IN  FoldLeft(add, [body |-> SpeechLoop[1], source |-> SpeechLoop[1], left |-> 0, cock |-> 0, cockLeft |-> 0,
                     frames |-> <<>>],
               [f \in 1 .. TotalFrames |-> f]).frames

Film ==
  /\ filming = "film" /\ film' = Track /\ filming' = "done"
  /\ UNCHANGED <<mouths, idleLoop, timeline, watched, cues, moves>>

-----------------------------------------------------------------------------

PerformanceNext ==
  \/ \E s \in Speeches, loop \in IdleLoops : \E phase \in 1 .. Larger(1, Len(loop)) : ChooseLoops(s, loop, phase)
  \/ ChooseFails \/ FindFloor \/ NoStage
  \/ \E lean \in 0 .. MaxByte, ignores \in BOOLEAN : Watch(lean, ignores)
  \/ Settle
  \/ \E reaction \in {MinReaction, MaxReaction}, travel \in {MinTravel, MaxTravel}, over \in Overshoots :
       PlanMove(reaction, travel, over)
  \/ Planned \/ Film

-----------------------------------------------------------------------------
(* Properties.                                                             *)

\* The turns of a creature, by what they are: they begin and end voiced, no
\* voice is outside of them, none pauses long, and they are that far apart.
IsFloor(spans, c) ==
  LET mine == {i \in DOMAIN spans : spans[i].who = c}
      within(i) == spans[i].from .. spans[i].to - 1
      voiced == {f \in 1 .. TotalFrames : mouths[c][f] # 0}
  IN  /\ voiced \subseteq UNION {within(i) : i \in mine}
      /\ \A i \in mine :
           /\ {spans[i].from, spans[i].to - 1} \subseteq voiced
           /\ \A f \in within(i) : (f .. f + Tolerance) \cap voiced # {}
           /\ \A f \in voiced \ within(i) : f + 1 < spans[i].from - Tolerance \/ f > spans[i].to + Tolerance

(* Safety (GazeTrack.cpp: the tail settle is unconditional, and it starts  *)
(* early enough to actually arrive; SpeechTrackBuilder.cpp: the body eases *)
(* between the two loops instead of snapping, an idle animation's beak is  *)
(* pinned shut): the floor is what was voiced; whoever spoke and whatever  *)
(* moves were interrupted, no servo but the beak's makes a larger step     *)
(* than its loops and moves have, unless there is no idle loop to ease to; *)
(* the beak says what is voiced and nothing else; and a scene that is long *)
(* enough, and not silent, ends with the head turned home.                 *)
PerformanceFlows ==
  /\ filming \in {"watch", "plan"} =>
       /\ \A c \in Performer : IsFloor(timeline, c)
       /\ \A i \in 1 .. Len(timeline) - 1 : timeline[i].from < timeline[i + 1].from
  /\ filming = "done" =>
       /\ Len(film) = TotalFrames
       /\ \A f \in 1 .. TotalFrames :
            /\ \A s \in Slot \ {"beak"} :
                 (f > 1 /\ (idleLoop # <<>> \/ (cues # <<>> /\ s \in {"pan", "elevation"}))) =>
                   film[f][s] - film[f - 1][s] \in -MaxStep .. MaxStep
            /\ (Voiced(f) \/ Speaking(f) \/ idleLoop # <<>>) => film[f]["beak"] = mouths[Self][f]
       /\ (timeline # <<>> /\ TotalFrames > HomeTravel) =>
            film[TotalFrames]["pan"] = Centre /\ film[TotalFrames]["elevation"] = Centre

=============================================================================
