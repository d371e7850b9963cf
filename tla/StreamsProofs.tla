--------------------------- MODULE StreamsProofs ---------------------------
(***************************************************************************)
(* Proofs about what reaches the server piece by piece: the end of a       *)
(* stream of frames, for any creatures, threads, timeout and number of     *)
(* frames, and streamed speech, for any sessions and sentences.            *)
(***************************************************************************)
EXTENDS StreamTimeout, Speech, SequenceTheorems, FiniteSetTheorems, TLAPS

-----------------------------------------------------------------------------
(* How a stream ends: StreamTimeout.                                       *)

\* Who is at work, works on a creature.
ThreadsBusy == \A t \in Threads : thread[t].at # "idle" => thread[t].creature \in Creatures
LoopBusy == loop.at # "rest" => loop.creature \in Creatures

Typed == TypeOK /\ ThreadsBusy /\ LoopBusy

IInv == Typed /\ GateIsOneEvent /\ StreamIsWatched

LEMMA RestTyped ==
  /\ Idle \in Thread /\ Idle.at = "idle"
  /\ Rest \in Loop /\ Rest.at = "rest"
BY DEF Idle, Rest, Thread, Loop

-----------------------------------------------------------------------------
(* A step of one thread.                                                   *)

\* Thread t goes from one place to another; it keeps its creature unless it
\* starts or ends.
Steps(t, from, to) ==
  /\ thread' \in [Threads -> Thread] /\ ThreadsBusy'
  /\ thread[t].at = from /\ thread'[t].at = to
  /\ from # "idle" /\ to # "idle" => thread'[t].creature = thread[t].creature
  /\ \A s \in Threads \ {t} : thread'[s] = thread[s]

LEMMA GotoSteps ==
  ASSUME Typed, NEW t \in Threads, NEW from, NEW to \in {"announce", "read", "gate", "schedule"},
         At(t, from), from # "idle", thread' = [thread EXCEPT ![t].at = to]
  PROVE  Steps(t, from, to)
<1>. DEFINE w == thread[t]
            new == [w EXCEPT !.at = to]
<1>1. w \in Thread /\ w.creature \in Creatures
  BY DEF Typed, TypeOK, ThreadsBusy, At
<1>2. new \in Thread /\ new.at = to /\ new.creature = w.creature
  BY <1>1 DEF Thread
<1>3. thread' = [thread EXCEPT ![t] = new]
  OBVIOUS
<1>. HIDE DEF new
<1>. QED BY <1>1, <1>2, <1>3 DEF Typed, TypeOK, ThreadsBusy, Steps, At

LEMMA EndSteps ==
  ASSUME Typed, NEW t \in Threads, NEW from, At(t, from), thread' = [thread EXCEPT ![t] = Idle]
  PROVE  Steps(t, from, "idle")
BY RestTyped DEF Typed, TypeOK, ThreadsBusy, Steps, At

LEMMA ArriveSteps ==
  ASSUME Typed, NEW t \in Threads, NEW c \in Creatures, FrameArrives(t, c)
  PROVE  Steps(t, "idle", "mark")
<1>. DEFINE new == [Idle EXCEPT !.at = "mark", !.creature = c]
<1>1. new \in Thread /\ new.at = "mark" /\ new.creature = c
  BY DEF Idle, Thread
<1>2. thread' = [thread EXCEPT ![t] = new] /\ At(t, "idle")
  BY DEF FrameArrives
<1>. HIDE DEF new
<1>. QED BY <1>1, <1>2 DEF Typed, TypeOK, ThreadsBusy, Steps, At

LEMMA ReadSteps ==
  ASSUME Typed, NEW t \in Threads, ReadFrameNumber(t)
  PROVE  Steps(t, "read", "extend")
<1>. DEFINE w == thread[t]
            new == [w EXCEPT !.at = "extend", !.until = now + 1 + Timeout]
<1>1. w \in Thread /\ w.creature \in Creatures /\ w.at = "read" /\ now + 1 + Timeout \in Nat
  BY StreamAssumption DEF Typed, TypeOK, ThreadsBusy, ReadFrameNumber, At, StreamAssumption
<1>2. new \in Thread /\ new.at = "extend" /\ new.creature = w.creature
  BY <1>1 DEF Thread
<1>3. /\ thread' \in [Threads -> Thread] /\ thread'[t] = new
      /\ \A s \in Threads \ {t} : thread'[s] = thread[s]
  BY <1>1 DEF Typed, TypeOK, ReadFrameNumber, Thread
<1>. HIDE DEF new
<1>. QED BY <1>1, <1>2, <1>3 DEF Typed, TypeOK, ThreadsBusy, Steps

\* What a step means to those who ask where the threads are.
LEMMA PlacesKept ==
  ASSUME NEW t \in Threads, NEW from, NEW to, Steps(t, from, to), NEW c,
         NEW places, (from \in places => from # "idle" /\ to \in places /\ to # "idle"),
         (to \in places => from \in places)
  PROVE  \A s \in Threads : On(s, c, places)' <=> On(s, c, places)
BY DEF Steps, On

LEMMA PlacesEntered ==
  ASSUME NEW t \in Threads, NEW from, NEW to, Steps(t, from, to), NEW c,
         NEW places, from \in places => from # "idle" /\ to \in places /\ to # "idle"
  PROVE  \A s \in Threads : On(s, c, places) => On(s, c, places)'
BY DEF Steps, On

LEMMA ThreadKeepsGate ==
  ASSUME IInv, NEW t \in Threads, NEW from, NEW to, Steps(t, from, to),
         from # "schedule", to # "schedule", UNCHANGED <<pending, events, loop>>
  PROVE  GateIsOneEvent'
<1>1. \A c \in Creatures : Scheduling(c)' = Scheduling(c)
  BY PlacesKept DEF Scheduling
<1>2. \A c \in Creatures : Flying(c)' = Flying(c)
  BY DEF Flying
<1>. QED BY <1>1, <1>2 DEF IInv, GateIsOneEvent, OneEvent, LoopOn

LEMMA ThreadStep ==
  ASSUME IInv, NEW t \in Threads, ThreadNext(t) \/ \E c \in Creatures : FrameArrives(t, c)
  PROVE  IInv'
<1>. PICK x : x = thread[t].creature
  OBVIOUS
<1>1. ASSUME NEW c \in Creatures, FrameArrives(t, c) PROVE IInv'
  <2>1. Steps(t, "idle", "mark") /\ UNCHANGED <<pending, events, loop, deadline, registry, running>>
    BY <1>1, ArriveSteps DEF IInv, FrameArrives, streamVars, timeoutVars
  <2>2. Typed'
    <3>1. frames' \in Nat /\ now' = now
      <4>1. frames' = frames + 1 /\ now' = now
        BY <1>1 DEF FrameArrives
      <4>2. frames \in Nat
        BY DEF IInv, Typed, TypeOK
      <4>. QED BY <4>1, <4>2
    <3>. QED BY <2>1, <3>1 DEF IInv, Typed, TypeOK, LoopBusy, Steps
  <2>3. GateIsOneEvent'
    BY <2>1, ThreadKeepsGate
  <2>4. StreamIsWatched'
    <3>1. \A d : \A s \in Threads : On(s, d, {"gate"}) => On(s, d, {"gate"})'
      BY <2>1, PlacesEntered
    <3>2. \A d : \A s \in Threads : On(s, d, {"announce", "read", "extend"}) => On(s, d, {"announce", "read", "extend"})'
      BY <2>1, PlacesEntered
    <3>. QED BY <2>1, <3>1, <3>2 DEF IInv, StreamIsWatched, Watched, AtGate, Extending, LoopOn
  <2>. QED BY <2>2, <2>3, <2>4 DEF IInv
<1>2. ASSUME MarkStreaming(t) PROVE IInv'
  <2>1. x \in Creatures /\ At(t, "mark")
    BY <1>2 DEF IInv, Typed, ThreadsBusy, MarkStreaming, At
  <2>2. PICK to \in {"read", "announce"} : Steps(t, "mark", to)
    BY <1>2, <2>1, GotoSteps DEF MarkStreaming, Goto, IInv
  <2>3. UNCHANGED <<pending, events, loop, deadline, running>> /\ registry' = registry \cup {x}
    BY <1>2 DEF MarkStreaming, timeoutVars
  <2>4. Typed'
    BY <1>2, <2>1, <2>2, <2>3 DEF IInv, Typed, TypeOK, LoopBusy, Steps, MarkStreaming
  <2>5. GateIsOneEvent'
    BY <2>2, <2>3, ThreadKeepsGate
  <2>6. StreamIsWatched'
    <3>1. \A d : \A s \in Threads : On(s, d, {"gate"}) => On(s, d, {"gate"})'
      BY <2>2, PlacesEntered
    <3>2. \A d : \A s \in Threads : On(s, d, {"announce", "read", "extend"}) => On(s, d, {"announce", "read", "extend"})'
      BY <2>2, PlacesEntered
    <3>3. On(t, x, {"announce", "read", "extend"})'
      BY <2>2 DEF On, Steps
    <3>4. ASSUME NEW c \in Creatures, c # x PROVE Watched(c)'
      BY <2>1, <2>3, <3>1, <3>2, <3>4 DEF IInv, StreamIsWatched, Watched, AtGate, Extending, LoopOn
    <3>5. Watched(x)'
      BY <2>1, <2>3, <3>1, <3>2, <3>3 DEF IInv, StreamIsWatched, Watched, AtGate, Extending, LoopOn
    <3>. QED BY <3>4, <3>5 DEF StreamIsWatched
  <2>. QED BY <2>4, <2>5, <2>6 DEF IInv
<1>3. ASSUME Announce(t) PROVE IInv'
  <2>1. x \in Creatures /\ At(t, "announce")
    BY <1>3 DEF IInv, Typed, ThreadsBusy, Announce, At
  <2>2. Steps(t, "announce", "read")
    BY <1>3, <2>1, GotoSteps DEF Announce, Goto, IInv
  <2>3. UNCHANGED <<pending, events, loop, deadline, registry>> /\ running' = running \cup {x}
    BY <1>3 DEF Announce, timeoutVars
  <2>4. Typed'
    BY <1>3, <2>1, <2>2, <2>3 DEF IInv, Typed, TypeOK, LoopBusy, Steps, Announce
  <2>5. GateIsOneEvent'
    BY <2>2, <2>3, ThreadKeepsGate
  <2>6. StreamIsWatched'
    <3>1. \A d : \A s \in Threads : On(s, d, {"gate"}) => On(s, d, {"gate"})'
      BY <2>2, PlacesEntered
    <3>2. \A d : \A s \in Threads : On(s, d, {"announce", "read", "extend"}) => On(s, d, {"announce", "read", "extend"})'
      BY <2>2, PlacesEntered
    <3>3. On(t, x, {"announce", "read", "extend"})'
      BY <2>2 DEF On, Steps
    <3>4. ASSUME NEW c \in Creatures, c # x PROVE Watched(c)'
      BY <2>1, <2>3, <3>1, <3>2, <3>4 DEF IInv, StreamIsWatched, Watched, AtGate, Extending, LoopOn
    <3>5. Watched(x)'
      BY <2>1, <2>3, <3>1, <3>2, <3>3 DEF IInv, StreamIsWatched, Watched, AtGate, Extending, LoopOn
    <3>. QED BY <3>4, <3>5 DEF StreamIsWatched
  <2>. QED BY <2>4, <2>5, <2>6 DEF IInv
<1>4. ASSUME ReadFrameNumber(t) PROVE IInv'
  <2>1. Steps(t, "read", "extend") /\ UNCHANGED <<pending, events, loop, deadline, registry, running>>
    BY <1>4, ReadSteps DEF IInv, ReadFrameNumber, streamVars, timeoutVars
  <2>2. Typed'
    BY <1>4, <2>1 DEF IInv, Typed, TypeOK, LoopBusy, Steps, ReadFrameNumber
  <2>3. GateIsOneEvent'
    BY <2>1, ThreadKeepsGate
  <2>4. StreamIsWatched'
    <3>1. \A d : \A s \in Threads : On(s, d, {"gate"}) => On(s, d, {"gate"})'
      BY <2>1, PlacesEntered
    <3>2. \A d : \A s \in Threads : On(s, d, {"announce", "read", "extend"}) => On(s, d, {"announce", "read", "extend"})'
      BY <2>1, PlacesEntered
    <3>. QED BY <2>1, <3>1, <3>2 DEF IInv, StreamIsWatched, Watched, AtGate, Extending, LoopOn
  <2>. QED BY <2>2, <2>3, <2>4 DEF IInv
<1>5. ASSUME ExtendDeadline(t) PROVE IInv'
  <2>1. x \in Creatures /\ At(t, "extend") /\ thread[t].until \in Nat
    BY <1>5 DEF IInv, Typed, TypeOK, Thread, ThreadsBusy, ExtendDeadline, At
  <2>2. Steps(t, "extend", "gate")
    BY <1>5, <2>1, GotoSteps DEF ExtendDeadline, Goto, IInv
  <2>3. /\ UNCHANGED <<pending, events, loop, registry, running>>
        /\ deadline' = [deadline EXCEPT ![x] = thread[t].until]
    BY <1>5 DEF ExtendDeadline, streamVars
  <2>4. Typed'
    BY <1>5, <2>1, <2>2, <2>3 DEF IInv, Typed, TypeOK, LoopBusy, Steps, ExtendDeadline
  <2>5. GateIsOneEvent'
    BY <2>2, <2>3, ThreadKeepsGate
  <2>6. deadline'[x] # None /\ \A c \in Creatures \ {x} : deadline'[c] = deadline[c]
    BY <2>1, <2>3, StreamAssumption DEF IInv, Typed, TypeOK, StreamAssumption
  <2>7. StreamIsWatched'
    <3>1. \A d : \A s \in Threads : On(s, d, {"gate"}) => On(s, d, {"gate"})'
      BY <2>2, PlacesEntered
    <3>2. \A d : d # x => \A s \in Threads : On(s, d, {"announce", "read", "extend"}) => On(s, d, {"announce", "read", "extend"})'
      BY <2>2 DEF On, Steps
    <3>3. On(t, x, {"gate"})'
      BY <2>2 DEF On, Steps
    <3>4. ASSUME NEW c \in Creatures, c # x PROVE Watched(c)'
      BY <2>1, <2>3, <2>6, <3>1, <3>2, <3>4 DEF IInv, StreamIsWatched, Watched, AtGate, Extending, LoopOn
    <3>5. Watched(x)'
      BY <2>1, <2>3, <2>6, <3>1, <3>2, <3>3 DEF IInv, StreamIsWatched, Watched, AtGate, Extending, LoopOn
    <3>. QED BY <3>4, <3>5 DEF StreamIsWatched
  <2>. QED BY <2>4, <2>5, <2>7 DEF IInv
<1>6. ASSUME PassGate(t) PROVE IInv'
  <2>1. x \in Creatures /\ At(t, "gate")
    BY <1>6 DEF IInv, Typed, ThreadsBusy, PassGate, At
  <2>2. UNCHANGED <<events, loop, deadline, registry, running>> /\ pending' = pending \cup {x}
    BY <1>6 DEF PassGate, streamVars
  <2>3. IF x \in pending THEN Steps(t, "gate", "idle") ELSE Steps(t, "gate", "schedule")
    <3>1. CASE x \in pending
      BY <1>6, <2>1, <3>1, EndSteps DEF PassGate, IInv
    <3>2. CASE x \notin pending
      <4>1. thread' = [thread EXCEPT ![t].at = "schedule"]
        BY <1>6, <3>2 DEF PassGate
      <4>. QED BY <2>1, <3>2, <4>1, GotoSteps DEF IInv
    <3>. QED BY <3>1, <3>2
  <2>4. Typed'
    BY <1>6, <2>1, <2>2, <2>3 DEF IInv, Typed, TypeOK, LoopBusy, Steps, PassGate
  <2>5. GateIsOneEvent'
    <3>1. CASE x \in pending
      BY <2>2, <2>3, <3>1, ThreadKeepsGate
    <3>2. CASE x \notin pending
      <4>1. Scheduling(x) = {} /\ Flying(x) = {} /\ ~LoopOn(x, {"chase"})
        BY <2>1, <3>2 DEF IInv, GateIsOneEvent, OneEvent
      <4>2. Scheduling(x)' = {t} /\ \A c \in Creatures \ {x} : Scheduling(c)' = Scheduling(c)
        BY <2>3, <3>2, <4>1 DEF Scheduling, On, Steps
      <4>3. \A c \in Creatures : Flying(c)' = Flying(c) /\ (LoopOn(c, {"chase"})' <=> LoopOn(c, {"chase"}))
        BY <2>2 DEF Flying, LoopOn
      <4>4. ASSUME NEW c \in Creatures, c # x PROVE OneEvent(c)'
        BY <2>2, <4>2, <4>3, <4>4 DEF IInv, GateIsOneEvent, OneEvent
      <4>5. OneEvent(x)'
        BY <2>1, <2>2, <4>1, <4>2, <4>3 DEF OneEvent
      <4>. QED BY <4>4, <4>5 DEF GateIsOneEvent
    <3>. QED BY <3>1, <3>2
  <2>6. StreamIsWatched'
    <3>1. \A d : d # x => \A s \in Threads : On(s, d, {"gate"}) => On(s, d, {"gate"})'
      BY <2>3 DEF On, Steps
    <3>2. \A d : \A s \in Threads : On(s, d, {"announce", "read", "extend"}) => On(s, d, {"announce", "read", "extend"})'
      BY <2>3 DEF On, Steps
    <3>. QED BY <2>2, <3>1, <3>2 DEF IInv, StreamIsWatched, Watched, AtGate, Extending, LoopOn
  <2>. QED BY <2>4, <2>5, <2>6 DEF IInv
<1>7. ASSUME ScheduleTimeout(t) PROVE IInv'
  <2>. PICK e : e = [creature |-> x, frame |-> thread[t].until]
    OBVIOUS
  <2>1. x \in Creatures /\ At(t, "schedule") /\ thread[t].until \in Nat
    BY <1>7 DEF IInv, Typed, TypeOK, Thread, ThreadsBusy, ScheduleTimeout, At
  <2>2. Steps(t, "schedule", "idle")
    BY <1>7, <2>1, EndSteps DEF ScheduleTimeout, IInv
  <2>3. UNCHANGED <<pending, loop, deadline, registry, running>> /\ events' = events \cup {e}
    BY <1>7 DEF ScheduleTimeout, streamVars, timeoutVars
  <2>4. e \in Event /\ e.creature = x
    BY <2>1 DEF Event
  <2>5. Typed'
    BY <1>7, <2>2, <2>3, <2>4 DEF IInv, Typed, TypeOK, LoopBusy, Steps, ScheduleTimeout
  <2>6. GateIsOneEvent'
    <3>1. t \in Scheduling(x)
      BY <2>1 DEF Scheduling, On, At
    <3>2. Scheduling(x) = {t} /\ Flying(x) = {} /\ ~LoopOn(x, {"chase"}) /\ x \in pending
      BY <2>1, <3>1 DEF IInv, GateIsOneEvent, OneEvent
    <3>3. Scheduling(x)' = {} /\ \A c \in Creatures \ {x} : Scheduling(c)' = Scheduling(c)
      <4>1. \A s \in Threads \ {t} : ~On(s, x, {"schedule"})
        BY <3>2 DEF Scheduling
      <4>2. \A c : \A s \in Threads \ {t} : On(s, c, {"schedule"})' <=> On(s, c, {"schedule"})
        BY <2>2 DEF On, Steps
      <4>3. \A c : ~On(t, c, {"schedule"})'
        BY <2>2 DEF On, Steps
      <4>4. \A c : c # x => ~On(t, c, {"schedule"})
        BY DEF On
      <4>. QED BY <4>1, <4>2, <4>3, <4>4 DEF Scheduling
    <3>4. Flying(x)' = {e} /\ \A c \in Creatures \ {x} : Flying(c)' = Flying(c)
      <4>1. \A d \in events : d.creature # x
        BY <3>2 DEF Flying
      <4>. QED BY <2>3, <2>4, <4>1 DEF Flying
    <3>5. \A c \in Creatures : LoopOn(c, {"chase"})' <=> LoopOn(c, {"chase"})
      BY <2>3 DEF LoopOn
    <3>6. ASSUME NEW c \in Creatures, c # x PROVE OneEvent(c)'
      BY <2>3, <3>3, <3>4, <3>5, <3>6 DEF IInv, GateIsOneEvent, OneEvent
    <3>7. OneEvent(x)'
      BY <2>1, <2>3, <3>2, <3>3, <3>4, <3>5 DEF OneEvent
    <3>. QED BY <3>6, <3>7 DEF GateIsOneEvent
  <2>7. StreamIsWatched'
    <3>1. \A d : \A s \in Threads : On(s, d, {"gate"}) => On(s, d, {"gate"})'
      BY <2>2, PlacesEntered
    <3>2. \A d : \A s \in Threads : On(s, d, {"announce", "read", "extend"}) => On(s, d, {"announce", "read", "extend"})'
      BY <2>2, PlacesEntered
    <3>. QED BY <2>3, <3>1, <3>2 DEF IInv, StreamIsWatched, Watched, AtGate, Extending, LoopOn
  <2>. QED BY <2>5, <2>6, <2>7 DEF IInv
<1>. QED BY <1>1, <1>2, <1>3, <1>4, <1>5, <1>6, <1>7 DEF ThreadNext
-----------------------------------------------------------------------------
(* A step of the event loop.                                               *)

\* The threads stand where they were.
LEMMA ThreadsStand ==
  ASSUME UNCHANGED thread
  PROVE  \A c : /\ Scheduling(c)' = Scheduling(c)
                /\ Extending(c)' <=> Extending(c)
                /\ AtGate(c)' <=> AtGate(c)
BY DEF Scheduling, Extending, AtGate, On

LEMMA LoopStep ==
  ASSUME IInv, LoopNext
  PROVE  IInv'
<1>1. ASSUME NEW e \in events, AlreadyGone(e) PROVE IInv'
  <2>. PICK x : x = e.creature
    OBVIOUS
  <2>1. x \in Creatures /\ e.frame \in Nat
    BY <1>1 DEF IInv, Typed, TypeOK, Event
  <2>2. /\ UNCHANGED <<now, registry, running, deadline, thread, loop, frames>> /\ loop.at = "rest"
        /\ deadline[x] = None /\ events' = events \ {e} /\ pending' = pending \ {x}
    BY <1>1 DEF AlreadyGone, streamVars, LoopRests
  <2>3. Typed'
    BY <2>2 DEF IInv, Typed, TypeOK, LoopBusy, ThreadsBusy
  <2>4. Scheduling(x) = {} /\ Flying(x) = {e} /\ ~LoopOn(x, {"chase"})
    BY <2>1 DEF IInv, GateIsOneEvent, OneEvent, Flying
  <2>5. Flying(x)' = {} /\ \A c \in Creatures \ {x} : Flying(c)' = Flying(c)
    <3>1. \A d \in events \ {e} : d.creature # x
      BY <2>4 DEF Flying
    <3>. QED BY <2>2, <3>1 DEF Flying
  <2>6. GateIsOneEvent'
    <3>1. \A c : LoopOn(c, {"chase"})' <=> LoopOn(c, {"chase"})
      BY <2>2 DEF LoopOn
    <3>2. OneEvent(x)'
      BY <2>2, <2>4, <2>5, <3>1, ThreadsStand DEF OneEvent
    <3>3. ASSUME NEW c \in Creatures, c # x PROVE OneEvent(c)'
      BY <2>2, <2>5, <3>1, <3>3, ThreadsStand DEF IInv, GateIsOneEvent, OneEvent
    <3>. QED BY <3>2, <3>3 DEF GateIsOneEvent
  <2>7. StreamIsWatched'
    <3>1. \A c \in Creatures : Watched(c)
      BY DEF IInv, StreamIsWatched
    <3>2. ASSUME NEW c \in Creatures PROVE Watched(c)'
      BY <2>2, <3>1, ThreadsStand DEF Watched, LoopOn
    <3>. QED BY <3>2 DEF StreamIsWatched
  <2>. QED BY <2>3, <2>6, <2>7 DEF IInv
<1>2. ASSUME NEW e \in events, Chase(e) PROVE IInv'
  <2>. PICK x : x = e.creature
    OBVIOUS
  <2>1. x \in Creatures /\ deadline[x] # None /\ deadline[x] \in Nat
    BY <1>2 DEF IInv, Typed, TypeOK, Event, Chase
  <2>2. /\ UNCHANGED <<now, registry, running, deadline, pending, thread, frames>> /\ loop.at = "rest"
        /\ events' = events \ {e} /\ loop' = [at |-> "chase", creature |-> x, until |-> deadline[x]]
    BY <1>2 DEF Chase, streamVars, timeoutVars, LoopRests
  <2>3. Typed'
    BY <2>1, <2>2 DEF IInv, Typed, TypeOK, Loop, LoopBusy, ThreadsBusy
  <2>4. Scheduling(x) = {} /\ Flying(x) = {e} /\ x \in pending
    BY <2>1 DEF IInv, GateIsOneEvent, OneEvent, Flying
  <2>5. Flying(x)' = {} /\ \A c \in Creatures \ {x} : Flying(c)' = Flying(c)
    <3>1. \A d \in events \ {e} : d.creature # x
      BY <2>4 DEF Flying
    <3>. QED BY <2>2, <3>1 DEF Flying
  <2>6. GateIsOneEvent'
    <3>1. LoopOn(x, {"chase"})' /\ \A c \in Creatures \ {x} : ~LoopOn(c, {"chase"})' /\ ~LoopOn(c, {"chase"})
      BY <2>2 DEF LoopOn
    <3>2. OneEvent(x)'
      BY <2>2, <2>4, <2>5, <3>1, ThreadsStand DEF OneEvent
    <3>3. ASSUME NEW c \in Creatures, c # x PROVE OneEvent(c)'
      BY <2>2, <2>5, <3>1, <3>3, ThreadsStand DEF IInv, GateIsOneEvent, OneEvent
    <3>. QED BY <3>2, <3>3 DEF GateIsOneEvent
  <2>7. StreamIsWatched'
    <3>1. \A c \in Creatures : Watched(c)
      BY DEF IInv, StreamIsWatched
    <3>2. ASSUME NEW c \in Creatures PROVE Watched(c)'
      BY <2>2, <3>1, ThreadsStand DEF Watched, LoopOn
    <3>. QED BY <3>2 DEF StreamIsWatched
  <2>. QED BY <2>3, <2>6, <2>7 DEF IInv
<1>3. ASSUME ScheduleChase PROVE IInv'
  <2>. PICK x : x = loop.creature
    OBVIOUS
  <2>. PICK e : e = [creature |-> x, frame |-> loop.until]
    OBVIOUS
  <2>1. x \in Creatures /\ e \in Event /\ e.creature = x
    BY <1>3 DEF IInv, Typed, TypeOK, Loop, LoopBusy, Event, ScheduleChase
  <2>2. /\ UNCHANGED <<now, registry, running, deadline, pending, thread, frames>> /\ LoopOn(x, {"chase"})
        /\ events' = events \cup {e} /\ loop' = Rest /\ loop'.at = "rest"
    BY <1>3, RestTyped DEF ScheduleChase, streamVars, timeoutVars, LoopOn
  <2>3. Typed'
    BY <2>1, <2>2, RestTyped DEF IInv, Typed, TypeOK, LoopBusy, ThreadsBusy
  <2>4. Scheduling(x) = {} /\ Flying(x) = {} /\ x \in pending
    BY <2>1, <2>2 DEF IInv, GateIsOneEvent, OneEvent
  <2>5. Flying(x)' = {e} /\ \A c \in Creatures \ {x} : Flying(c)' = Flying(c)
    <3>1. \A d \in events : d.creature # x
      BY <2>4 DEF Flying
    <3>. QED BY <2>1, <2>2, <3>1 DEF Flying
  <2>6. GateIsOneEvent'
    <3>1. \A c : ~LoopOn(c, {"chase"})'
      BY <2>2 DEF LoopOn
    <3>2. \A c \in Creatures \ {x} : ~LoopOn(c, {"chase"})
      BY DEF LoopOn
    <3>3. OneEvent(x)'
      BY <2>2, <2>4, <2>5, <3>1, ThreadsStand DEF OneEvent
    <3>4. ASSUME NEW c \in Creatures, c # x PROVE OneEvent(c)'
      BY <2>2, <2>5, <3>1, <3>2, <3>4, ThreadsStand DEF IInv, GateIsOneEvent, OneEvent
    <3>. QED BY <3>3, <3>4 DEF GateIsOneEvent
  <2>7. StreamIsWatched'
    <3>1. \A c \in Creatures : Watched(c)
      BY DEF IInv, StreamIsWatched
    <3>2. ASSUME NEW c \in Creatures PROVE Watched(c)'
      BY <2>2, <3>1, ThreadsStand DEF Watched, LoopOn
    <3>. QED BY <3>2 DEF StreamIsWatched
  <2>. QED BY <2>3, <2>6, <2>7 DEF IInv
<1>4. ASSUME NEW e \in events, Expire(e) PROVE IInv'
  <2>. PICK x : x = e.creature
    OBVIOUS
  <2>1. x \in Creatures
    BY <1>4 DEF IInv, Typed, TypeOK, Event
  <2>2. /\ UNCHANGED <<now, registry, running, thread, frames>> /\ loop.at = "rest"
        /\ events' = events \ {e} /\ pending' = pending \ {x} /\ deadline' = [deadline EXCEPT ![x] = None]
        /\ loop' = [at |-> "clear", creature |-> x, until |-> 0]
    BY <1>4 DEF Expire, streamVars, LoopRests
  <2>3. Typed'
    BY <2>1, <2>2 DEF IInv, Typed, TypeOK, Loop, LoopBusy, ThreadsBusy
  <2>4. Scheduling(x) = {} /\ Flying(x) = {e}
    BY <2>1 DEF IInv, GateIsOneEvent, OneEvent, Flying
  <2>5. Flying(x)' = {} /\ \A c \in Creatures \ {x} : Flying(c)' = Flying(c)
    <3>1. \A d \in events \ {e} : d.creature # x
      BY <2>4 DEF Flying
    <3>. QED BY <2>2, <3>1 DEF Flying
  <2>6. GateIsOneEvent'
    <3>1. \A c : ~LoopOn(c, {"chase"})' /\ ~LoopOn(c, {"chase"})
      BY <2>2 DEF LoopOn
    <3>2. OneEvent(x)'
      BY <2>2, <2>4, <2>5, <3>1, ThreadsStand DEF OneEvent
    <3>3. ASSUME NEW c \in Creatures, c # x PROVE OneEvent(c)'
      BY <2>2, <2>5, <3>1, <3>3, ThreadsStand DEF IInv, GateIsOneEvent, OneEvent
    <3>. QED BY <3>2, <3>3 DEF GateIsOneEvent
  <2>7. StreamIsWatched'
    <3>1. \A c \in Creatures : Watched(c)
      BY DEF IInv, StreamIsWatched
    <3>2. deadline'[x] = None /\ \A c \in Creatures \ {x} : deadline'[c] = deadline[c]
      BY <2>1, <2>2 DEF IInv, Typed, TypeOK
    <3>3. ASSUME NEW c \in Creatures, c # x PROVE Watched(c)'
      BY <2>2, <3>1, <3>2, <3>3, ThreadsStand DEF Watched, LoopOn
    <3>4. Watched(x)'
      BY <2>2, <3>2 DEF Watched, LoopOn
    <3>. QED BY <3>3, <3>4 DEF StreamIsWatched
  <2>. QED BY <2>3, <2>6, <2>7 DEF IInv
<1>5. ASSUME UNCHANGED <<pending, events, thread>>, ~LoopOn(loop.creature, {"chase"}), loop'.at # "chase"
      PROVE  GateIsOneEvent'
  <2>1. \A c : Flying(c)' = Flying(c) /\ ~LoopOn(c, {"chase"}) /\ ~LoopOn(c, {"chase"})'
    BY <1>5 DEF Flying, LoopOn
  <2>. QED BY <1>5, <2>1, ThreadsStand DEF IInv, GateIsOneEvent, OneEvent
<1>6. ASSUME ClearStreaming PROVE IInv'
  <2>. PICK x : x = loop.creature
    OBVIOUS
  <2>. DEFINE new == [loop EXCEPT !.at = "tell"]
  <2>1. x \in Creatures /\ loop \in Loop /\ loop.at = "clear"
    BY <1>6 DEF IInv, Typed, TypeOK, LoopBusy, ClearStreaming
  <2>2. /\ UNCHANGED <<now, running, deadline, pending, events, thread, frames>>
        /\ registry' = registry \ {x} /\ loop' = new
    BY <1>6 DEF ClearStreaming, timeoutVars
  <2>3. new \in Loop /\ new.at = "tell" /\ new.creature = x
    BY <2>1 DEF Loop
  <2>. HIDE DEF new
  <2>4. Typed'
    BY <2>1, <2>2, <2>3 DEF IInv, Typed, TypeOK, LoopBusy, ThreadsBusy
  <2>5. GateIsOneEvent'
    BY <1>5, <2>1, <2>2, <2>3 DEF LoopOn
  <2>6. StreamIsWatched'
    <3>1. \A c \in Creatures : Watched(c)
      BY DEF IInv, StreamIsWatched
    <3>2. ASSUME NEW c \in Creatures PROVE Watched(c)'
      BY <2>1, <2>2, <2>3, <3>1, ThreadsStand DEF Watched, LoopOn
    <3>. QED BY <3>2 DEF StreamIsWatched
  <2>. QED BY <2>4, <2>5, <2>6 DEF IInv
<1>7. ASSUME TellStopped PROVE IInv'
  <2>. PICK x : x = loop.creature
    OBVIOUS
  <2>1. x \in Creatures /\ loop.at = "tell"
    BY <1>7 DEF IInv, Typed, LoopBusy, TellStopped
  <2>2. /\ UNCHANGED <<now, registry, deadline, pending, events, thread, frames>>
        /\ running' = running \ {x} /\ loop' = Rest
    BY <1>7 DEF TellStopped, timeoutVars
  <2>3. Typed'
    BY <2>2, RestTyped DEF IInv, Typed, TypeOK, LoopBusy, ThreadsBusy
  <2>4. GateIsOneEvent'
    BY <1>5, <2>1, <2>2, RestTyped DEF LoopOn
  <2>5. StreamIsWatched'
    <3>1. \A c \in Creatures : Watched(c)
      BY DEF IInv, StreamIsWatched
    <3>2. ASSUME NEW c \in Creatures PROVE Watched(c)'
      BY <2>1, <2>2, <3>1, ThreadsStand DEF Watched, LoopOn
    <3>. QED BY <3>2 DEF StreamIsWatched
  <2>. QED BY <2>3, <2>4, <2>5 DEF IInv
<1>8. ASSUME Tick PROVE IInv'
  <2>1. /\ UNCHANGED <<registry, running, deadline, pending, events, thread, loop, frames>>
        /\ loop.at = "rest" /\ now' = now + 1
    BY <1>8 DEF Tick, streamVars, timeoutVars, LoopRests
  <2>2. Typed'
    BY <2>1 DEF IInv, Typed, TypeOK, LoopBusy, ThreadsBusy
  <2>3. GateIsOneEvent'
    BY <1>5, <2>1 DEF LoopOn
  <2>4. StreamIsWatched'
    <3>1. \A c \in Creatures : Watched(c)
      BY DEF IInv, StreamIsWatched
    <3>2. ASSUME NEW c \in Creatures PROVE Watched(c)'
      BY <2>1, <3>1, ThreadsStand DEF Watched, LoopOn
    <3>. QED BY <3>2 DEF StreamIsWatched
  <2>. QED BY <2>2, <2>3, <2>4 DEF IInv
<1>. QED BY <1>1, <1>2, <1>3, <1>4, <1>6, <1>7, <1>8 DEF LoopNext

LEMMA IInvInit ==
  ASSUME Init
  PROVE  IInv
<1>1. Typed
  BY RestTyped DEF Init, Typed, TypeOK, ThreadsBusy, LoopBusy
<1>2. \A c \in Creatures : Scheduling(c) = {} /\ Flying(c) = {} /\ ~LoopOn(c, {"chase"})
  BY RestTyped DEF Init, Scheduling, On, Flying, LoopOn
<1>3. GateIsOneEvent
  BY <1>2 DEF Init, GateIsOneEvent, OneEvent
<1>4. StreamIsWatched
  BY DEF Init, StreamIsWatched, Watched
<1>. QED BY <1>1, <1>3, <1>4 DEF IInv

LEMMA IInvStep ==
  ASSUME IInv, [Next]_vars
  PROVE  IInv'
<1>1. ASSUME UNCHANGED vars PROVE IInv'
  <2>1. UNCHANGED <<now, registry, running, deadline, pending, events, thread, loop, frames>>
    BY <1>1 DEF vars, streamVars, timeoutVars
  <2>2. \A c : Flying(c)' = Flying(c)
    BY <2>1 DEF Flying
  <2>3. \A c : (LoopOn(c, {"chase"})' <=> LoopOn(c, {"chase"}))
    BY <2>1 DEF LoopOn
  <2>4. GateIsOneEvent'
    BY <2>1, <2>2, <2>3, ThreadsStand DEF IInv, GateIsOneEvent, OneEvent
  <2>5. StreamIsWatched'
    BY <2>1, ThreadsStand DEF IInv, StreamIsWatched, Watched, LoopOn
  <2>. QED BY <2>1, <2>4, <2>5 DEF IInv, Typed, TypeOK, ThreadsBusy, LoopBusy
<1>. QED BY <1>1, ThreadStep, LoopStep DEF Next

(***************************************************************************)
(* However frames on any number of threads meet the expiring event, a      *)
(* stream keeps exactly one timeout that watches its deadline.             *)
(***************************************************************************)
THEOREM StreamsStayConsistent == Spec => []StreamsConsistent
<1>1. IInv => StreamsConsistent
  BY DEF IInv, Typed, StreamsConsistent
<1>. QED BY <1>1, IInvInit, IInvStep, PTL DEF Spec

(***************************************************************************)
(* The loop gives up a deadline only once it has reached it.               *)
(***************************************************************************)
THEOREM NoStreamIsCutShort == Spec => NotCutShort
<1>. DEFINE A == \A c \in Creatures : deadline[c] # None /\ deadline'[c] = None => deadline[c] <= now
<1>1. ASSUME IInv, Next PROVE A
  <2>1. ASSUME NEW t \in Threads, ExtendDeadline(t) PROVE A
    <3>1. thread[t].until \in Nat /\ deadline \in [Creatures -> Nat \cup {None}]
      BY <1>1, <2>1 DEF IInv, Typed, TypeOK, Thread
    <3>. QED BY <2>1, <3>1, StreamAssumption DEF ExtendDeadline, StreamAssumption
  <2>2. ASSUME NEW e \in events, Expire(e) PROVE A
    <3>1. e.frame \in Nat /\ now \in Nat /\ deadline \in [Creatures -> Nat \cup {None}] /\ e.frame <= now
      BY <1>1, <2>2 DEF IInv, Typed, TypeOK, Event, Expire, Due
    <3>2. /\ deadline[e.creature] # None /\ deadline[e.creature] <= e.frame
          /\ deadline' = [deadline EXCEPT ![e.creature] = None]
      BY <2>2 DEF Expire
    <3>. QED BY <3>1, <3>2
  <2>3. ASSUME UNCHANGED deadline PROVE A
    BY <2>3
  <2>4. ASSUME NEW t \in Threads, ThreadNext(t) \/ \E c \in Creatures : FrameArrives(t, c), ~ExtendDeadline(t)
        PROVE  UNCHANGED deadline
    BY <2>4 DEF ThreadNext, FrameArrives, MarkStreaming, Announce, ReadFrameNumber, PassGate, ScheduleTimeout, timeoutVars
  <2>5. ASSUME LoopNext, \A e \in events : ~Expire(e) PROVE UNCHANGED deadline
    BY <2>5 DEF LoopNext, AlreadyGone, Chase, ScheduleChase, ClearStreaming, TellStopped, Tick, timeoutVars
  <2>. QED BY <1>1, <2>1, <2>2, <2>3, <2>4, <2>5 DEF Next
<1>2. IInv /\ [Next]_vars => [A]_vars
  BY <1>1
<1>. QED BY <1>2, IInvInit, IInvStep, PTL DEF Spec, NotCutShort

-----------------------------------------------------------------------------
(* The inductive invariant behind the properties of Speech.                *)

\* The agent's request, the sentences it has brought and the thread that takes them.
RequestsAgree(s) ==
  /\ said[s] <= workload.says[s]
  /\ pushed[s] = IF client[s] = "push" THEN said[s] - 1 ELSE said[s]
  /\ client[s] = "new" => said[s] = 0 /\ exchange[s].status = "absent"
  /\ client[s] \in {"push", "sealed", "joining"} => said[s] > 0
  /\ finished[s] <=> client[s] \in {"sealed", "joining"} \/ (client[s] = "gone" /\ said[s] > 0)
  /\ client[s] = "gone" => said[s] = 0 \/ player[s].pc = "exited"
  /\ player[s].pc = "unborn" <=> pushed[s] = 0
  /\ player[s].pc = "exited" => finished[s] /\ player[s].next = pushed[s]
  /\ player[s].pc \in {"get", "air", "note"} => player[s].next < pushed[s]
  /\ player[s].next <= pushed[s]

\* What a task has done, and what the thread has noted of it.
TasksAgree(s) ==
  /\ \A n \in Number : /\ task[s][n] = "none" <=> n > said[s]
                       /\ task[s][n] \in {"build", "publish", "ok"} => n \in wavs[s]
  /\ Len(outcomes[s]) = player[s].next
  /\ \A n \in DOMAIN outcomes[s] : task[s][n] = IF outcomes[s][n] THEN "ok" ELSE "failed"
  /\ player[s].pc = "air" => task[s][Current(s)] = "ok"
  /\ player[s].pc = "note" => task[s][Current(s)] \in {"ok", "failed"}

RecordAgrees(s) ==
  exchange[s].status \notin {"absent", "streaming"} =>
    /\ client[s] = "gone" /\ said[s] > 0
    /\ exchange[s].parts = Parts(s)
    /\ exchange[s].status = "ready" => Cardinality(Parts(s)) = said[s]

\* The sentences that the thread has handed to the universe, refused or not.
Aired(s) ==
  Parts(s) \cup {n \in {Current(s)} : player[s].pc = "note" /\ task[s][n] = "ok"}

Sounding == {air} \cap Sentence

Placed == Range(heard) \cup Sounding \cup Range(queue)

\* Sentences of the second set come after those of the first of the same session.
Before(X, Y) == \A x \in X, y \in Y : x.session = y.session => x.number < y.number

InTurn ==
  /\ Ordered(heard) /\ Ordered(queue)
  /\ Before(Range(heard), Sounding) /\ Before(Range(heard), Range(queue)) /\ Before(Sounding, Range(queue))

\* What was handed over was heard, plays or waits, but for interference; nothing else does.
PlacedIsAired ==
  /\ \A x \in Placed : x.number \in Aired(x.session)
  /\ \A s \in Session \ disturbed : \A n \in Aired(s) : [session |-> s, number |-> n] \in Placed

SessionAgrees(s) == RequestsAgree(s) /\ TasksAgree(s) /\ RecordAgrees(s)

SpeechInv ==
  /\ SpeechTypeOK
  /\ \A s \in Session : SessionAgrees(s)
  /\ InTurn /\ PlacedIsAired

\* The state of every session but s stays.
Elsewhere(s) ==
  \A t \in Session \ {s} :
    /\ client'[t] = client[t] /\ said'[t] = said[t] /\ pushed'[t] = pushed[t] /\ finished'[t] = finished[t]
    /\ player'[t] = player[t] /\ task'[t] = task[t] /\ wavs'[t] = wavs[t]
    /\ outcomes'[t] = outcomes[t] /\ exchange'[t] = exchange[t]

\* A step of session s that hands nothing to the universe.
Quietly(s) ==
  /\ SpeechTypeOK' /\ Elsewhere(s) /\ workload' = workload
  /\ SessionAgrees(s)' /\ Aired(s)' = Aired(s)
  /\ UNCHANGED airVars

-----------------------------------------------------------------------------
(* Lines of sentences.                                                     *)

LEMMA RangeOfAppend ==
  ASSUME NEW S, NEW line \in Seq(S), NEW x \in S
  PROVE  Range(Append(line, x)) = Range(line) \cup {x}
BY AppendProperties DEF Range

LEMMA RangeOfConcat ==
  ASSUME NEW S, NEW p \in Seq(S), NEW q \in Seq(S)
  PROVE  Range(p \o q) = Range(p) \cup Range(q)
<1>1. /\ p \o q \in Seq(S) /\ Len(p \o q) = Len(p) + Len(q)
      /\ \A i \in 1 .. Len(p) + Len(q) : (p \o q)[i] = IF i <= Len(p) THEN p[i] ELSE q[i - Len(p)]
  BY ConcatProperties
<1>2. /\ Len(p) \in Nat /\ DOMAIN p = 1 .. Len(p) /\ Len(q) \in Nat /\ DOMAIN q = 1 .. Len(q)
      /\ DOMAIN (p \o q) = 1 .. Len(p) + Len(q)
  BY <1>1, LenProperties
<1>3. \A i \in 1 .. Len(q) : i + Len(p) \in 1 .. Len(p) + Len(q) /\ (p \o q)[i + Len(p)] = q[i]
  BY <1>1, <1>2
<1>4. ASSUME NEW i \in 1 .. Len(p) + Len(q) PROVE (p \o q)[i] \in Range(p) \cup Range(q)
  <2>1. CASE i <= Len(p)
    BY <1>1, <1>2, <2>1 DEF Range
  <2>2. CASE i > Len(p)
    <3>1. i - Len(p) \in 1 .. Len(q) /\ (p \o q)[i] = q[i - Len(p)]
      BY <1>1, <1>2, <2>2
    <3> QED
      BY <1>2, <3>1 DEF Range
  <2> QED
    BY <1>2, <2>1, <2>2
<1>5. Range(p \o q) \subseteq Range(p) \cup Range(q)
  BY <1>2, <1>4 DEF Range
<1>6. Range(p) \subseteq Range(p \o q)
  BY <1>1, <1>2 DEF Range
<1>7. Range(q) \subseteq Range(p \o q)
  BY <1>2, <1>3 DEF Range
<1> QED
  BY <1>5, <1>6, <1>7

LEMMA RangeOfTail ==
  ASSUME NEW S, NEW line \in Seq(S), line # <<>>
  PROVE  /\ Head(line) \in S /\ Tail(line) \in Seq(S)
         /\ Range(line) = {Head(line)} \cup Range(Tail(line))
<1>1. /\ Head(line) = line[1] /\ Head(line) \in S /\ Tail(line) \in Seq(S)
      /\ Len(line) # 0 /\ Len(Tail(line)) = Len(line) - 1
      /\ \A i \in 1 .. Len(line) - 1 : Tail(line)[i] = line[i + 1]
  BY HeadTailProperties, EmptySeq
<1>2. /\ Len(line) \in Nat /\ DOMAIN line = 1 .. Len(line)
      /\ DOMAIN Tail(line) = 1 .. Len(line) - 1
  BY <1>1, LenProperties
<1>3. \A i \in 2 .. Len(line) : i - 1 \in 1 .. Len(line) - 1 /\ line[i] = Tail(line)[i - 1]
  BY <1>1, <1>2
<1>4. \A i \in 1 .. Len(line) : i = 1 \/ i \in 2 .. Len(line)
  BY <1>2
<1>5. ASSUME NEW i \in 1 .. Len(line) PROVE line[i] \in {Head(line)} \cup Range(Tail(line))
  <2>1. CASE i = 1
    BY <1>1, <2>1
  <2>2. CASE i \in 2 .. Len(line)
    <3>1. i - 1 \in DOMAIN Tail(line) /\ line[i] = Tail(line)[i - 1]
      BY <1>2, <1>3, <2>2
    <3> QED
      BY <3>1 DEF Range
  <2> QED
    BY <1>4, <2>1, <2>2
<1>6. \A i \in 1 .. Len(line) - 1 : i + 1 \in 1 .. Len(line)
  BY <1>2
<1>7. Range(Tail(line)) \subseteq Range(line)
  BY <1>1, <1>2, <1>6 DEF Range
<1>8. Head(line) \in Range(line)
  BY <1>1, <1>2 DEF Range
<1>9. Range(line) \subseteq {Head(line)} \cup Range(Tail(line))
  BY <1>2, <1>5 DEF Range
<1> QED
  BY <1>1, <1>7, <1>8, <1>9

LEMMA RangeTyped ==
  ASSUME NEW S, NEW line \in Seq(S)
  PROVE  Range(line) \subseteq S
BY DEF Range

LEMMA OrderedAppend ==
  ASSUME NEW line \in Seq(Sentence), NEW x \in Sentence, Ordered(line), Before(Range(line), {x})
  PROVE  Ordered(Append(line, x))
<1>1. /\ Len(Append(line, x)) = Len(line) + 1
      /\ \A i \in 1 .. Len(line) : Append(line, x)[i] = line[i]
      /\ Append(line, x)[Len(line) + 1] = x
  BY AppendProperties
<1>2. \A i \in 1 .. Len(line) : line[i] \in Range(line)
  BY DEF Range
<1> QED
  BY <1>1, <1>2 DEF Ordered, Before

LEMMA OrderedTail ==
  ASSUME NEW line \in Seq(Sentence), line # <<>>, Ordered(line)
  PROVE  Ordered(Tail(line)) /\ Before({Head(line)}, Range(Tail(line)))
<1>1. /\ Head(line) = line[1] /\ Len(line) \in Nat /\ Len(Tail(line)) = Len(line) - 1
      /\ DOMAIN Tail(line) = 1 .. Len(line) - 1 /\ Len(line) # 0
      /\ \A i \in 1 .. Len(line) - 1 : Tail(line)[i] = line[i + 1]
  BY HeadTailProperties, EmptySeq
<1>2. ASSUME NEW y \in Range(Tail(line)) PROVE \E i \in 2 .. Len(line) : y = line[i]
  BY <1>1 DEF Range
<1> QED
  BY <1>1, <1>2 DEF Ordered, Before

LEMMA OrderedConcat ==
  ASSUME NEW p \in Seq(Sentence), NEW q \in Seq(Sentence),
         Ordered(p), Ordered(q), Before(Range(p), Range(q))
  PROVE  Ordered(p \o q)
<1>1. /\ p \o q \in Seq(Sentence) /\ Len(p \o q) = Len(p) + Len(q)
      /\ \A i \in 1 .. Len(p) + Len(q) : (p \o q)[i] = IF i <= Len(p) THEN p[i] ELSE q[i - Len(p)]
  BY ConcatProperties
<1>2. /\ \A i \in 1 .. Len(p) : p[i] \in Range(p)
      /\ \A i \in 1 .. Len(q) : q[i] \in Range(q)
      /\ Len(p) \in Nat /\ DOMAIN p = 1 .. Len(p) /\ Len(q) \in Nat /\ DOMAIN q = 1 .. Len(q)
      /\ DOMAIN (p \o q) = 1 .. Len(p) + Len(q)
  BY <1>1, LenProperties DEF Range
<1> SUFFICES ASSUME NEW i \in 1 .. Len(p) + Len(q), NEW j \in 1 .. Len(p) + Len(q), i < j,
                    (p \o q)[i].session = (p \o q)[j].session
             PROVE  (p \o q)[i].number < (p \o q)[j].number
  BY <1>2 DEF Ordered
<1>3. CASE j <= Len(p)
  <2>1. /\ i \in 1 .. Len(p) /\ j \in 1 .. Len(p)
        /\ (p \o q)[i] = p[i] /\ (p \o q)[j] = p[j]
    BY <1>1, <1>2, <1>3
  <2> QED
    BY <1>2, <2>1 DEF Ordered
<1>4. CASE i > Len(p)
  <2>1. i - Len(p) \in 1 .. Len(q) /\ j - Len(p) \in 1 .. Len(q) /\ i - Len(p) < j - Len(p)
    BY <1>2, <1>4
  <2>2. (p \o q)[i] = q[i - Len(p)] /\ (p \o q)[j] = q[j - Len(p)]
    BY <1>1, <1>2, <1>4
  <2> QED
    BY <1>2, <2>1, <2>2 DEF Ordered
<1>5. CASE i <= Len(p) /\ j > Len(p)
  <2>1. j - Len(p) \in 1 .. Len(q) /\ i \in 1 .. Len(p)
    BY <1>2, <1>5
  <2>2. (p \o q)[i] = p[i] /\ (p \o q)[j] = q[j - Len(p)]
    BY <1>1, <1>2, <1>5
  <2>3. p[i] \in Range(p) /\ q[j - Len(p)] \in Range(q)
    BY <1>2, <2>1
  <2> QED
    BY <2>2, <2>3 DEF Before
<1> QED
  BY <1>2, <1>3, <1>4, <1>5

-----------------------------------------------------------------------------
(* A session's own steps.                                                  *)

LEMMA OthersAgree ==
  ASSUME NEW s \in Session, NEW t \in Session \ {s}, Elsewhere(s), workload' = workload, SessionAgrees(t)
  PROVE  SessionAgrees(t)' /\ Aired(t)' = Aired(t)
<1>1. /\ client'[t] = client[t] /\ said'[t] = said[t] /\ pushed'[t] = pushed[t] /\ finished'[t] = finished[t]
      /\ player'[t] = player[t] /\ task'[t] = task[t] /\ wavs'[t] = wavs[t]
      /\ outcomes'[t] = outcomes[t] /\ exchange'[t] = exchange[t]
  BY DEF Elsewhere
<1>2. Parts(t)' = Parts(t) /\ Current(t)' = Current(t)
  BY <1>1 DEF Parts, Current
<1>3. Aired(t)' = Aired(t)
  BY <1>1, <1>2 DEF Aired
<1>4. RequestsAgree(t)'
  BY <1>1 DEF SessionAgrees, RequestsAgree
<1>5. TasksAgree(t)'
  BY <1>1, <1>2 DEF SessionAgrees, TasksAgree
<1>6. RecordAgrees(t)'
  BY <1>1, <1>2 DEF SessionAgrees, RecordAgrees
<1> QED
  BY <1>3, <1>4, <1>5, <1>6 DEF SessionAgrees

LEMMA QuietStep ==
  ASSUME SpeechInv, NEW s \in Session, Quietly(s)
  PROVE  SpeechInv'
<1>1. /\ SpeechTypeOK' /\ SpeechTypeOK /\ Elsewhere(s) /\ workload' = workload
      /\ air' = air /\ queue' = queue /\ heard' = heard /\ disturbed' = disturbed
  BY DEF Quietly, airVars, SpeechInv
<1>2. \A t \in Session : SessionAgrees(t)' /\ Aired(t)' = Aired(t)
  BY <1>1, OthersAgree DEF Quietly, SpeechInv
<1>3. Sounding' = Sounding /\ Placed' = Placed
  BY <1>1 DEF Sounding, Placed
<1>4. InTurn'
  BY <1>1, <1>3 DEF SpeechInv, InTurn
<1>5. \A x \in Placed : x.session \in Session
  <2>1. Range(heard) \subseteq Sentence /\ Range(queue) \subseteq Sentence
    BY <1>1, RangeTyped DEF SpeechTypeOK
  <2> QED
    BY <2>1 DEF Placed, Sounding, Sentence
<1>6. PlacedIsAired'
  BY <1>1, <1>2, <1>3, <1>5 DEF SpeechInv, PlacedIsAired
<1> QED
  BY <1>1, <1>2, <1>4, <1>6 DEF SpeechInv

PlayerPlaces == {"unborn", "look", "doze", "asleep", "get", "air", "note", "exited"}

LEMMA PlayerGoes ==
  ASSUME SpeechTypeOK, NEW s \in Session, NEW place \in PlayerPlaces,
         player' = [player EXCEPT ![s].pc = place]
  PROVE  /\ player' \in [Session -> [pc : PlayerPlaces, next : 0 .. MaxSentences]]
         /\ player'[s].pc = place /\ player'[s].next = player[s].next
         /\ \A t \in Session \ {s} : player'[t] = player[t]
<1> DEFINE p == [player[s] EXCEPT !.pc = place]
<1>1. player \in [Session -> [pc : PlayerPlaces, next : 0 .. MaxSentences]]
  BY DEF SpeechTypeOK, PlayerPlaces
<1>2. p \in [pc : PlayerPlaces, next : 0 .. MaxSentences] /\ p.pc = place /\ p.next = player[s].next
  BY <1>1
<1>3. player' = [player EXCEPT ![s] = p]
  OBVIOUS
<1> HIDE DEF p
<1> QED
  BY <1>1, <1>2, <1>3

LEMMA NotifyGoes ==
  ASSUME SpeechTypeOK, NEW s \in Session, Notify(s)
  PROVE  \E place \in PlayerPlaces :
           /\ player' = [player EXCEPT ![s].pc = place]
           /\ place = IF player[s].pc = "asleep" THEN "look" ELSE player[s].pc
BY DEF SpeechTypeOK, PlayerPlaces, Notify

\* A step of session s that leaves its tasks and what the thread has noted alone.
TasksStand(s) ==
  /\ said'[s] = said[s] /\ task'[s] = task[s] /\ wavs'[s] = wavs[s] /\ outcomes'[s] = outcomes[s]
  /\ player'[s].next = player[s].next
  /\ player'[s].pc = player[s].pc \/ {player[s].pc, player'[s].pc} \cap {"air", "note"} = {}

LEMMA StandingTasksAgree ==
  ASSUME NEW s \in Session, TasksAgree(s), TasksStand(s)
  PROVE  TasksAgree(s)' /\ Parts(s)' = Parts(s) /\ Aired(s)' = Aired(s)
<1>1. Parts(s)' = Parts(s) /\ Current(s)' = Current(s)
  BY DEF Parts, Current, TasksStand
<1>2. /\ player'[s].pc = "note" <=> player[s].pc = "note"
      /\ player'[s].pc = "air" <=> player[s].pc = "air"
  BY DEF TasksStand
<1>3. Aired(s)' = Aired(s)
  BY <1>1, <1>2 DEF Aired, TasksStand
<1>4. TasksAgree(s)'
  BY <1>1, <1>2 DEF TasksAgree, TasksStand
<1> QED
  BY <1>1, <1>3, <1>4

\* Such a step need only answer for the request and the record.
LEMMA StandingIsQuiet ==
  ASSUME SpeechInv, NEW s \in Session, SpeechTypeOK', Elsewhere(s), TasksStand(s), RequestsAgree(s)',
         \/ exchange'[s] = exchange[s] /\ (client[s] = "gone" => client'[s] = "gone")
         \/ exchange'[s].status \in {"absent", "streaming"},
         UNCHANGED <<workload, airVars>>
  PROVE  Quietly(s)
<1>1. TasksAgree(s)' /\ Parts(s)' = Parts(s) /\ Aired(s)' = Aired(s)
  BY StandingTasksAgree DEF SpeechInv, SessionAgrees
<1>2. RecordAgrees(s)'
  BY <1>1 DEF SpeechInv, SessionAgrees, RecordAgrees, TasksStand
<1> QED
  BY <1>1, <1>2 DEF Quietly, SessionAgrees

-----------------------------------------------------------------------------
(* The agent.                                                              *)

LEMMA StartIsQuiet ==
  ASSUME SpeechInv, NEW s \in Session, Start(s)
  PROVE  Quietly(s)
<1>1. SpeechTypeOK /\ RequestsAgree(s)
  BY DEF SpeechInv, SessionAgrees
<1>2. PICK status \in {"streaming", "absent"} : exchange' = [exchange EXCEPT ![s].status = status]
  BY DEF Start
<1>3. PICK e : e = [exchange[s] EXCEPT !.status = status]
  OBVIOUS
<1>4. exchange' = [exchange EXCEPT ![s] = e]
  BY <1>2, <1>3
<1>5. /\ e.status = status
      /\ e \in [status : {"absent", "streaming", "ready", "partial", "failed"}, parts : SUBSET Number]
  BY <1>1, <1>3 DEF SpeechTypeOK
<1>6. /\ exchange' \in [Session -> [status : {"absent", "streaming", "ready", "partial", "failed"},
                                   parts : SUBSET Number]]
      /\ exchange'[s].status \in {"absent", "streaming"}
      /\ exchange[s].status = "absent"
      /\ \A t \in Session \ {s} : exchange'[t] = exchange[t]
  BY <1>1, <1>4, <1>5 DEF SpeechTypeOK, Start, RequestsAgree
<1>7. SpeechTypeOK'
  BY <1>1, <1>6 DEF SpeechTypeOK, requestVars, taskVars, airVars, Start, Answered
<1>8. Elsewhere(s) /\ TasksStand(s) /\ UNCHANGED <<workload, airVars>>
  BY <1>1, <1>6 DEF SpeechTypeOK, requestVars, taskVars, airVars, Start, Answered, Elsewhere, TasksStand
<1>9. RequestsAgree(s)'
  BY <1>1, <1>6 DEF SpeechTypeOK, requestVars, taskVars, airVars, Start, Answered, RequestsAgree
<1> QED
  BY <1>7, <1>8, <1>9, <1>6, StandingIsQuiet

LEMMA StartFailsIsQuiet ==
  ASSUME SpeechInv, NEW s \in Session, StartFails(s)
  PROVE  Quietly(s)
<1>1. SpeechTypeOK /\ RequestsAgree(s)
  BY DEF SpeechInv, SessionAgrees
<1>2. SpeechTypeOK'
  BY <1>1 DEF SpeechTypeOK, requestVars, taskVars, airVars, StartFails, Answered
<1>3. Elsewhere(s) /\ TasksStand(s) /\ UNCHANGED <<workload, airVars>>
  BY <1>1 DEF SpeechTypeOK, requestVars, taskVars, airVars, StartFails, Answered, Elsewhere, TasksStand
<1>4. RequestsAgree(s)'
  BY <1>1 DEF SpeechTypeOK, requestVars, taskVars, airVars, StartFails, Answered, RequestsAgree
<1>5. \/ exchange'[s] = exchange[s] /\ (client[s] = "gone" => client'[s] = "gone")
      \/ exchange'[s].status \in {"absent", "streaming"}
  BY <1>1 DEF SpeechTypeOK, requestVars, taskVars, airVars, StartFails
<1> QED
  BY <1>2, <1>3, <1>4, <1>5, StandingIsQuiet

LEMMA FinishEmptyIsQuiet ==
  ASSUME SpeechInv, NEW s \in Session, FinishEmpty(s)
  PROVE  Quietly(s)
<1>1. SpeechTypeOK /\ RequestsAgree(s)
  BY DEF SpeechInv, SessionAgrees
<1>2. SpeechTypeOK'
  BY <1>1 DEF SpeechTypeOK, requestVars, taskVars, airVars, FinishEmpty, Answered
<1>3. Elsewhere(s) /\ TasksStand(s) /\ UNCHANGED <<workload, airVars>>
  BY <1>1 DEF SpeechTypeOK, requestVars, taskVars, airVars, FinishEmpty, Answered, Elsewhere, TasksStand
<1>4. RequestsAgree(s)'
  BY <1>1 DEF SpeechTypeOK, requestVars, taskVars, airVars, FinishEmpty, Answered, RequestsAgree
<1>5. \/ exchange'[s] = exchange[s] /\ (client[s] = "gone" => client'[s] = "gone")
      \/ exchange'[s].status \in {"absent", "streaming"}
  BY <1>1 DEF SpeechTypeOK, requestVars, taskVars, airVars, FinishEmpty
<1> QED
  BY <1>2, <1>3, <1>4, <1>5, StandingIsQuiet

LEMMA BeginFinishIsQuiet ==
  ASSUME SpeechInv, NEW s \in Session, BeginFinish(s)
  PROVE  Quietly(s)
<1>1. SpeechTypeOK /\ RequestsAgree(s)
  BY DEF SpeechInv, SessionAgrees
<1>2. SpeechTypeOK'
  BY <1>1 DEF SpeechTypeOK, requestVars, taskVars, airVars, BeginFinish, Answered
<1>3. Elsewhere(s) /\ TasksStand(s) /\ UNCHANGED <<workload, airVars>>
  BY <1>1 DEF SpeechTypeOK, requestVars, taskVars, airVars, BeginFinish, Answered, Elsewhere, TasksStand
<1>4. RequestsAgree(s)'
  BY <1>1 DEF SpeechTypeOK, requestVars, taskVars, airVars, BeginFinish, Answered, RequestsAgree
<1>5. \/ exchange'[s] = exchange[s] /\ (client[s] = "gone" => client'[s] = "gone")
      \/ exchange'[s].status \in {"absent", "streaming"}
  BY <1>1 DEF SpeechTypeOK, requestVars, taskVars, airVars, BeginFinish
<1> QED
  BY <1>2, <1>3, <1>4, <1>5, StandingIsQuiet

LEMMA WakePlayerIsQuiet ==
  ASSUME SpeechInv, NEW s \in Session, WakePlayer(s)
  PROVE  Quietly(s)
<1>1. SpeechTypeOK /\ RequestsAgree(s)
  BY DEF SpeechInv, SessionAgrees
<1>2. PICK place \in PlayerPlaces : /\ player' = [player EXCEPT ![s].pc = place]
                                   /\ place = IF player[s].pc = "asleep" THEN "look" ELSE player[s].pc
  BY <1>1, NotifyGoes DEF WakePlayer
<1>3. /\ player' \in [Session -> [pc : PlayerPlaces, next : 0 .. MaxSentences]]
      /\ player'[s].pc = place /\ player'[s].next = player[s].next
      /\ \A t \in Session \ {s} : player'[t] = player[t]
  BY <1>1, <1>2, PlayerGoes
<1>4. SpeechTypeOK'
  BY <1>1, <1>3 DEF SpeechTypeOK, requestVars, taskVars, airVars, WakePlayer, Answered, PlayerPlaces
<1>5. Elsewhere(s) /\ TasksStand(s) /\ UNCHANGED <<workload, airVars>>
  BY <1>1, <1>2, <1>3 DEF SpeechTypeOK, requestVars, taskVars, airVars, WakePlayer, Answered, Elsewhere, TasksStand
<1>6. RequestsAgree(s)'
  BY <1>1, <1>2, <1>3 DEF SpeechTypeOK, requestVars, taskVars, airVars, WakePlayer, Answered, RequestsAgree
<1>7. exchange'[s] = exchange[s] /\ client[s] # "gone"
  BY DEF WakePlayer
<1> QED
  BY <1>4, <1>5, <1>6, <1>7, StandingIsQuiet

LEMMA NotifyFinishedIsQuiet ==
  ASSUME SpeechInv, NEW s \in Session, NotifyFinished(s)
  PROVE  Quietly(s)
<1>1. SpeechTypeOK /\ RequestsAgree(s)
  BY DEF SpeechInv, SessionAgrees
<1>2. PICK place \in PlayerPlaces : /\ player' = [player EXCEPT ![s].pc = place]
                                   /\ place = IF player[s].pc = "asleep" THEN "look" ELSE player[s].pc
  BY <1>1, NotifyGoes DEF NotifyFinished
<1>3. /\ player' \in [Session -> [pc : PlayerPlaces, next : 0 .. MaxSentences]]
      /\ player'[s].pc = place /\ player'[s].next = player[s].next
      /\ \A t \in Session \ {s} : player'[t] = player[t]
  BY <1>1, <1>2, PlayerGoes
<1>4. SpeechTypeOK'
  BY <1>1, <1>3 DEF SpeechTypeOK, requestVars, taskVars, airVars, NotifyFinished, Answered, PlayerPlaces
<1>5. Elsewhere(s) /\ TasksStand(s) /\ UNCHANGED <<workload, airVars>>
  BY <1>1, <1>2, <1>3 DEF SpeechTypeOK, requestVars, taskVars, airVars, NotifyFinished, Answered, Elsewhere, TasksStand
<1>6. RequestsAgree(s)'
  BY <1>1, <1>2, <1>3 DEF SpeechTypeOK, requestVars, taskVars, airVars, NotifyFinished, Answered, RequestsAgree
<1>7. exchange'[s] = exchange[s] /\ client[s] # "gone"
  BY DEF NotifyFinished
<1> QED
  BY <1>4, <1>5, <1>6, <1>7, StandingIsQuiet

\* What has been noted is of sentences that exist.
LEMMA PartsTyped ==
  ASSUME SpeechTypeOK, NEW s \in Session, TasksAgree(s)
  PROVE  /\ DOMAIN outcomes[s] = 1 .. player[s].next /\ player[s].next \in 0 .. MaxSentences
         /\ Parts(s) \subseteq Number /\ Parts(s) \subseteq 1 .. player[s].next
<1>1. player[s].next \in 0 .. MaxSentences /\ outcomes[s] \in Seq(BOOLEAN) /\ Len(outcomes[s]) = player[s].next
  BY DEF SpeechTypeOK, TasksAgree
<1>2. DOMAIN outcomes[s] = 1 .. player[s].next
  BY <1>1, LenProperties
<1> QED
  BY <1>1, <1>2, SpeechAssumption DEF Parts, Number

LEMMA AddTextIsQuiet ==
  ASSUME SpeechInv, NEW s \in Session, AddText(s)
  PROVE  Quietly(s)
<1>1. SpeechTypeOK /\ RequestsAgree(s) /\ TasksAgree(s) /\ RecordAgrees(s)
  BY DEF SpeechInv, SessionAgrees
<1>2. PICK n : n = said[s] + 1
  OBVIOUS
<1>3. n \in Number /\ n <= workload.says[s] /\ said[s] \in Nat
  BY <1>1, <1>2, SpeechAssumption DEF SpeechTypeOK, AddText, Number
<1>4. PICK f : f = [task[s] EXCEPT ![n] = "ask"]
  OBVIOUS
<1>5. /\ f \in [Number -> {"none", "ask", "wrap", "build", "publish"} \cup Ended]
      /\ f[n] = "ask" /\ \A m \in Number \ {n} : f[m] = task[s][m]
      /\ task' = [task EXCEPT ![s] = f]
  BY <1>1, <1>2, <1>3, <1>4 DEF SpeechTypeOK, AddText
<1>6. /\ task' \in [Session -> [Number -> {"none", "ask", "wrap", "build", "publish"} \cup Ended]]
      /\ task'[s] = f /\ \A t \in Session \ {s} : task'[t] = task[t]
      /\ said' \in [Session -> 0 .. MaxSentences] /\ said'[s] = n
      /\ \A t \in Session \ {s} : said'[t] = said[t]
  BY <1>1, <1>2, <1>3, <1>5 DEF SpeechTypeOK, AddText, Number
<1>7. SpeechTypeOK'
  BY <1>1, <1>6 DEF SpeechTypeOK, requestVars, taskVars, airVars, AddText, Answered
<1>8. Elsewhere(s) /\ UNCHANGED <<workload, airVars>>
  BY <1>1, <1>6 DEF SpeechTypeOK, requestVars, taskVars, airVars, AddText, Answered, Elsewhere
<1>9. RequestsAgree(s)'
  BY <1>1, <1>2, <1>3, <1>6 DEF SpeechTypeOK, requestVars, taskVars, airVars, AddText, Answered, RequestsAgree
<1>10. /\ player' = player /\ wavs' = wavs /\ outcomes' = outcomes /\ exchange' = exchange
       /\ client[s] = "open" /\ client'[s] = "push"
  BY <1>1 DEF SpeechTypeOK, taskVars, AddText, Answered
<1>11. Parts(s)' = Parts(s) /\ Current(s)' = Current(s)
  BY <1>10 DEF Parts, Current
<1>12. /\ player[s].next \in 0 .. MaxSentences /\ DOMAIN outcomes[s] = 1 .. player[s].next
       /\ pushed[s] = said[s] /\ player[s].next <= said[s] /\ MaxSentences \in Nat
       /\ player[s].pc \in {"air", "note"} => player[s].next < said[s]
       /\ player[s].pc \in {"get", "air", "note"} => player[s].next < pushed[s]
  BY <1>1, <1>10, PartsTyped, SpeechAssumption DEF SpeechTypeOK, RequestsAgree
<1>13. /\ \A m \in DOMAIN outcomes[s] : m \in Number /\ m # n
       /\ player[s].pc \in {"air", "note"} => Current(s) \in Number /\ Current(s) # n
  BY <1>2, <1>3, <1>12 DEF Number, Current
<1>14. Aired(s)' = Aired(s)
  BY <1>5, <1>6, <1>10, <1>11, <1>13 DEF Aired
<1>15. TasksAgree(s)'
  <2>1. \A m \in Number : /\ f[m] = "none" <=> m > n
                          /\ f[m] \in {"build", "publish", "ok"} => m \in wavs[s]
    BY <1>1, <1>2, <1>3, <1>5 DEF TasksAgree, Number
  <2> QED
    BY <1>1, <1>5, <1>6, <1>10, <1>11, <1>12, <1>13, <2>1 DEF TasksAgree
<1>16. RecordAgrees(s)'
  BY <1>1, <1>10 DEF RecordAgrees
<1> QED
  BY <1>7, <1>8, <1>9, <1>14, <1>15, <1>16 DEF Quietly, SessionAgrees

LEMMA PushFutureIsQuiet ==
  ASSUME SpeechInv, NEW s \in Session, PushFuture(s)
  PROVE  Quietly(s)
<1>1. SpeechTypeOK /\ RequestsAgree(s) /\ TasksAgree(s)
  BY DEF SpeechInv, SessionAgrees
<1>2. PICK place \in PlayerPlaces : place = IF player[s].pc = "unborn" THEN "look" ELSE player[s].pc
  BY <1>1 DEF SpeechTypeOK, PlayerPlaces
<1>3. player' = [player EXCEPT ![s].pc = place]
  BY <1>2 DEF PushFuture
<1>4. /\ player' \in [Session -> [pc : PlayerPlaces, next : 0 .. MaxSentences]]
      /\ player'[s].pc = place /\ player'[s].next = player[s].next
      /\ \A t \in Session \ {s} : player'[t] = player[t]
  BY <1>1, <1>3, PlayerGoes
<1>5. client[s] = "push" /\ client'[s] = "wake" /\ exchange' = exchange
  BY <1>1 DEF SpeechTypeOK, PushFuture, Answered
<1>6. said[s] \in 1 .. MaxSentences /\ pushed[s] = said[s] - 1
  BY <1>1, <1>5, SpeechAssumption DEF SpeechTypeOK, RequestsAgree
<1>7. pushed' \in [Session -> 0 .. MaxSentences] /\ pushed'[s] = said[s]
  BY <1>1, <1>6, SpeechAssumption DEF SpeechTypeOK, PushFuture
<1>8. SpeechTypeOK'
  BY <1>1, <1>4, <1>7 DEF SpeechTypeOK, requestVars, taskVars, airVars, PushFuture, Answered, PlayerPlaces
<1>9. Elsewhere(s) /\ TasksStand(s) /\ UNCHANGED <<workload, airVars>>
  BY <1>1, <1>2, <1>4 DEF SpeechTypeOK, requestVars, taskVars, airVars, PushFuture, Answered, Elsewhere, TasksStand
<1>10. RequestsAgree(s)'
  BY <1>1, <1>2, <1>4, <1>5, <1>6, <1>7
     DEF SpeechTypeOK, requestVars, taskVars, airVars, PushFuture, Answered, RequestsAgree
<1> QED
  BY <1>5, <1>8, <1>9, <1>10, StandingIsQuiet

LEMMA FinishExchangeIsQuiet ==
  ASSUME SpeechInv, NEW s \in Session, FinishExchange(s)
  PROVE  Quietly(s)
<1>1. SpeechTypeOK /\ RequestsAgree(s) /\ TasksAgree(s) /\ RecordAgrees(s)
  BY DEF SpeechInv, SessionAgrees
<1>3. \E e : /\ exchange' = [exchange EXCEPT ![s] = e]
             /\ \/ e = exchange[s]
                \/ \E status \in Statuses(s) : e = [status |-> status, parts |-> Parts(s)]
  <2>1. CASE exchange' = exchange
    <3>1. exchange' = [exchange EXCEPT ![s] = exchange[s]]
      BY <1>1, <2>1 DEF SpeechTypeOK
    <3> QED
      BY <3>1
  <2>2. CASE exchange[s].status = "absent" /\ exchange' # exchange
    <3>1. exchange' = [exchange EXCEPT ![s] = exchange[s]]
      BY <2>2 DEF FinishExchange
    <3> QED
      BY <3>1
  <2>3. CASE exchange[s].status # "absent" /\ exchange' # exchange
    <3>1. PICK status \in Statuses(s) : exchange' = [exchange EXCEPT ![s] = [status |-> status, parts |-> Parts(s)]]
      BY <2>3 DEF FinishExchange
    <3> QED
      BY <3>1
  <2> QED
    BY <2>1, <2>2, <2>3
<1>4. PICK d : /\ exchange' = [exchange EXCEPT ![s] = d]
               /\ \/ d = exchange[s]
                  \/ \E status \in Statuses(s) : d = [status |-> status, parts |-> Parts(s)]
  BY <1>3
<1>5. /\ d \in [status : {"absent", "streaming", "ready", "partial", "failed"}, parts : SUBSET Number]
      /\ d.status \notin {"absent", "streaming"} /\ d # exchange[s] =>
           d.parts = Parts(s) /\ (d.status = "ready" => Cardinality(Parts(s)) = said[s])
  BY <1>1, <1>4, PartsTyped DEF SpeechTypeOK, Statuses
<1>6. /\ exchange' \in [Session -> [status : {"absent", "streaming", "ready", "partial", "failed"},
                                    parts : SUBSET Number]]
      /\ exchange'[s] = d /\ \A t \in Session \ {s} : exchange'[t] = exchange[t]
  BY <1>1, <1>4, <1>5 DEF SpeechTypeOK
<1>7. /\ client[s] = "joining" /\ client'[s] = "gone" /\ player[s].pc = "exited" /\ said[s] > 0
  BY <1>1 DEF SpeechTypeOK, RequestsAgree, FinishExchange, Answered
<1>8. SpeechTypeOK'
  BY <1>1, <1>6 DEF SpeechTypeOK, requestVars, taskVars, airVars, FinishExchange, Answered
<1>9. Elsewhere(s) /\ TasksStand(s) /\ UNCHANGED <<workload, airVars>>
  BY <1>1, <1>6 DEF SpeechTypeOK, requestVars, taskVars, airVars, FinishExchange, Answered, Elsewhere, TasksStand
<1>10. RequestsAgree(s)'
  BY <1>1, <1>7 DEF SpeechTypeOK, requestVars, taskVars, airVars, FinishExchange, Answered, RequestsAgree
<1>11. TasksAgree(s)' /\ Parts(s)' = Parts(s) /\ Aired(s)' = Aired(s)
  BY <1>1, <1>9, StandingTasksAgree
<1>12. RecordAgrees(s)'
  <2>1. exchange[s].status \in {"absent", "streaming"}
    BY <1>1, <1>7 DEF RecordAgrees
  <2> QED
    BY <1>4, <1>5, <1>6, <1>7, <1>9, <1>11, <2>1 DEF RecordAgrees, TasksStand
<1> QED
  BY <1>8, <1>9, <1>10, <1>11, <1>12 DEF Quietly, SessionAgrees

-----------------------------------------------------------------------------
(* The playback thread.                                                    *)

LEMMA LookIsQuiet ==
  ASSUME SpeechInv, NEW s \in Session, Look(s)
  PROVE  Quietly(s)
<1>1. SpeechTypeOK /\ RequestsAgree(s)
  BY DEF SpeechInv, SessionAgrees
<1>2. PICK place \in PlayerPlaces : place = IF player[s].next < pushed[s] THEN "get" ELSE IF finished[s] THEN "exited" ELSE "doze"
  BY DEF PlayerPlaces
<1>3. player' = [player EXCEPT ![s].pc = place]
  BY <1>2 DEF Look
<1>4. /\ player' \in [Session -> [pc : PlayerPlaces, next : 0 .. MaxSentences]]
      /\ player'[s].pc = place /\ player'[s].next = player[s].next
      /\ \A t \in Session \ {s} : player'[t] = player[t]
  BY <1>1, <1>3, PlayerGoes
<1>5. SpeechTypeOK'
  BY <1>1, <1>4 DEF SpeechTypeOK, requestVars, taskVars, airVars, Look, PlayerPlaces
<1>6. Elsewhere(s) /\ TasksStand(s) /\ UNCHANGED <<workload, airVars>>
  BY <1>1, <1>2, <1>4 DEF SpeechTypeOK, requestVars, taskVars, airVars, Look, Is, Elsewhere, TasksStand
<1>7. /\ player[s].next \in Nat /\ pushed[s] \in Nat /\ said[s] \in Nat
      /\ client' = client /\ said' = said /\ pushed' = pushed /\ finished' = finished
      /\ exchange' = exchange /\ workload' = workload
  BY <1>1, SpeechAssumption DEF SpeechTypeOK, requestVars, taskVars, airVars, Look
<1>8. RequestsAgree(s)'
  BY <1>1, <1>2, <1>4, <1>7 DEF Look, Is, RequestsAgree
<1> QED
  BY <1>5, <1>6, <1>7, <1>8, StandingIsQuiet

LEMMA SleepIsQuiet ==
  ASSUME SpeechInv, NEW s \in Session, Sleep(s)
  PROVE  Quietly(s)
<1>1. SpeechTypeOK /\ RequestsAgree(s)
  BY DEF SpeechInv, SessionAgrees
<1>2. PICK place \in PlayerPlaces : place = "asleep"
  BY DEF PlayerPlaces
<1>3. player' = [player EXCEPT ![s].pc = place]
  BY <1>2 DEF Sleep
<1>4. /\ player' \in [Session -> [pc : PlayerPlaces, next : 0 .. MaxSentences]]
      /\ player'[s].pc = place /\ player'[s].next = player[s].next
      /\ \A t \in Session \ {s} : player'[t] = player[t]
  BY <1>1, <1>3, PlayerGoes
<1>5. SpeechTypeOK'
  BY <1>1, <1>4 DEF SpeechTypeOK, requestVars, taskVars, airVars, Sleep, PlayerPlaces
<1>6. Elsewhere(s) /\ TasksStand(s) /\ UNCHANGED <<workload, airVars>>
  BY <1>1, <1>2, <1>4 DEF SpeechTypeOK, requestVars, taskVars, airVars, Sleep, Is, Elsewhere, TasksStand
<1>7. /\ player[s].next \in Nat /\ pushed[s] \in Nat /\ said[s] \in Nat
      /\ client' = client /\ said' = said /\ pushed' = pushed /\ finished' = finished
      /\ exchange' = exchange /\ workload' = workload
  BY <1>1, SpeechAssumption DEF SpeechTypeOK, requestVars, taskVars, airVars, Sleep
<1>8. RequestsAgree(s)'
  BY <1>1, <1>2, <1>4, <1>7 DEF Sleep, Is, RequestsAgree
<1> QED
  BY <1>5, <1>6, <1>7, <1>8, StandingIsQuiet

LEMMA WakeSpuriouslyIsQuiet ==
  ASSUME SpeechInv, NEW s \in Session, WakeSpuriously(s)
  PROVE  Quietly(s)
<1>1. SpeechTypeOK /\ RequestsAgree(s)
  BY DEF SpeechInv, SessionAgrees
<1>2. PICK place \in PlayerPlaces : place = "look"
  BY DEF PlayerPlaces
<1>3. player' = [player EXCEPT ![s].pc = place]
  BY <1>2 DEF WakeSpuriously
<1>4. /\ player' \in [Session -> [pc : PlayerPlaces, next : 0 .. MaxSentences]]
      /\ player'[s].pc = place /\ player'[s].next = player[s].next
      /\ \A t \in Session \ {s} : player'[t] = player[t]
  BY <1>1, <1>3, PlayerGoes
<1>5. SpeechTypeOK'
  BY <1>1, <1>4 DEF SpeechTypeOK, requestVars, taskVars, airVars, WakeSpuriously, PlayerPlaces
<1>6. Elsewhere(s) /\ TasksStand(s) /\ UNCHANGED <<workload, airVars>>
  BY <1>1, <1>2, <1>4 DEF SpeechTypeOK, requestVars, taskVars, airVars, WakeSpuriously, Is, Elsewhere, TasksStand
<1>7. /\ player[s].next \in Nat /\ pushed[s] \in Nat /\ said[s] \in Nat
      /\ client' = client /\ said' = said /\ pushed' = pushed /\ finished' = finished
      /\ exchange' = exchange /\ workload' = workload
  BY <1>1, SpeechAssumption DEF SpeechTypeOK, requestVars, taskVars, airVars, WakeSpuriously
<1>8. RequestsAgree(s)'
  BY <1>1, <1>2, <1>4, <1>7 DEF WakeSpuriously, Is, RequestsAgree
<1> QED
  BY <1>5, <1>6, <1>7, <1>8, StandingIsQuiet

LEMMA GetThrowsIsQuiet ==
  ASSUME SpeechInv, NEW s \in Session, GetThrows(s)
  PROVE  Quietly(s)
<1>1. SpeechTypeOK /\ RequestsAgree(s)
  BY DEF SpeechInv, SessionAgrees
<1>2. SpeechTypeOK'
  BY <1>1 DEF SpeechTypeOK, requestVars, taskVars, airVars, GetThrows
<1>3. Elsewhere(s) /\ TasksStand(s) /\ UNCHANGED <<workload, airVars>>
  BY DEF requestVars, taskVars, airVars, GetThrows, Elsewhere, TasksStand
<1>4. RequestsAgree(s)' /\ exchange' = exchange /\ client' = client
  BY <1>1 DEF requestVars, GetThrows, RequestsAgree
<1> QED
  BY <1>2, <1>3, <1>4, StandingIsQuiet

LEMMA GetIsQuiet ==
  ASSUME SpeechInv, NEW s \in Session, Get(s)
  PROVE  Quietly(s)
<1>1. SpeechTypeOK /\ RequestsAgree(s) /\ TasksAgree(s) /\ RecordAgrees(s)
  BY DEF SpeechInv, SessionAgrees
<1>2. PICK place \in {"air", "note"} : place = IF TaskAt(s, Current(s), "ok") THEN "air" ELSE "note"
  OBVIOUS
<1>3. player' = [player EXCEPT ![s].pc = place] /\ place \in PlayerPlaces
  BY <1>2 DEF Get, PlayerPlaces
<1>4. /\ player' \in [Session -> [pc : PlayerPlaces, next : 0 .. MaxSentences]]
      /\ player'[s].pc = place /\ player'[s].next = player[s].next
      /\ \A t \in Session \ {s} : player'[t] = player[t]
  BY <1>1, <1>3, PlayerGoes
<1>5. SpeechTypeOK'
  BY <1>1, <1>4 DEF SpeechTypeOK, requestVars, taskVars, airVars, Get, PlayerPlaces
<1>6. Elsewhere(s) /\ UNCHANGED <<workload, airVars>>
  BY <1>1, <1>4 DEF SpeechTypeOK, requestVars, taskVars, airVars, Get, Elsewhere
<1>7. /\ player[s].next \in Nat /\ pushed[s] \in Nat /\ said[s] \in Nat
      /\ client' = client /\ said' = said /\ pushed' = pushed /\ finished' = finished
      /\ exchange' = exchange /\ workload' = workload /\ task' = task /\ wavs' = wavs /\ outcomes' = outcomes
      /\ player[s].pc = "get" /\ task[s][Current(s)] \in {"ok", "failed"}
  BY <1>1, SpeechAssumption DEF SpeechTypeOK, requestVars, taskVars, Get, Is
<1>8. RequestsAgree(s)'
  BY <1>1, <1>2, <1>4, <1>7 DEF RequestsAgree
<1>9. Parts(s)' = Parts(s) /\ Current(s)' = Current(s)
  BY <1>4, <1>7 DEF Parts, Current
<1>10. TasksAgree(s)'
  BY <1>1, <1>2, <1>4, <1>7, <1>9 DEF TasksAgree, TaskAt
<1>11. Aired(s)' = Aired(s)
  BY <1>2, <1>4, <1>7, <1>9 DEF Aired, TaskAt
<1>12. RecordAgrees(s)'
  BY <1>1, <1>7, <1>9 DEF RecordAgrees
<1> QED
  BY <1>5, <1>6, <1>8, <1>10, <1>11, <1>12 DEF Quietly, SessionAgrees

LEMMA NoteIsQuiet ==
  ASSUME SpeechInv, NEW s \in Session, Note(s)
  PROVE  Quietly(s)
<1>1. SpeechTypeOK /\ RequestsAgree(s) /\ TasksAgree(s) /\ RecordAgrees(s)
  BY DEF SpeechInv, SessionAgrees
<1>2. PICK ok \in BOOLEAN : ok <=> task[s][Current(s)] = "ok"
  OBVIOUS
<1>3. PICK n : n = Current(s)
  OBVIOUS
<1>4. /\ player[s].pc = "note" /\ player[s].next \in Nat /\ pushed[s] \in 0 .. MaxSentences /\ said[s] \in Nat
      /\ MaxSentences \in Nat
      /\ n = player[s].next + 1 /\ n <= pushed[s]
      /\ task[s][n] = IF ok THEN "ok" ELSE "failed"
      /\ DOMAIN outcomes[s] = 1 .. player[s].next /\ outcomes[s] \in Seq(BOOLEAN) /\ Len(outcomes[s]) = player[s].next
  BY <1>1, <1>2, <1>3, PartsTyped, SpeechAssumption DEF SpeechTypeOK, RequestsAgree, TasksAgree, Note, Is, Current
<1>5. PICK o : o = Append(outcomes[s], ok)
  OBVIOUS
<1>6. /\ o \in Seq(BOOLEAN) /\ Len(o) = n /\ DOMAIN o = 1 .. n
      /\ o[n] = ok /\ \A i \in 1 .. player[s].next : o[i] = outcomes[s][i]
  BY <1>4, <1>5, AppendProperties, LenProperties
<1>7. /\ outcomes' \in [Session -> Seq(BOOLEAN)] /\ outcomes'[s] = o
      /\ \A t \in Session \ {s} : outcomes'[t] = outcomes[t]
  <2>1. (TaskAt(s, Current(s), "ok")) = ok
    BY <1>2 DEF TaskAt
  <2>2. outcomes' = [outcomes EXCEPT ![s] = o]
    BY <1>5, <2>1 DEF Note
  <2> QED
    BY <1>1, <1>6, <2>2 DEF SpeechTypeOK
<1>8. PICK p : p = [pc |-> "look", next |-> n]
  OBVIOUS
<1>9. /\ p \in [pc : PlayerPlaces, next : 0 .. MaxSentences] /\ p.pc = "look" /\ p.next = n
  BY <1>4, <1>8 DEF PlayerPlaces
<1>10. /\ player' \in [Session -> [pc : PlayerPlaces, next : 0 .. MaxSentences]]
       /\ player'[s] = p
       /\ \A t \in Session \ {s} : player'[t] = player[t]
  BY <1>1, <1>3, <1>8, <1>9 DEF SpeechTypeOK, PlayerPlaces, Note
<1>11. SpeechTypeOK'
  BY <1>1, <1>7, <1>10 DEF SpeechTypeOK, requestVars, taskVars, airVars, Note, PlayerPlaces
<1>12. Elsewhere(s) /\ UNCHANGED <<workload, airVars>>
  BY <1>1, <1>7, <1>10 DEF SpeechTypeOK, requestVars, taskVars, airVars, Note, Elsewhere
<1>13. /\ client' = client /\ said' = said /\ pushed' = pushed /\ finished' = finished
       /\ exchange' = exchange /\ workload' = workload /\ task' = task /\ wavs' = wavs
  BY DEF requestVars, taskVars, Note
<1>14. RequestsAgree(s)'
  BY <1>1, <1>4, <1>9, <1>10, <1>13 DEF RequestsAgree
<1>15. TasksAgree(s)'
  <2>1. \A i \in 1 .. n : task[s][i] = IF o[i] THEN "ok" ELSE "failed"
    <3>1. \A i \in 1 .. n : i = n \/ i \in 1 .. player[s].next
      BY <1>4
    <3>2. \A i \in 1 .. player[s].next : task[s][i] = IF outcomes[s][i] THEN "ok" ELSE "failed"
      BY <1>1, <1>4 DEF TasksAgree
    <3> QED
      BY <1>4, <1>6, <3>1, <3>2
  <2> QED
    BY <1>1, <1>6, <1>7, <1>9, <1>10, <1>13, <2>1 DEF TasksAgree
<1>16. Aired(s)' = Aired(s)
  <2>1. Aired(s) = {i \in 1 .. player[s].next : outcomes[s][i]} \cup {i \in {n} : ok}
    BY <1>3, <1>4 DEF Aired, Parts
  <2>2. Aired(s)' = {i \in 1 .. n : o[i]}
    BY <1>6, <1>7, <1>9, <1>10 DEF Aired, Parts
  <2>3. 1 .. n = (1 .. player[s].next) \cup {n}
    BY <1>4
  <2> QED
    BY <1>4, <1>6, <2>1, <2>2, <2>3
<1>17. RecordAgrees(s)'
  <2>1. exchange[s].status \in {"absent", "streaming"}
    BY <1>1, <1>4 DEF RecordAgrees, RequestsAgree
  <2> QED
    BY <1>13, <2>1 DEF RecordAgrees
<1> QED
  BY <1>11, <1>12, <1>14, <1>15, <1>16, <1>17 DEF Quietly, SessionAgrees

-----------------------------------------------------------------------------
(* The tasks.                                                              *)

\* Promises are made for sentences of the session only.
PromisesTyped == offsets' \in [Session -> SUBSET Number] /\ ids' \in [Session -> SUBSET Number]

LEMMA TaskIsQuiet ==
  ASSUME SpeechInv, NEW s \in Session, NEW n \in Number,
         NEW place \in {"wrap", "build", "publish", "ok", "failed", "threw"},
         task[s][n] \in {"ask", "wrap", "build", "publish"},
         Goes(s, n, place), Only(s, n), PromisesTyped,
         \/ wavs' = wavs
         \/ wavs' = [wavs EXCEPT ![s] = @ \cup {n}],
         place \in {"build", "publish", "ok"} => n \in wavs'[s]
  PROVE  Quietly(s)
<1>1. SpeechTypeOK /\ RequestsAgree(s) /\ TasksAgree(s) /\ RecordAgrees(s)
  BY DEF SpeechInv, SessionAgrees
<1>2. PICK f : f = [task[s] EXCEPT ![n] = place]
  OBVIOUS
<1>3. /\ f \in [Number -> {"none", "ask", "wrap", "build", "publish"} \cup Ended]
      /\ f[n] = place /\ \A m \in Number \ {n} : f[m] = task[s][m]
      /\ task' = [task EXCEPT ![s] = f]
  BY <1>1, <1>2 DEF SpeechTypeOK, Goes, Ended
<1>4. /\ task' \in [Session -> [Number -> {"none", "ask", "wrap", "build", "publish"} \cup Ended]]
      /\ task'[s] = f /\ \A t \in Session \ {s} : task'[t] = task[t]
  BY <1>1, <1>3 DEF SpeechTypeOK
<1>5. /\ wavs' \in [Session -> SUBSET Number]
      /\ wavs[s] \subseteq wavs'[s] /\ \A t \in Session \ {s} : wavs'[t] = wavs[t]
  <2>1. CASE wavs' = wavs
    BY <1>1, <2>1 DEF SpeechTypeOK
  <2>2. CASE wavs' = [wavs EXCEPT ![s] = @ \cup {n}]
    <3>1. PICK w : w = wavs[s] \cup {n}
      OBVIOUS
    <3>2. w \in SUBSET Number /\ wavs[s] \subseteq w
      BY <1>1, <3>1 DEF SpeechTypeOK
    <3> QED
      BY <1>1, <2>2, <3>1, <3>2 DEF SpeechTypeOK
  <2> QED
    BY <2>1, <2>2
<1>6. SpeechTypeOK'
  BY <1>1, <1>4, <1>5 DEF SpeechTypeOK, requestVars, airVars, Only, PromisesTyped
<1>7. Elsewhere(s) /\ UNCHANGED <<workload, airVars>>
  BY <1>4, <1>5 DEF requestVars, airVars, Only, Elsewhere
<1>8. /\ client' = client /\ said' = said /\ pushed' = pushed /\ finished' = finished /\ player' = player
      /\ exchange' = exchange /\ workload' = workload /\ outcomes' = outcomes
  BY DEF requestVars, Only
<1>9. RequestsAgree(s)'
  BY <1>1, <1>8 DEF RequestsAgree
<1>10. Parts(s)' = Parts(s) /\ Current(s)' = Current(s)
  BY <1>8 DEF Parts, Current
<1>11. /\ \A m \in DOMAIN outcomes[s] : m # n
       /\ player[s].pc \in {"air", "note"} => Current(s) # n
  BY <1>1 DEF TasksAgree
<1>12. /\ \A m \in DOMAIN outcomes[s] : m \in Number
       /\ player[s].pc \in {"air", "note"} => Current(s) \in Number
  <2>1. /\ DOMAIN outcomes[s] = 1 .. player[s].next /\ player[s].next \in 0 .. MaxSentences
        /\ pushed[s] \in 0 .. MaxSentences /\ MaxSentences \in Nat
        /\ player[s].pc \in {"get", "air", "note"} => player[s].next < pushed[s]
    BY <1>1, PartsTyped, SpeechAssumption DEF SpeechTypeOK, RequestsAgree
  <2> QED
    BY <2>1 DEF Number, Current
<1>13. TasksAgree(s)'
  <2>1. \A m \in Number : /\ f[m] = "none" <=> m > said[s]
                          /\ f[m] \in {"build", "publish", "ok"} => m \in wavs'[s]
    <3>1. ~(n > said[s])
      BY <1>1 DEF TasksAgree
    <3> QED
      BY <1>1, <1>3, <1>5, <3>1 DEF TasksAgree
  <2> QED
    BY <1>1, <1>3, <1>4, <1>8, <1>10, <1>11, <1>12, <2>1 DEF TasksAgree
<1>14. Aired(s)' = Aired(s)
  BY <1>3, <1>4, <1>8, <1>10, <1>11, <1>12 DEF Aired
<1>15. RecordAgrees(s)'
  BY <1>1, <1>8, <1>10 DEF RecordAgrees
<1> QED
  BY <1>6, <1>7, <1>9, <1>13, <1>14, <1>15 DEF Quietly, SessionAgrees

LEMMA TaskStepIsQuiet ==
  ASSUME SpeechInv, NEW s \in Session, NEW n \in Number, TaskStep(s, n)
  PROVE  Quietly(s)
<1>1. SpeechTypeOK /\ TasksAgree(s)
  BY DEF SpeechInv, SessionAgrees
<1>2. CASE Speak(s, n)
  BY <1>1, <1>2, TaskIsQuiet DEF Speak, Asks, TaskAt, PromisesTyped, SpeechTypeOK
<1>3. CASE SpeakFails(s, n)
  <2>1. PromisesTyped
    BY <1>1, <1>3 DEF SpeakFails, PromisesTyped, SpeechTypeOK
  <2> QED
    BY <1>1, <1>3, <2>1, TaskIsQuiet DEF SpeakFails, Asks, TaskAt
<1>4. CASE Wrap(s, n)
  <2>1. PromisesTyped /\ n \in wavs'[s]
    BY <1>1, <1>4 DEF Wrap, PromisesTyped, SpeechTypeOK
  <2> QED
    BY <1>1, <1>4, <2>1, TaskIsQuiet DEF Wrap, TaskAt
<1>5. CASE WrapFails(s, n)
  <2>1. PromisesTyped
    BY <1>1, <1>5 DEF WrapFails, PromisesTyped, SpeechTypeOK
  <2> QED
    BY <1>1, <1>5, <2>1, TaskIsQuiet DEF WrapFails, TaskAt
<1>6. CASE WrapThrows(s, n)
  BY <1>1, <1>6, TaskIsQuiet DEF WrapThrows, TaskAt, PromisesTyped, SpeechTypeOK
<1>7. CASE Build(s, n)
  <2>1. PromisesTyped /\ n \in wavs[s]
    BY <1>1, <1>7 DEF Build, TaskAt, PromisesTyped, SpeechTypeOK, TasksAgree
  <2> QED
    BY <1>1, <1>7, <2>1, TaskIsQuiet DEF Build, TaskAt
<1>8. CASE Publish(s, n)
  <2>1. PromisesTyped /\ n \in wavs[s]
    BY <1>1, <1>8 DEF Publish, TaskAt, PromisesTyped, SpeechTypeOK, TasksAgree
  <2> QED
    BY <1>1, <1>8, <2>1, TaskIsQuiet DEF Publish, TaskAt
<1> QED
  BY <1>2, <1>3, <1>4, <1>5, <1>6, <1>7, <1>8 DEF TaskStep

-----------------------------------------------------------------------------
(* The universe.                                                           *)

\* What is placed is a sentence, and whoever plays or waits has a speaker.
LEMMA AirTyped ==
  ASSUME SpeechTypeOK
  PROVE  /\ heard \in Seq(Sentence) /\ queue \in Seq(Sentence) /\ air \in Sentence \cup {Silence, Other}
         /\ Range(heard) \subseteq Sentence /\ Range(queue) \subseteq Sentence /\ Sounding \subseteq Sentence
         /\ Sounding = IF air \in Sentence THEN {air} ELSE {}
         /\ \A x \in Sentence : /\ x.session \in Session /\ x.number \in Number
                                /\ x = [session |-> x.session, number |-> x.number]
                                /\ Speaker(x) = {x.session}
<1>1. heard \in Seq(Sentence) /\ queue \in Seq(Sentence) /\ air \in Sentence \cup {Silence, Other}
  BY DEF SpeechTypeOK
<1>2. Range(heard) \subseteq Sentence /\ Range(queue) \subseteq Sentence
  BY <1>1, RangeTyped
<1>3. Sounding \subseteq Sentence /\ Sounding = IF air \in Sentence THEN {air} ELSE {}
  BY DEF Sounding
<1>4. \A x \in Sentence : /\ x.session \in Session /\ x.number \in Number
                          /\ x = [session |-> x.session, number |-> x.number]
  BY DEF Sentence
<1>5. \A x \in Sentence : Speaker(x) = {x.session}
  BY DEF Speaker
<1> QED
  BY <1>1, <1>2, <1>3, <1>4, <1>5

\* Steps of the universe move no session on.
LEMMA AirOnlyKeeps ==
  ASSUME SpeechInv, AirOnly, air' \in Sentence \cup {Silence, Other},
         queue' \in Seq(Sentence), heard' \in Seq(Sentence), disturbed' \subseteq Session
  PROVE  SpeechTypeOK' /\ \A s \in Session : SessionAgrees(s)' /\ Aired(s)' = Aired(s)
<1>1. SpeechTypeOK /\ \A s \in Session : SessionAgrees(s)
  BY DEF SpeechInv
<1>2. SpeechTypeOK'
  BY <1>1 DEF SpeechTypeOK, AirOnly, requestVars, taskVars
<1>3. ASSUME NEW s \in Session PROVE SessionAgrees(s)' /\ Aired(s)' = Aired(s)
  <2>1. Parts(s)' = Parts(s) /\ Current(s)' = Current(s)
    BY DEF AirOnly, Parts, Current
  <2>2. Aired(s)' = Aired(s)
    BY <2>1 DEF AirOnly, Aired, taskVars
  <2>3. RequestsAgree(s)'
    BY <1>1 DEF AirOnly, SessionAgrees, RequestsAgree, requestVars
  <2>4. TasksAgree(s)'
    BY <1>1, <2>1 DEF AirOnly, SessionAgrees, TasksAgree, requestVars, taskVars
  <2>5. RecordAgrees(s)'
    BY <1>1, <2>1 DEF AirOnly, SessionAgrees, RecordAgrees, requestVars
  <2> QED
    BY <2>2, <2>3, <2>4, <2>5 DEF SessionAgrees
<1> QED
  BY <1>2, <1>3

\* Nothing is added to what is placed, and whose sentence is lost is disturbed.
LEMMA PlacedShrinks ==
  ASSUME SpeechInv, \A s \in Session : Aired(s)' = Aired(s), Placed' \subseteq Placed,
         disturbed \subseteq disturbed',
         \A x \in Placed \ Placed' : x.session \in disturbed'
  PROVE  PlacedIsAired'
<1>1. Placed \subseteq Sentence
  BY AirTyped DEF SpeechInv, Placed
<1>2. \A x \in Placed : x.session \in Session
  BY <1>1, AirTyped DEF SpeechInv
<1>3. \A s, n : [session |-> s, number |-> n].session = s
  OBVIOUS
<1> QED
  BY <1>2, <1>3 DEF SpeechInv, PlacedIsAired

LEMMA AirEndsKeeps ==
  ASSUME SpeechInv, AirEnds
  PROVE  SpeechInv'
<1>1. /\ SpeechTypeOK /\ InTurn /\ PlacedIsAired /\ disturbed \subseteq Session
  BY DEF SpeechInv, SpeechTypeOK
<1>2. /\ heard \in Seq(Sentence) /\ queue \in Seq(Sentence) /\ air \in Sentence \cup {Silence, Other}
      /\ Range(heard) \subseteq Sentence /\ Range(queue) \subseteq Sentence /\ Sounding \subseteq Sentence
      /\ Sounding = IF air \in Sentence THEN {air} ELSE {}
  BY <1>1, AirTyped
<1>3. heard' \in Seq(Sentence) /\ Range(heard') = Range(heard) \cup Sounding /\ Ordered(heard')
  <2>1. CASE air \in Sentence
    <3>1. heard' = Append(heard, air) /\ Sounding = {air}
      BY <1>2, <2>1 DEF AirEnds, Heard
    <3>2. heard' \in Seq(Sentence)
      BY <1>2, <2>1, <3>1, AppendProperties
    <3>3. Ordered(heard')
      BY <1>1, <1>2, <2>1, <3>1, OrderedAppend DEF InTurn
    <3> QED
      BY <1>2, <2>1, <3>1, <3>2, <3>3, RangeOfAppend
  <2>2. CASE air \notin Sentence
    <3>1. heard' = heard /\ Sounding = {}
      BY <1>2, <2>2 DEF AirEnds, Heard
    <3> QED
      BY <1>1, <1>2, <3>1 DEF InTurn
  <2> QED
    BY <2>1, <2>2
<1>4. CASE queue = <<>>
  <2>1. air' = Silence /\ queue' = queue /\ disturbed' = disturbed /\ AirOnly
    BY <1>4 DEF AirEnds
  <2>2. SpeechTypeOK' /\ \A s \in Session : SessionAgrees(s)' /\ Aired(s)' = Aired(s)
    BY <1>1, <1>2, <1>3, <2>1, AirOnlyKeeps
  <2>3. Sounding' = {} /\ Placed' = Placed
    BY <1>3, <2>1, SpeechAssumption DEF Sounding, Placed
  <2>4. InTurn'
    BY <1>1, <1>3, <2>1, <2>3 DEF InTurn, Before
  <2>5. PlacedIsAired'
    BY <2>1, <2>2, <2>3, PlacedShrinks
  <2> QED
    BY <2>2, <2>4, <2>5 DEF SpeechInv
<1>5. CASE queue # <<>>
  <2>1. /\ Head(queue) \in Sentence /\ Tail(queue) \in Seq(Sentence)
        /\ Range(queue) = {Head(queue)} \cup Range(Tail(queue))
        /\ Ordered(Tail(queue)) /\ Before({Head(queue)}, Range(Tail(queue)))
    BY <1>1, <1>2, <1>5, RangeOfTail, OrderedTail DEF InTurn
  <2>2. Speaker(Head(queue)) = {Head(queue).session} /\ Head(queue).session \in Session
    BY <1>1, <2>1, AirTyped
  <2>3. /\ queue' = Tail(queue) /\ AirOnly
        /\ \/ air' = Head(queue) /\ disturbed' = disturbed
           \/ air' = Silence /\ disturbed' = disturbed \cup {Head(queue).session}
    BY <1>5, <2>2 DEF AirEnds
  <2>4. SpeechTypeOK' /\ \A s \in Session : SessionAgrees(s)' /\ Aired(s)' = Aired(s)
    BY <1>1, <1>3, <2>1, <2>2, <2>3, AirOnlyKeeps
  <2>5. \/ Sounding' = {Head(queue)} /\ disturbed' = disturbed
        \/ Sounding' = {} /\ Head(queue).session \in disturbed'
    BY <2>1, <2>3, SpeechAssumption DEF Sounding
  <2>6. /\ Placed' \subseteq Placed /\ disturbed \subseteq disturbed'
        /\ \A x \in Placed \ Placed' : x.session \in disturbed'
    BY <1>3, <2>1, <2>3, <2>5 DEF Placed
  <2>7. InTurn'
    <3>1. Ordered(heard)' /\ Ordered(queue)'
      BY <1>3, <2>1, <2>3
    <3>2. /\ Before(Range(heard'), Range(queue))
          /\ Sounding' \subseteq {Head(queue)}
          /\ Range(queue') = Range(Tail(queue)) /\ Range(queue') \subseteq Range(queue)
      BY <1>1, <1>3, <2>1, <2>3, <2>5 DEF InTurn, Before
    <3>3. /\ Before(Range(heard'), Sounding') /\ Before(Range(heard'), Range(queue'))
          /\ Before(Sounding', Range(queue'))
      BY <2>1, <3>2 DEF Before
    <3> QED
      BY <3>1, <3>3 DEF InTurn
  <2>8. PlacedIsAired'
    BY <2>4, <2>6, PlacedShrinks
  <2> QED
    BY <2>4, <2>7, <2>8 DEF SpeechInv
<1> QED
  BY <1>4, <1>5

LEMMA AirAbortsKeeps ==
  ASSUME SpeechInv, AirAborts
  PROVE  SpeechInv'
<1>1. /\ SpeechTypeOK /\ InTurn /\ PlacedIsAired /\ disturbed \subseteq Session
  BY DEF SpeechInv, SpeechTypeOK
<1>2. /\ heard \in Seq(Sentence)
      /\ Range(heard) \subseteq Sentence /\ Range(queue) \subseteq Sentence /\ Sounding \subseteq Sentence
      /\ \A x \in Sentence : Speaker(x) = {x.session} /\ x.session \in Session
  BY <1>1, AirTyped
<1>3. /\ air' = Silence /\ queue' = <<>> /\ heard' = heard /\ AirOnly
      /\ disturbed' = disturbed \cup Speaker(air) \cup UNION {Speaker(x) : x \in Range(queue)}
  BY DEF AirAborts
<1>4. \A x : Speaker(x) \subseteq Session
  BY DEF Speaker, Sentence
<1>5. disturbed' \subseteq Session
  BY <1>1, <1>3, <1>4
<1>6. queue' \in Seq(Sentence) /\ Range(queue') = {} /\ Ordered(queue')
  BY <1>3 DEF Range, Ordered
<1>7. SpeechTypeOK' /\ \A s \in Session : SessionAgrees(s)' /\ Aired(s)' = Aired(s)
  BY <1>2, <1>3, <1>5, <1>6, AirOnlyKeeps
<1>8. Sounding' = {} /\ Placed' = Range(heard)
  BY <1>3, <1>6, SpeechAssumption DEF Sounding, Placed
<1>9. InTurn'
  BY <1>1, <1>3, <1>6, <1>8 DEF InTurn, Before
<1>10. \A x \in Sounding \cup Range(queue) : x.session \in disturbed'
  BY <1>2, <1>3 DEF Sounding
<1>11. PlacedIsAired'
  <2>1. Placed' \subseteq Placed /\ disturbed \subseteq disturbed' /\ Placed \ Placed' \subseteq Sounding \cup Range(queue)
    BY <1>3, <1>8 DEF Placed
  <2> QED
    BY <1>7, <1>10, <2>1, PlacedShrinks
<1> QED
  BY <1>7, <1>9, <1>11 DEF SpeechInv

LEMMA AirTakenKeeps ==
  ASSUME SpeechInv, AirTaken
  PROVE  SpeechInv'
<1>1. /\ SpeechTypeOK /\ InTurn /\ PlacedIsAired /\ disturbed \subseteq Session
  BY DEF SpeechInv, SpeechTypeOK
<1>2. /\ heard \in Seq(Sentence) /\ queue \in Seq(Sentence) /\ Sounding \subseteq Sentence
      /\ \A x \in Sentence : Speaker(x) = {x.session} /\ x.session \in Session
  BY <1>1, AirTyped
<1>3. /\ air' \in {Silence, Other} /\ queue' = queue /\ heard' = heard /\ AirOnly
      /\ disturbed' = disturbed \cup Speaker(air)
  BY DEF AirTaken
<1>4. disturbed' \subseteq Session
  BY <1>1, <1>3 DEF Speaker, Sentence
<1>5. SpeechTypeOK' /\ \A s \in Session : SessionAgrees(s)' /\ Aired(s)' = Aired(s)
  BY <1>2, <1>3, <1>4, AirOnlyKeeps
<1>6. Sounding' = {} /\ Placed' = Range(heard) \cup Range(queue)
  BY <1>3, SpeechAssumption DEF Sounding, Placed
<1>7. InTurn'
  BY <1>1, <1>3, <1>6 DEF InTurn, Before
<1>8. \A x \in Sounding : x.session \in disturbed'
  BY <1>2, <1>3 DEF Sounding
<1>9. PlacedIsAired'
  <2>1. Placed' \subseteq Placed /\ disturbed \subseteq disturbed' /\ Placed \ Placed' \subseteq Sounding
    BY <1>3, <1>6 DEF Placed
  <2> QED
    BY <1>5, <1>8, <2>1, PlacedShrinks
<1> QED
  BY <1>5, <1>7, <1>9 DEF SpeechInv

-----------------------------------------------------------------------------
(* A sentence is handed to the universe.                                   *)

\* The playback thread of session s is done with the sentence it has in hand.
HandsOver(s) ==
  /\ Is(s, "air") /\ player' = [player EXCEPT ![s].pc = "note"]
  /\ UNCHANGED <<workload, up, requestVars, taskVars, outcomes, exchange>>

LEMMA HandingOver ==
  ASSUME SpeechInv, NEW s \in Session, HandsOver(s), air' \in Sentence \cup {Silence, Other},
         queue' \in Seq(Sentence), heard' \in Seq(Sentence), disturbed' \subseteq Session
  PROVE  /\ SpeechTypeOK' /\ \A t \in Session : SessionAgrees(t)'
         /\ \A t \in Session \ {s} : Aired(t)' = Aired(t)
         /\ Aired(s)' = Aired(s) \cup {Current(s)}
         /\ Current(s) \in Number /\ \A n \in Aired(s) : n \in Number /\ n < Current(s)
<1>1. SpeechTypeOK /\ RequestsAgree(s) /\ TasksAgree(s) /\ RecordAgrees(s)
  BY DEF SpeechInv, SessionAgrees
<1>2. /\ player' \in [Session -> [pc : PlayerPlaces, next : 0 .. MaxSentences]]
      /\ player'[s].pc = "note" /\ player'[s].next = player[s].next
      /\ \A t \in Session \ {s} : player'[t] = player[t]
  <2>1. "note" \in PlayerPlaces
    BY DEF PlayerPlaces
  <2> QED
    BY <1>1, <2>1, PlayerGoes DEF HandsOver
<1>3. /\ client' = client /\ said' = said /\ pushed' = pushed /\ finished' = finished
      /\ exchange' = exchange /\ workload' = workload /\ task' = task /\ wavs' = wavs /\ outcomes' = outcomes
      /\ player[s].pc = "air"
  BY DEF HandsOver, requestVars, taskVars, Is
<1>4. SpeechTypeOK'
  BY <1>1, <1>2 DEF SpeechTypeOK, HandsOver, requestVars, taskVars, PlayerPlaces
<1>5. Elsewhere(s)
  BY <1>2, <1>3 DEF Elsewhere
<1>6. \A t \in Session \ {s} : SessionAgrees(t)' /\ Aired(t)' = Aired(t)
  BY <1>3, <1>5, OthersAgree DEF SpeechInv
<1>7. Parts(s)' = Parts(s) /\ Current(s)' = Current(s)
  BY <1>2, <1>3 DEF Parts, Current
<1>8. task[s][Current(s)] = "ok"
  BY <1>1, <1>3 DEF TasksAgree
<1>9. RequestsAgree(s)'
  BY <1>1, <1>2, <1>3 DEF RequestsAgree
<1>10. TasksAgree(s)'
  BY <1>1, <1>2, <1>3, <1>7, <1>8 DEF TasksAgree
<1>11. RecordAgrees(s)'
  BY <1>1, <1>3, <1>7 DEF RecordAgrees
<1>12. Aired(s) = Parts(s)
  BY <1>3 DEF Aired
<1>13. Aired(s)' = Parts(s) \cup {Current(s)}
  BY <1>2, <1>3, <1>7, <1>8 DEF Aired
<1>14. /\ Parts(s) \subseteq 1 .. player[s].next /\ player[s].next \in 0 .. MaxSentences
       /\ player[s].next < pushed[s] /\ pushed[s] \in 0 .. MaxSentences /\ MaxSentences \in Nat
  BY <1>1, <1>3, PartsTyped, SpeechAssumption DEF SpeechTypeOK, RequestsAgree
<1>15. Current(s) \in Number /\ \A n \in Aired(s) : n \in Number /\ n < Current(s)
  BY <1>12, <1>14 DEF Current, Number
<1> QED
  BY <1>4, <1>6, <1>9, <1>10, <1>11, <1>12, <1>13, <1>15 DEF SessionAgrees

LEMMA InterruptKeeps ==
  ASSUME SpeechInv, NEW s \in Session, Interrupt(s)
  PROVE  SpeechInv'
<1> DEFINE first == [session |-> s, number |-> 1]
<1>1. /\ SpeechTypeOK /\ InTurn /\ PlacedIsAired /\ disturbed \subseteq Session
  BY DEF SpeechInv, SpeechTypeOK
<1>2. /\ heard \in Seq(Sentence) /\ queue \in Seq(Sentence) /\ air \in Sentence \cup {Silence, Other}
      /\ Range(heard) \subseteq Sentence /\ Range(queue) \subseteq Sentence /\ Sounding \subseteq Sentence
      /\ Sounding = IF air \in Sentence THEN {air} ELSE {}
      /\ \A x \in Sentence : /\ x.session \in Session /\ x.number \in Number
                             /\ x = [session |-> x.session, number |-> x.number]
                             /\ Speaker(x) = {x.session}
  BY <1>1, AirTyped
<1>3. /\ HandsOver(s) /\ Current(s) = 1 /\ queue' = queue /\ heard' = heard
      /\ \/ air' = first /\ disturbed' = disturbed \cup Speaker(air)
         \/ air' = air /\ disturbed' = disturbed \cup {s}
  BY DEF Interrupt, HandsOver, Current
<1>4. Speaker(air) \subseteq Session
  BY DEF Speaker, Sentence
<1>5. 1 \in Number /\ first \in Sentence
  <2>1. Current(s) \in Number
    BY <1>1, <1>3, PartsTyped, SpeechAssumption
       DEF SpeechInv, SessionAgrees, RequestsAgree, SpeechTypeOK, HandsOver, Is, Current, Number
  <2> QED
    BY <1>3, <2>1 DEF Sentence
<1>6. /\ SpeechTypeOK' /\ \A t \in Session : SessionAgrees(t)'
      /\ \A t \in Session \ {s} : Aired(t)' = Aired(t)
      /\ Aired(s)' = Aired(s) \cup {1}
      /\ \A n \in Aired(s) : n \in Number /\ n < 1
  BY <1>1, <1>2, <1>3, <1>4, <1>5, HandingOver
<1>7. Aired(s) = {}
  BY <1>6, SpeechAssumption DEF Number
<1>8. \A x \in Placed : x.session # s
  BY <1>1, <1>7 DEF PlacedIsAired
<1>9. \A x \in Placed : x.session \in Session /\ x = [session |-> x.session, number |-> x.number]
  BY <1>2 DEF Placed
<1>10. \A t \in Session : Aired(t) \subseteq Aired(t)'
  BY <1>6
<1>11. CASE air' = first /\ disturbed' = disturbed \cup Speaker(air)
  <2>1. Sounding' = {first} /\ Placed' = Range(heard) \cup {first} \cup Range(queue)
    BY <1>3, <1>5, <1>11 DEF Sounding, Placed
  <2>2. InTurn'
    <3>1. \A x \in Range(heard) \cup Range(queue) : x.session # first.session
      BY <1>8 DEF Placed
    <3> QED
      BY <1>1, <1>3, <2>1, <3>1 DEF InTurn, Before
  <2>3. \A x \in Placed' : x.number \in Aired(x.session)'
    <3>1. first.number \in Aired(first.session)'
      BY <1>6
    <3>2. \A x \in Placed : x.number \in Aired(x.session)'
      BY <1>1, <1>9, <1>10 DEF PlacedIsAired
    <3> QED
      BY <2>1, <3>1, <3>2 DEF Placed
  <2>4. ASSUME NEW t \in Session \ disturbed', NEW n \in Aired(t)'
        PROVE  [session |-> t, number |-> n] \in Placed'
    <3>1. CASE t = s
      <4>1. n = 1
        BY <1>6, <1>7, <2>4, <3>1
      <4> QED
        BY <2>1, <3>1, <4>1
    <3>2. CASE t # s
      <4>1. PICK x \in Placed : x = [session |-> t, number |-> n]
        BY <1>1, <1>6, <1>11, <2>4, <3>2 DEF PlacedIsAired
      <4>2. x.session = t
        BY <4>1
      <4>3. x \notin Sounding
        BY <1>2, <1>11, <2>4, <4>2
      <4> QED
        BY <2>1, <4>1, <4>3 DEF Placed
    <3> QED
      BY <3>1, <3>2
  <2>5. PlacedIsAired'
    BY <2>3, <2>4 DEF PlacedIsAired
  <2> QED
    BY <1>6, <2>2, <2>5 DEF SpeechInv
<1>12. CASE air' = air /\ disturbed' = disturbed \cup {s}
  <2>1. Sounding' = Sounding /\ Placed' = Placed
    BY <1>3, <1>12 DEF Sounding, Placed
  <2>2. InTurn'
    BY <1>1, <1>3, <2>1 DEF InTurn
  <2>3. PlacedIsAired'
    BY <1>1, <1>6, <1>9, <1>10, <1>12, <2>1 DEF PlacedIsAired
  <2> QED
    BY <1>6, <2>2, <2>3 DEF SpeechInv
<1> QED
  BY <1>3, <1>11, <1>12

LEMMA QueueNextKeeps ==
  ASSUME SpeechInv, NEW s \in Session, QueueNext(s)
  PROVE  SpeechInv'
<1>1. /\ SpeechTypeOK /\ InTurn /\ PlacedIsAired /\ disturbed \subseteq Session
  BY DEF SpeechInv, SpeechTypeOK
<1>2. /\ heard \in Seq(Sentence) /\ queue \in Seq(Sentence) /\ air \in Sentence \cup {Silence, Other}
      /\ Range(heard) \subseteq Sentence /\ Range(queue) \subseteq Sentence /\ Sounding \subseteq Sentence
      /\ \A x \in Sentence : /\ x.session \in Session /\ x.number \in Number
                             /\ x = [session |-> x.session, number |-> x.number]
  BY <1>1, AirTyped
<1>3. PICK x : x = [session |-> s, number |-> Current(s)]
  OBVIOUS
<1>4. /\ HandsOver(s) /\ air' = air /\ heard' = heard /\ disturbed' = disturbed
      /\ queue' = Append(queue, x)
  BY <1>3 DEF QueueNext, HandsOver
<1>5. x \in Sentence /\ x.session = s /\ x.number = Current(s)
  <2>1. Current(s) \in Number
    BY <1>1, <1>4, PartsTyped, SpeechAssumption
       DEF SpeechInv, SessionAgrees, RequestsAgree, SpeechTypeOK, HandsOver, Is, Current, Number
  <2> QED
    BY <1>3, <2>1 DEF Sentence
<1>6. queue' \in Seq(Sentence) /\ Range(queue') = Range(queue) \cup {x}
  BY <1>2, <1>4, <1>5, AppendProperties, RangeOfAppend
<1>7. /\ SpeechTypeOK' /\ \A t \in Session : SessionAgrees(t)'
      /\ \A t \in Session \ {s} : Aired(t)' = Aired(t)
      /\ Aired(s)' = Aired(s) \cup {Current(s)}
      /\ \A n \in Aired(s) : n \in Number /\ n < Current(s)
  BY <1>1, <1>2, <1>4, <1>6, HandingOver
<1>8. Sounding' = Sounding /\ Placed' = Placed \cup {x}
  BY <1>4, <1>6 DEF Sounding, Placed
<1>9. Before(Placed, {x})
  BY <1>1, <1>5, <1>7 DEF PlacedIsAired, Before
<1>10. InTurn'
  <2>1. Before(Range(queue), {x}) /\ Before(Sounding, {x}) /\ Before(Range(heard), {x})
    BY <1>9 DEF Before, Placed
  <2>2. Ordered(queue)'
    BY <1>1, <1>2, <1>4, <1>5, <2>1, OrderedAppend DEF InTurn
  <2>3. Before(Sounding, Range(queue')) /\ Before(Range(heard), Range(queue'))
    BY <1>1, <1>6, <2>1 DEF InTurn, Before
  <2> QED
    BY <1>1, <1>4, <1>8, <2>2, <2>3 DEF InTurn
<1>11. \A t \in Session : Aired(t) \subseteq Aired(t)'
  BY <1>7
<1>12. PlacedIsAired'
  <2>1. \A y \in Placed : y.session \in Session
    BY <1>2 DEF Placed
  <2>2. \A y \in Placed' : y.number \in Aired(y.session)'
    BY <1>1, <1>5, <1>7, <1>8, <1>11, <2>1 DEF PlacedIsAired
  <2>3. \A t \in Session \ disturbed' : \A n \in Aired(t)' : [session |-> t, number |-> n] \in Placed'
    BY <1>1, <1>3, <1>4, <1>7, <1>8 DEF PlacedIsAired
  <2> QED
    BY <2>2, <2>3 DEF PlacedIsAired
<1> QED
  BY <1>7, <1>10, <1>12 DEF SpeechInv

-----------------------------------------------------------------------------
(* The theorems.                                                           *)

LEMMA SpeechInvStarts ==
  ASSUME SpeechInit
  PROVE  SpeechInv
<1>1. SpeechTypeOK
  BY SpeechAssumption DEF SpeechInit, SpeechTypeOK
<1>2. ASSUME NEW s \in Session PROVE SessionAgrees(s) /\ Aired(s) = {}
  <2>1. workload.says[s] \in Nat
    BY <1>1, SpeechAssumption DEF SpeechTypeOK
  <2>2. /\ client[s] = "new" /\ said[s] = 0 /\ pushed[s] = 0 /\ finished[s] = FALSE
        /\ player[s] = [pc |-> "unborn", next |-> 0] /\ \A n \in Number : task[s][n] = "none"
        /\ outcomes[s] = <<>> /\ exchange[s].status = "absent"
    BY DEF SpeechInit
  <2>3. RequestsAgree(s)
    BY <2>1, <2>2 DEF RequestsAgree
  <2>4. TasksAgree(s)
    BY <2>2, SpeechAssumption DEF TasksAgree, Number
  <2>5. RecordAgrees(s) /\ Aired(s) = {}
    BY <2>2 DEF RecordAgrees, Aired, Parts
  <2> QED
    BY <2>3, <2>4, <2>5 DEF SessionAgrees
<1>3. heard = <<>> /\ queue = <<>> /\ air \notin Sentence
  BY SpeechAssumption DEF SpeechInit
<1>4. Range(heard) = {} /\ Range(queue) = {} /\ Sounding = {} /\ Placed = {}
  BY <1>3 DEF Range, Sounding, Placed
<1>5. InTurn
  BY <1>3, <1>4 DEF InTurn, Ordered, Before
<1>6. PlacedIsAired
  BY <1>2, <1>4 DEF PlacedIsAired
<1> QED
  BY <1>1, <1>2, <1>5, <1>6 DEF SpeechInv

LEMMA SpeechInvKept ==
  ASSUME SpeechInv, [SpeechNext]_speechVars
  PROVE  SpeechInv'
<1>1. CASE UNCHANGED speechVars
  <2>1. /\ air' = air /\ queue' = queue /\ heard' = heard /\ disturbed' = disturbed /\ AirOnly
    BY <1>1 DEF speechVars, airVars, AirOnly
  <2>2. SpeechTypeOK /\ InTurn /\ PlacedIsAired
    BY DEF SpeechInv
  <2>3. SpeechTypeOK' /\ \A s \in Session : SessionAgrees(s)' /\ Aired(s)' = Aired(s)
    BY <2>1, <2>2, AirOnlyKeeps DEF SpeechTypeOK
  <2>4. Sounding' = Sounding /\ Placed' = Placed
    BY <2>1 DEF Sounding, Placed
  <2>5. InTurn'
    BY <2>1, <2>2, <2>4 DEF InTurn
  <2>6. PlacedIsAired'
    BY <2>1, <2>3, <2>4, PlacedShrinks
  <2> QED
    BY <2>3, <2>5, <2>6 DEF SpeechInv
<1>2. ASSUME NEW s \in Session, ClientStep(s) PROVE SpeechInv'
  <2>1. Quietly(s)
    BY <1>2, StartIsQuiet, StartFailsIsQuiet, AddTextIsQuiet, PushFutureIsQuiet, WakePlayerIsQuiet,
       FinishEmptyIsQuiet, BeginFinishIsQuiet, NotifyFinishedIsQuiet, FinishExchangeIsQuiet
       DEF ClientStep, Adding, Finishing
  <2> QED
    BY <2>1, QuietStep
<1>3. ASSUME NEW s \in Session, PlayerStep(s) \/ WakeSpuriously(s) PROVE SpeechInv'
  <2>1. Quietly(s) \/ Interrupt(s) \/ QueueNext(s)
    BY <1>3, LookIsQuiet, SleepIsQuiet, WakeSpuriouslyIsQuiet, GetIsQuiet, GetThrowsIsQuiet, NoteIsQuiet
       DEF PlayerStep
  <2> QED
    BY <2>1, QuietStep, InterruptKeeps, QueueNextKeeps
<1>4. ASSUME NEW s \in Session, NEW n \in Number, TaskStep(s, n) PROVE SpeechInv'
  BY <1>4, TaskStepIsQuiet, QuietStep
<1> QED
  BY <1>1, <1>2, <1>3, <1>4, AirEndsKeeps, AirAbortsKeeps, AirTakenKeeps DEF SpeechNext

LEMMA SpeechInvHolds == SpeechSpec => []SpeechInv
<1> QED
  BY SpeechInvStarts, SpeechInvKept, PTL DEF SpeechSpec

\* A session whose record is final has noted every sentence.
LEMMA RecordIsComplete ==
  ASSUME SpeechInv, NEW s \in Session, exchange[s].status \notin {"absent", "streaming"}
  PROVE  /\ player[s].pc = "exited" /\ Len(outcomes[s]) = said[s] /\ said[s] \in Nat
         /\ Parts(s) \subseteq 1 .. said[s] /\ exchange[s].parts = Parts(s) /\ Aired(s) = Parts(s)
         /\ exchange[s].status = "ready" => Cardinality(Parts(s)) = said[s]
<1>1. SpeechTypeOK /\ RequestsAgree(s) /\ TasksAgree(s) /\ RecordAgrees(s)
  BY DEF SpeechInv, SessionAgrees
<1>2. /\ client[s] = "gone" /\ said[s] > 0 /\ player[s].pc = "exited" /\ pushed[s] = said[s]
      /\ player[s].next = said[s] /\ exchange[s].parts = Parts(s)
      /\ exchange[s].status = "ready" => Cardinality(Parts(s)) = said[s]
  BY <1>1, SpeechAssumption DEF RecordAgrees, RequestsAgree, SpeechTypeOK
<1>3. Aired(s) = Parts(s)
  BY <1>2 DEF Aired
<1>4. Parts(s) \subseteq 1 .. said[s]
  BY <1>1, <1>2, PartsTyped
<1>5. Len(outcomes[s]) = said[s] /\ said[s] \in Nat
  BY <1>1, <1>2, SpeechAssumption DEF TasksAgree, SpeechTypeOK
<1> QED
  BY <1>2, <1>3, <1>4, <1>5

LEMMA InvIsConsistent ==
  ASSUME SpeechInv
  PROVE  SpeechConsistent
<1>1. SpeechTypeOK /\ \A s \in Session : RequestsAgree(s) /\ TasksAgree(s) /\ RecordAgrees(s)
  BY DEF SpeechInv, SessionAgrees
<1>2. NobodyOutlivesTheSession
  <2> SUFFICES ASSUME NEW s \in Session, client[s] = "gone"
               PROVE  /\ player[s].pc \in {"unborn", "exited"}
                      /\ \A n \in Number : task[s][n] \in Ended \cup {"none"}
    BY DEF NobodyOutlivesTheSession
  <2>1. /\ RequestsAgree(s) /\ TasksAgree(s) /\ said[s] \in Nat /\ pushed[s] = said[s]
        /\ player[s].next \in Nat /\ MaxSentences \in Nat
    BY <1>1, SpeechAssumption DEF SpeechTypeOK, RequestsAgree
  <2>2. player[s].pc \in {"unborn", "exited"}
    BY <2>1 DEF RequestsAgree
  <2>3. ASSUME NEW n \in Number PROVE task[s][n] \in Ended \cup {"none"}
    <3>1. CASE n > said[s]
      BY <2>1, <3>1 DEF TasksAgree
    <3>2. CASE n <= said[s]
      <4>1. player[s].pc = "exited" /\ player[s].next = said[s]
        BY <2>1, <2>2, <3>2 DEF RequestsAgree, Number
      <4>2. n \in DOMAIN outcomes[s]
        BY <1>1, <2>1, <3>2, <4>1, PartsTyped DEF Number
      <4> QED
        BY <2>1, <4>2 DEF TasksAgree, Ended
    <3> QED
      BY <2>1, <3>1, <3>2 DEF Number
  <2> QED
    BY <2>2, <2>3
<1>3. ExchangeIsTrue
  <2> SUFFICES ASSUME NEW s \in Session, exchange[s].status \notin {"absent", "streaming"}
               PROVE  /\ Len(outcomes[s]) = said[s]
                      /\ exchange[s].parts = Parts(s)
                      /\ \A n \in exchange[s].parts : n \in wavs[s] /\ task[s][n] = "ok"
                      /\ exchange[s].status = "ready" => \A n \in 1 .. said[s] : task[s][n] = "ok"
    BY DEF ExchangeIsTrue
  <2>1. /\ Len(outcomes[s]) = said[s] /\ said[s] \in Nat
        /\ Parts(s) \subseteq 1 .. said[s] /\ exchange[s].parts = Parts(s)
        /\ exchange[s].status = "ready" => Cardinality(Parts(s)) = said[s]
    BY RecordIsComplete
  <2>2. ASSUME NEW n \in Parts(s) PROVE n \in wavs[s] /\ task[s][n] = "ok"
    <3>1. n \in DOMAIN outcomes[s] /\ outcomes[s][n]
      BY DEF Parts
    <3>2. task[s][n] = "ok" /\ n \in Number
      BY <1>1, <3>1, PartsTyped DEF TasksAgree
    <3> QED
      BY <1>1, <3>2 DEF TasksAgree
  <2>3. ASSUME exchange[s].status = "ready" PROVE \A n \in 1 .. said[s] : task[s][n] = "ok"
    <3>1. IsFiniteSet(1 .. said[s]) /\ Cardinality(1 .. said[s]) = said[s]
      BY <2>1, FS_Interval
    <3>2. Parts(s) = 1 .. said[s]
      BY <2>1, <2>3, <3>1, FS_Subset
    <3> QED
      BY <2>2, <3>2
  <2> QED
    BY <2>1, <2>2, <2>3
<1>4. InOrder
  <2>1. /\ heard \in Seq(Sentence) /\ queue \in Seq(Sentence) /\ InTurn
        /\ Sounding = IF air \in Sentence THEN {air} ELSE {}
    BY <1>1, AirTyped DEF SpeechInv
  <2>2. /\ Playing \in Seq(Sentence) /\ Range(Playing) = Sounding /\ Ordered(Playing)
    BY <2>1 DEF Playing, Range, Ordered
  <2>3. /\ heard \o Playing \in Seq(Sentence) /\ Range(heard \o Playing) = Range(heard) \cup Sounding
        /\ Ordered(heard \o Playing)
    <3>1. heard \o Playing \in Seq(Sentence)
      BY <2>1, <2>2, ConcatProperties
    <3>2. Range(heard \o Playing) = Range(heard) \cup Sounding
      BY <2>1, <2>2, RangeOfConcat
    <3>3. Ordered(heard \o Playing)
      BY <2>1, <2>2, OrderedConcat DEF InTurn
    <3> QED
      BY <3>1, <3>2, <3>3
  <2>4. Before(Range(heard \o Playing), Range(queue))
    BY <2>1, <2>3 DEF InTurn, Before
  <2>5. Ordered((heard \o Playing) \o queue)
    BY <2>1, <2>3, <2>4, OrderedConcat DEF InTurn
  <2> QED
    BY <2>5 DEF InOrder
<1> QED
  BY <1>1, <1>2, <1>3, <1>4 DEF SpeechConsistent

(* Whatever fails, in whatever order the tasks of a session end and        *)
(* however many agents speak on a universe: a session that is removed has  *)
(* no thread at work on it, its record names the sentences that were       *)
(* rendered, and no sentence overtakes another of its session.             *)
THEOREM SpeechStaysConsistent == SpeechSpec => []SpeechConsistent
<1>1. SpeechInv => SpeechConsistent
  BY InvIsConsistent
<1> QED
  BY <1>1, SpeechInvHolds, PTL

LEMMA InvIsHeard ==
  ASSUME SpeechInv
  PROVE  HeardIsRecorded
<1> SUFFICES ASSUME NEW s \in Session, exchange[s].status \notin {"absent", "streaming"},
                    s \notin disturbed, NumbersIn(s, Playing \o queue) = {}
             PROVE  NumbersIn(s, heard) = exchange[s].parts /\ Ordered(heard)
  BY DEF HeardIsRecorded
<1>1. Aired(s) = exchange[s].parts
  BY RecordIsComplete
<1>2. /\ heard \in Seq(Sentence) /\ queue \in Seq(Sentence)
      /\ Sounding = IF air \in Sentence THEN {air} ELSE {}
      /\ Ordered(heard) /\ PlacedIsAired
  BY AirTyped DEF SpeechInv, InTurn
<1>3. Playing \in Seq(Sentence) /\ Range(Playing) = Sounding
  BY <1>2 DEF Playing, Range
<1>4. Range(Playing \o queue) = Sounding \cup Range(queue)
  BY <1>2, <1>3, RangeOfConcat
<1>5. \A x \in Sounding \cup Range(queue) : x.session # s
  BY <1>4 DEF NumbersIn
<1>6. \A n \in Aired(s) : [session |-> s, number |-> n] \in Range(heard)
  <2>1. \A n : [session |-> s, number |-> n].session = s
    OBVIOUS
  <2> QED
    BY <1>2, <1>5, <2>1 DEF PlacedIsAired, Placed
<1>7. \A x \in Range(heard) : x.session = s => x.number \in Aired(s)
  BY <1>2 DEF PlacedIsAired, Placed
<1>8. NumbersIn(s, heard) \subseteq Aired(s)
  BY <1>7 DEF NumbersIn
<1>9. Aired(s) \subseteq NumbersIn(s, heard)
  <2>1. ASSUME NEW n \in Aired(s) PROVE n \in NumbersIn(s, heard)
    <3>1. PICK x \in Range(heard) : x = [session |-> s, number |-> n]
      BY <1>6
    <3>2. x.session = s /\ x.number = n
      BY <3>1
    <3> QED
      BY <3>2 DEF NumbersIn
  <2> QED
    BY <2>1
<1> QED
  BY <1>1, <1>2, <1>8, <1>9

(* What the exchange lists was heard, each sentence once and in order, and *)
(* nothing else was, unless somebody interfered.                           *)
THEOREM WhatIsRecordedWasHeard == SpeechSpec => []HeardIsRecorded
<1>1. SpeechInv => HeardIsRecorded
  BY InvIsHeard
<1> QED
  BY <1>1, SpeechInvHolds, PTL

=============================================================================
