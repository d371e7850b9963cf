------------------------------ MODULE Library ------------------------------
(***************************************************************************)
(* The documents in MongoDB, what the server keeps of them in memory, and  *)
(* what its clients are told.                                              *)
(*                                                                         *)
(* A request is a program: the sequence of database calls, cache puts and  *)
(* announcements its handler makes, composed the way the functions call    *)
(* each other.  Threads of the web server and of the jobs run requests one *)
(* step at a time; a step that fails ends its request.  An announcement    *)
(* schedules an event that queues a message for the clients, who fetch     *)
(* what it names.  A restart forgets everything but the documents.         *)
(*                                                                         *)
(* One document stands for every kind.  What a write stores is the number  *)
(* of its request; the number of a stage is its geometry and also its      *)
(* updated_at, so two edits of a stage never share a millisecond.  A fetch *)
(* of a client that leads to a save is the first step of the save, so a    *)
(* thread may be a person who keeps a copy open for an hour.               *)
(***************************************************************************)
EXTENDS Naturals, Sequences, FiniteSets, SequencesExt

CONSTANTS
  Thread,
  Universe,
  Workloads,    \* bound: the kinds of request a behaviour makes, and how many
  MaxRequests,  \* the most requests of any workload
  Unborn,       \* an id that no document has yet
  Deleted,      \* a document that is not, or no longer, there
  None

ASSUME LibraryAssumption ==
  /\ MaxRequests \in Nat
  /\ None \notin Universe /\ None \notin Thread
  /\ Unborn # Deleted

Doc ==
  {"creature", "fixture", "stage", "animation", "storyboard", "playlist", "sound",
   "adHocAnimation", "exchange"}

\* The documents of a fresh id, and of those the ones with a time to live.
Made == {"stage", "storyboard", "adHocAnimation", "exchange"}

Mortal == {"adHocAnimation", "exchange"}

Cached == {"creature", "fixture"}

CacheType ==
  {"Creature", "Fixture", "StageList", "Animation", "StoryboardList", "Playlist", "SoundList",
   "AdHocAnimationList", "AdHocExchangeList", "AdHocSoundList"}

\* The list a client keeps that shows documents of this kind.
ListOf ==
  [creature |-> "Creature", fixture |-> "Fixture", stage |-> "StageList",
   animation |-> "Animation", storyboard |-> "StoryboardList",
   playlist |-> "Playlist", sound |-> "SoundList",
   adHocAnimation |-> "AdHocAnimationList", exchange |-> "AdHocExchangeList"]

\* The first request has the number 2, the stage of Init is 1.
Number == 0 .. MaxRequests + 1

\* "universe" is assigned_universe.  Of an animation, "stamp" is
\* source_stage_updated_at, or 0 where the document names no stage, and
\* "rendered" the geometry its motion is made for, or 0 if it is for none;
\* auxiliary: "mixed" says that its stamp and motion come from two documents.
Document ==
  [content : Number, universe : Universe \cup {None}, stamp : Number, rendered : Number,
   mixed : BOOLEAN]

Blank == [content |-> 0, universe |-> None, stamp |-> 0, rendered |-> 0, mixed |-> FALSE]

-----------------------------------------------------------------------------
(* Programs.                                                               *)

DbUpsertCreature == <<"replace", "cache">>

DbGetCreature == <<"find", "cache">>

\* A list caches what it reads, one document at a time.
DbGetAllCreatures == <<"find", "cache">>

PublishCreature == DbUpsertCreature \o <<"announce">>

RegisterCreature == PublishCreature \o <<"assign">>

UseCreature == <<"lookup">> \o DbGetCreature \o <<"cache">>

DbUpsertFixture == <<"replace", "cache">>

DbGetFixture == <<"find", "cache">>

DbGetAllFixtures == <<"find", "cache">>

PublishFixture == DbUpsertFixture \o <<"announce", "assign">>

\* The document of the request does not name a universe.
PublishFixtureKeeping == <<"backfill">> \o PublishFixture

\* Mutant of SetFixtureUniverse: assignments do not wait for each other.
SetFixtureUniverseUnlocked == <<"update", "announce", "assign">> \o DbGetFixture

SetFixtureUniverse ==
  <<"lock", "update", "announce", "assign">> \o DbGetFixture \o <<"unlock">>

DeleteFixture == <<"delete", "uncache", "announce", "assign">>

UseFixture == <<"lookup">> \o DbGetFixture \o <<"cache">>

DbUpsertStage == <<"replace">>

CreateStage == DbUpsertStage \o <<"announce">>

UpdateStage == <<"check">> \o DbUpsertStage \o <<"announce">>

DeleteStage == <<"delete", "announce">>

DbUpsertAnimation == <<"carry", "replace">>

RenderAnimation == <<"readStage">> \o DbUpsertAnimation \o <<"announce">>

RerenderAnimation == <<"find">> \o RenderAnimation

\* A client puts back a copy, with its provenance or without.
SaveAnimation == <<"find">> \o DbUpsertAnimation \o <<"announce">>

SaveAnimationBare == SaveAnimation

LipSyncAnimation == <<"find">> \o DbUpsertAnimation \o <<"announce">>

\* The service announces through the event loop, the controller at once.
DeleteAnimation == <<"check", "delete", "announce", "announce">>

DbUpsertStoryboard == <<"replace">>

CreateStoryboard == DbUpsertStoryboard \o <<"announce">>

UpdateStoryboard == <<"check">> \o DbUpsertStoryboard \o <<"announce">>

DeleteStoryboard == <<"delete", "announce">>

\* Mutant of PublishPlaylist: the clients are told before the document is written.
PublishPlaylistEarly == <<"announce", "replace">>

PublishPlaylist == <<"replace", "announce">>

WriteSoundFile == <<"replace", "announce">>

DbInsertAdHocAnimation == <<"replace">>

PublishAdHocAnimation == DbInsertAdHocAnimation \o <<"announce">>

DbInsertAdHocExchange == <<"replace">>

PublishAdHocExchange == DbInsertAdHocExchange \o <<"announce">>

FinalizeAdHocExchange == <<"update", "announce">>

InvalidateForDebugging == <<"announce">>

\* Every kind of request, what it is about and its program.
Request ==
  [registerCreature   |-> [doc |-> "creature", steps |-> RegisterCreature],
   upsertCreature     |-> [doc |-> "creature", steps |-> PublishCreature],
   getCreature        |-> [doc |-> "creature", steps |-> DbGetCreature],
   getAllCreatures    |-> [doc |-> "creature", steps |-> DbGetAllCreatures],
   useCreature        |-> [doc |-> "creature", steps |-> UseCreature],
   upsertFixture      |-> [doc |-> "fixture", steps |-> PublishFixture],
   upsertFixtureKeeping |-> [doc |-> "fixture", steps |-> PublishFixtureKeeping],
   setFixtureUniverse |-> [doc |-> "fixture", steps |-> SetFixtureUniverse],
   deleteFixture      |-> [doc |-> "fixture", steps |-> DeleteFixture],
   getFixture         |-> [doc |-> "fixture", steps |-> DbGetFixture],
   getAllFixtures     |-> [doc |-> "fixture", steps |-> DbGetAllFixtures],
   useFixture         |-> [doc |-> "fixture", steps |-> UseFixture],
   createStage        |-> [doc |-> "stage", steps |-> CreateStage],
   updateStage        |-> [doc |-> "stage", steps |-> UpdateStage],
   deleteStage        |-> [doc |-> "stage", steps |-> DeleteStage],
   renderAnimation    |-> [doc |-> "animation", steps |-> RenderAnimation],
   rerenderAnimation  |-> [doc |-> "animation", steps |-> RerenderAnimation],
   saveAnimation      |-> [doc |-> "animation", steps |-> SaveAnimation],
   saveAnimationBare  |-> [doc |-> "animation", steps |-> SaveAnimationBare],
   lipSyncAnimation   |-> [doc |-> "animation", steps |-> LipSyncAnimation],
   deleteAnimation    |-> [doc |-> "animation", steps |-> DeleteAnimation],
   createStoryboard   |-> [doc |-> "storyboard", steps |-> CreateStoryboard],
   updateStoryboard   |-> [doc |-> "storyboard", steps |-> UpdateStoryboard],
   deleteStoryboard   |-> [doc |-> "storyboard", steps |-> DeleteStoryboard],
   upsertPlaylist     |-> [doc |-> "playlist", steps |-> PublishPlaylist],
   writeSoundFile     |-> [doc |-> "sound", steps |-> WriteSoundFile],
   publishAdHocAnimation |-> [doc |-> "adHocAnimation", steps |-> PublishAdHocAnimation],
   publishAdHocExchange |-> [doc |-> "exchange", steps |-> PublishAdHocExchange],
   finalizeAdHocExchange |-> [doc |-> "exchange", steps |-> FinalizeAdHocExchange],
   invalidate         |-> [doc |-> "sound", steps |-> InvalidateForDebugging]]

Kinds == DOMAIN Request

ASSUME WorkloadsAssumption ==
  Workloads \subseteq [kinds : SUBSET Kinds, requests : 0 .. MaxRequests]

\* What is not there is no document, and a thread at rest has no kind of request.
ASSUME ValuesAssumption ==
  /\ None \notin Kinds \cup Document
  /\ {Unborn, Deleted} \cap Document = {}

\* Requests that make the document, under a fresh id.
Makers == {"createStage", "createStoryboard", "publishAdHocAnimation", "publishAdHocExchange"}

\* Requests that only fill a cache.
Readers ==
  {"getCreature", "getAllCreatures", "useCreature", "getFixture", "getAllFixtures", "useFixture"}

\* What a request may tell the clients: an animation that is published may
\* bring a sound, a lip sync or a deletion does not.
Announcements(kind) ==
  CASE kind \in {"renderAnimation", "rerenderAnimation", "saveAnimation", "saveAnimationBare"}
         -> {{"Animation", "SoundList"}}
    [] kind = "publishAdHocAnimation" -> {{"AdHocAnimationList", "AdHocSoundList"}}
    [] kind = "invalidate" -> {{type} : type \in CacheType}
    [] OTHER -> {{ListOf[Request[kind].doc]}}

Steps ==
  {"find", "check", "backfill", "carry", "readStage", "replace", "update", "delete",
   "lookup", "cache", "uncache", "assign", "announce", "lock", "unlock"}

-----------------------------------------------------------------------------
VARIABLES
  library,     \* the collections, and the sound files
  objectCache, \* creatureCache and fixtureCache
  universeOf,  \* creatureUniverseMap and fixtureUniverseMap
  opMutex,     \* the holder of the fixture's universe mutex
  thread,
  workload,    \* the bound of this behaviour
  requests,    \* how many were made
  pending,     \* CacheInvalidateEvents, and the messages they have queued
  client,
  suspect      \* auxiliary: where two requests may have left a disagreement

memory == <<objectCache, universeOf, opMutex>>
bound == <<workload, requests>>
messages == <<pending, client>>
vars == <<library, memory, thread, bound, messages, suspect>>

\* Auxiliary: "company" says what other requests were under way on the same
\* document at some moment of this one.
Idle ==
  [kind |-> None, number |-> 0, copy |-> Blank, todo |-> <<>>, tells |-> {}, company |-> {}]

\* "stale" are the lists with a change the client has not fetched.
Away == [joined |-> FALSE, inbox |-> {}, stale |-> {}]

Exists(d) == library[d] \notin {Unborn, Deleted}

Busy(t) == thread[t].kind # None

\* What thread t's request is about.
About(t) == Request[thread[t].kind].doc

Works(t, d) == Busy(t) /\ About(t) = d

Writing(t) == thread[t].kind \notin Readers

Due(t, step) == Busy(t) /\ Head(thread[t].todo) = step

UniverseInDatabase == IF Exists("fixture") THEN library["fixture"].universe ELSE None

\* What initialize() and hydrateFromDatabase leave in memory after a start.
Hydrated(d) == IF d = "fixture" /\ Exists(d) THEN library[d] ELSE None

Init ==
  /\ \E old \in {0, 1}, stage \in {Unborn, [Blank EXCEPT !.content = 1, !.stamp = 1]} :
       library = [d \in Doc |->
         CASE d = "stage" -> stage
           [] d \in Made \ {"stage"} -> Unborn
           [] d = "animation" ->
                IF stage = Unborn THEN Blank ELSE [Blank EXCEPT !.stamp = old, !.rendered = old]
           [] OTHER -> Blank]
  /\ objectCache = [d \in Cached |-> Hydrated(d)]
  /\ universeOf = [d \in Cached |-> None]
  /\ opMutex = None
  /\ thread = [t \in Thread |-> Idle]
  /\ workload \in Workloads /\ requests = 0
  /\ pending = {} /\ client = Away
  /\ suspect = {}

-----------------------------------------------------------------------------
(* Requests come and go.                                                   *)

\* Two assignments of a universe wait for each other.
Serialized(t, kind) == kind = "setFixtureUniverse" /\ thread[t].kind = "setFixtureUniverse"

\* The threads at work on the document of such a request.
Others(kind) == {t \in Thread : Works(t, Request[kind].doc) /\ ~Serialized(t, kind)}

Role(kind) == IF kind \in Readers THEN "reader" ELSE "writer"

\* What the body of a request brings: the universe it names, if it names one.
Bodies(kind) ==
  CASE kind \in {"registerCreature", "upsertFixture"} -> {[Blank EXCEPT !.universe = u] : u \in Universe}
    [] kind = "setFixtureUniverse" -> {[Blank EXCEPT !.universe = u] : u \in Universe \cup {None}}
    [] OTHER -> {Blank}

\* Nobody else makes a document under the id of this one.
Unmade(d) ==
  library[d] = Unborn /\ \A o \in Thread : ~(Works(o, d) /\ thread[o].kind \in Makers)

Begin(t, kind) ==
  /\ ~Busy(t) /\ kind \in workload.kinds
  /\ kind \in Makers => Unmade(Request[kind].doc)
  /\ requests < workload.requests
  /\ requests' = requests + 1
  /\ \E body \in Bodies(kind), tells \in Announcements(kind) :
       thread' = [u \in Thread |->
         IF u = t
         THEN [kind |-> kind, number |-> requests + 2,
               copy |-> body, todo |-> Request[kind].steps, tells |-> tells,
               company |-> {Role(thread[o].kind) : o \in Others(kind)}]
         ELSE IF u \in Others(kind)
         THEN [thread[u] EXCEPT !.company = @ \cup {Role(kind)}]
         ELSE thread[u]]
  /\ UNCHANGED <<library, memory, workload, messages, suspect>>

\* The thread after its step: at the next one, or done.
Went(t, copy) ==
  LET rest == Tail(thread[t].todo)
  IN  IF rest = <<>> THEN Idle ELSE [thread[t] EXCEPT !.todo = rest, !.copy = copy]

GoesOn(t, copy) == thread' = [thread EXCEPT ![t] = Went(t, copy)]

Continues(t) == GoesOn(t, thread[t].copy)

\* A universe that was stored and not read back is not in the cache.
LeftBehind(t) ==
  IF thread[t].kind = "setFixtureUniverse" /\ Due(t, "find") THEN {"fixture"} ELSE {}

\* Mutant of Ends: an error leaves the mutex locked.
EndsStillLocked(t) ==
  /\ thread' = [thread EXCEPT ![t] = Idle]
  /\ suspect' = suspect \cup LeftBehind(t)
  /\ UNCHANGED <<library, memory, bound, messages>>

\* An error or an early return: the lock_guard lets go of the mutex.
Ends(t) ==
  /\ thread' = [thread EXCEPT ![t] = Idle]
  /\ opMutex' = IF opMutex = t THEN None ELSE opMutex
  /\ suspect' = suspect \cup LeftBehind(t)
  /\ UNCHANGED <<library, objectCache, universeOf, bound, messages>>

\* A database call throws, or what it looks for is not there.
DatabaseFails(t) ==
  /\ \/ \E step \in {"find", "check", "backfill", "carry", "replace", "update", "delete"} : Due(t, step)
     \/ Due(t, "readStage") /\ thread[t].kind = "rerenderAnimation"
  /\ Ends(t)

NotFound(t) ==
  /\ \/ /\ \E step \in {"find", "check", "update", "delete"} : Due(t, step)
        /\ ~Exists(About(t))
     \/ Due(t, "readStage") /\ thread[t].kind = "rerenderAnimation" /\ ~Exists("stage")
  /\ Ends(t)

-----------------------------------------------------------------------------
(* What a request reads.                                                   *)

Find(t) ==
  /\ Due(t, "find") /\ Exists(About(t))
  /\ GoesOn(t, IF thread[t].kind = "saveAnimationBare"
               THEN [library[About(t)] EXCEPT !.stamp = 0] ELSE library[About(t)])
  /\ UNCHANGED <<library, memory, bound, messages, suspect>>

\* Only whether the document is there matters.
Check(t) ==
  /\ Due(t, "check") /\ Exists(About(t))
  /\ Continues(t)
  /\ UNCHANGED <<library, memory, bound, messages, suspect>>

\* An upsert that omits the universe keeps the one it finds.
Backfill(t) ==
  /\ Due(t, "backfill")
  /\ GoesOn(t, [thread[t].copy EXCEPT !.universe = UniverseInDatabase])
  /\ UNCHANGED <<library, memory, bound, messages, suspect>>

\* The copy with a stamp for the one it lacks.
Stamped(t, stamp) ==
  IF thread[t].copy.stamp # 0 THEN thread[t].copy
  ELSE [thread[t].copy EXCEPT !.stamp = stamp, !.mixed = @ \/ thread[t].company # {}]

\* Mutant of Carry: provenance that is missing is not carried forward but
\* taken from the stage as it is now.
CarryStageStamp(t) ==
  /\ Due(t, "carry")
  /\ GoesOn(t, Stamped(t, IF Exists("stage") THEN library["stage"].content ELSE 0))
  /\ UNCHANGED <<library, memory, bound, messages, suspect>>

\* An upsert that omits provenance carries the stored one forward.
Carry(t) ==
  /\ Due(t, "carry")
  /\ GoesOn(t, Stamped(t, IF Exists("animation") THEN library["animation"].stamp ELSE 0))
  /\ UNCHANGED <<library, memory, bound, messages, suspect>>

\* A render takes the geometry and its updated_at from one read.
ReadStage(t) ==
  /\ Due(t, "readStage") /\ Exists("stage")
  /\ GoesOn(t, [thread[t].copy EXCEPT !.stamp = library["stage"].content,
                                       !.rendered = library["stage"].content,
                                       !.mixed = FALSE])
  /\ UNCHANGED <<library, memory, bound, messages, suspect>>

\* A dialog whose stage is not there, or cannot be read, is rendered without
\* head aiming.
ReadNoStage(t) ==
  /\ Due(t, "readStage") /\ thread[t].kind = "renderAnimation"
  /\ Continues(t)
  /\ UNCHANGED <<library, memory, bound, messages, suspect>>

-----------------------------------------------------------------------------
(* What a request writes.                                                  *)

\* Every client's list that shows the document is out of date.
Changed(d) ==
  client' = IF client.joined THEN [client EXCEPT !.stale = @ \cup {ListOf[d]}] ELSE client

\* What remains in doubt after a step that was not alone, or was.
Doubt(thing, doubtful) ==
  suspect' = IF doubtful THEN suspect \cup {thing} ELSE suspect \ {thing}

Accompanied(t) == thread[t].company # {}

\* replace_one with upsert: the whole document, whether it was there or not.
Replace(t) ==
  LET d == About(t)
  IN  /\ Due(t, "replace")
      /\ library' = [library EXCEPT ![d] = [thread[t].copy EXCEPT !.content = thread[t].number]]
      /\ Changed(d)
      /\ GoesOn(t, library'[d])
      /\ IF d = "stage" THEN Doubt(d, Accompanied(t)) ELSE UNCHANGED suspect
      /\ UNCHANGED <<memory, bound, pending>>

\* update_one, of a document that is there: the universe of a fixture, the
\* body of an exchange.
Update(t) ==
  LET d == About(t)
  IN  /\ Due(t, "update") /\ Exists(d)
      /\ library' = [library EXCEPT ![d] =
           IF d = "fixture" THEN [@ EXCEPT !.universe = thread[t].copy.universe]
           ELSE [@ EXCEPT !.content = thread[t].number]]
      /\ Changed(d)
      /\ Continues(t)
      /\ UNCHANGED <<memory, bound, pending, suspect>>

Delete(t) ==
  /\ Due(t, "delete") /\ Exists(About(t))
  /\ library' = [library EXCEPT ![About(t)] = Deleted]
  /\ Changed(About(t))
  /\ Continues(t)
  /\ UNCHANGED <<memory, bound, pending, suspect>>

\* The database removes an ad-hoc document whose time is up, and tells nobody.
Expire(d) ==
  /\ d \in Mortal /\ Exists(d)
  /\ library' = [library EXCEPT ![d] = Deleted]
  /\ UNCHANGED <<memory, thread, bound, messages, suspect>>

-----------------------------------------------------------------------------
(* What a request leaves in memory.                                        *)

\* A cache hit needs no database.
Lookup(t) ==
  /\ Due(t, "lookup")
  /\ IF objectCache[About(t)] = None THEN Continues(t)
     ELSE thread' = [thread EXCEPT ![t] = Idle]
  /\ UNCHANGED <<library, memory, bound, messages, suspect>>

Cache(t) ==
  /\ Due(t, "cache")
  /\ objectCache' = [objectCache EXCEPT ![About(t)] = thread[t].copy]
  /\ Doubt(About(t), Accompanied(t))
  /\ Continues(t)
  /\ UNCHANGED <<library, universeOf, opMutex, bound, messages>>

Uncache(t) ==
  /\ Due(t, "uncache")
  /\ objectCache' = [objectCache EXCEPT ![About(t)] = None]
  /\ Doubt(About(t), Accompanied(t))
  /\ Continues(t)
  /\ UNCHANGED <<library, universeOf, opMutex, bound, messages>>

\* The universe goes into the runtime map, or the entry out of it.
Assign(t) ==
  /\ Due(t, "assign")
  /\ universeOf' = [universeOf EXCEPT ![About(t)] = thread[t].copy.universe]
  /\ IF About(t) = "fixture" THEN Doubt("map", "writer" \in thread[t].company) ELSE UNCHANGED suspect
  /\ Continues(t)
  /\ UNCHANGED <<library, objectCache, opMutex, bound, messages>>

Lock(t) ==
  /\ Due(t, "lock") /\ opMutex = None
  /\ opMutex' = t
  /\ Continues(t)
  /\ UNCHANGED <<library, objectCache, universeOf, bound, messages, suspect>>

Unlock(t) ==
  /\ Due(t, "unlock")
  /\ opMutex' = None
  /\ Continues(t)
  /\ UNCHANGED <<library, objectCache, universeOf, bound, messages, suspect>>

-----------------------------------------------------------------------------
(* Announcements and clients.                                              *)

Announce(t) ==
  /\ Due(t, "announce")
  /\ pending' = pending \cup thread[t].tells
  /\ Continues(t)
  /\ UNCHANGED <<library, memory, bound, client, suspect>>

\* The event has run and its message is sent to whoever is connected now.
Broadcast(type) ==
  /\ type \in pending
  /\ pending' = pending \ {type}
  /\ client' = IF client.joined THEN [client EXCEPT !.inbox = @ \cup {type}] ELSE client
  /\ UNCHANGED <<library, memory, thread, bound, suspect>>

\* A client fetches its lists after it has joined.
Join ==
  /\ ~client.joined
  /\ client' = [joined |-> TRUE, inbox |-> {}, stale |-> {}]
  /\ UNCHANGED <<library, memory, thread, bound, pending, suspect>>

Leave ==
  /\ client.joined
  /\ client' = Away
  /\ UNCHANGED <<library, memory, thread, bound, pending, suspect>>

Fetch(type) ==
  /\ type \in client.inbox
  /\ client' = [client EXCEPT !.inbox = @ \ {type}, !.stale = @ \ {type}]
  /\ UNCHANGED <<library, memory, thread, bound, pending, suspect>>

\* The server stops at any moment, and starts again.
Restart ==
  /\ thread' = [t \in Thread |-> Idle]
  /\ opMutex' = None
  /\ objectCache' = [d \in Cached |-> Hydrated(d)]
  /\ universeOf' = [creature |-> None, fixture |-> UniverseInDatabase]
  /\ pending' = {} /\ client' = Away
  /\ suspect' = suspect \cap {"stage"}
  /\ UNCHANGED <<library, bound>>

Step(t) ==
  \/ \E kind \in Kinds : Begin(t, kind)
  \/ DatabaseFails(t) \/ NotFound(t)
  \/ Find(t) \/ Check(t) \/ Backfill(t) \/ Carry(t) \/ ReadStage(t) \/ ReadNoStage(t)
  \/ Replace(t) \/ Update(t) \/ Delete(t)
  \/ Lookup(t) \/ Cache(t) \/ Uncache(t) \/ Assign(t) \/ Lock(t) \/ Unlock(t)
  \/ Announce(t)

Tell(type) == Broadcast(type) \/ Fetch(type)

Next ==
  \/ \E t \in Thread : Step(t)
  \/ \E type \in CacheType : Tell(type)
  \/ \E d \in Doc : Expire(d)
  \/ Join \/ Leave \/ Restart

Spec == Init /\ [][Next]_vars

-----------------------------------------------------------------------------
(* Properties.                                                             *)

TypeOK ==
  /\ library \in [Doc -> Document \cup {Unborn, Deleted}]
  /\ objectCache \in [Cached -> Document \cup {None}]
  /\ universeOf \in [Cached -> Universe \cup {None}]
  /\ opMutex \in Thread \cup {None}
  /\ thread \in [Thread -> [kind : Kinds \cup {None}, number : Number, copy : Document,
                           todo : Seq(Steps), tells : SUBSET CacheType,
                           company : SUBSET {"reader", "writer"}]]
  /\ workload \in Workloads /\ requests \in 0 .. workload.requests
  /\ pending \subseteq CacheType
  /\ client \in [joined : BOOLEAN, inbox : SUBSET CacheType, stale : SUBSET CacheType]
  /\ suspect \subseteq {"creature", "fixture", "map", "stage"}

(* Safety (issue #11): a list that no longer shows what is stored is one   *)
(* the client has been told of, or is about to be, by a message under way  *)
(* or by the request that wrote: never told first and changed afterwards.  *)
StaleListIsAnnounced ==
  \A type \in client.stale :
    \/ type \in client.inbox \cup pending
    \/ \E t \in Thread : type \in thread[t].tells /\ Contains(thread[t].todo, "announce")

(* Safety (issue #68): once the fixture is left alone, the runtime map and *)
(* the database agree on its universe, however many assignments raced and  *)
(* whatever failed, unless the last one to touch the map ran beside an     *)
(* upsert or a deletion, which do not take the mutex.                      *)
UniverseAgrees ==
  ("map" \notin suspect /\ \A t \in Thread : Works(t, "fixture") => ~Writing(t))
    => universeOf["fixture"] = UniverseInDatabase

(* Safety: a cached creature or fixture is the stored one once it is left  *)
(* alone, unless its last put ran beside another request for it.           *)
CacheIsCurrent ==
  \A d \in Cached \ suspect :
    (\A t \in Thread : ~Works(t, d))
      => objectCache[d] \in {None} \cup (IF Exists(d) THEN {library[d]} ELSE {})

(* Safety: the universe mutex of a fixture is held by exactly the          *)
(* assignment that is past its lock, whichever call of it fails; and what  *)
(* is kept in memory is what is stored.                                    *)
LibraryConsistent ==
  /\ TypeOK
  /\ \A t \in Thread :
       opMutex = t <=> thread[t].kind = "setFixtureUniverse" /\ ~Due(t, "lock")
  /\ UniverseAgrees /\ CacheIsCurrent

(* Safety (issues #119, #135): an animation that is not listed as stale    *)
(* moves for the geometry its stage has now, whatever was edited while it  *)
(* was rendered, unless a client put an older copy back without its        *)
(* provenance, the last edit of the stage ran beside another, or it was    *)
(* rendered for no stage, when the upsert carries the stamp of before.     *)
FreshIsCurrent ==
  (/\ Exists("stage") /\ Exists("animation") /\ "stage" \notin suspect
   /\ ~library["animation"].mixed /\ library["animation"].rendered # 0
   /\ library["animation"].stamp >= library["stage"].content)
    => library["animation"].rendered = library["stage"].content

=============================================================================
