------------------------------ MODULE AudioCache ------------------------------
(***************************************************************************)
(* Every sound is played as 17 channels of Opus packets, and encoding them *)
(* is expensive: AudioStreamBuffer keeps what it encoded in a directory of *)
(* one file per channel, with the source's size and checksum in each, and  *)
(* a marker that is written last.  Renders, playback and prewarming load   *)
(* sounds at the same time; source files are replaced and deleted under    *)
(* them; writes fail; and the server may die between any two steps and     *)
(* find the directory again.                                               *)
(*                                                                         *)
(* The audio of a file is its content, and so is its checksum.  A file is  *)
(* on disk as a whole: the loads of one that is still being written are    *)
(* left out.                                                               *)
(***************************************************************************)
EXTENDS Naturals, FiniteSets

CONSTANTS
  Sound,       \* paths of source files
  Content,     \* what a source file may hold
  Unusable,    \* contents that cannot be encoded: not a 17 channel WAV at
               \* the rate of the stream, too short, or too long
  Loader,      \* threads that load sounds
  Channels,    \* RTP_STREAMING_CHANNELS
  MaxReplaced, \* bound: changes of source files
  MaxCrashes,  \* bound: restarts
  Missing

ASSUME AudioCacheAssumption ==
  /\ Unusable \subseteq Content
  /\ Channels \in Nat \ {0} /\ MaxReplaced \in Nat /\ MaxCrashes \in Nat
  /\ Missing \notin Content

Channel == 1 .. Channels

VARIABLES
  source,     \* of a path: the content of the file, and when it was written
  entry,      \* of a path: the marker and the channel files of its directory
  load,       \* of a thread: its place, its path, and what it holds
  replaced,   \* bound: how often source files changed
  crashes,    \* bound: how often the server died
  present,    \* auxiliary: what its path held since a load began
  misstamped  \* auxiliary: paths whose entry was stamped with another
              \* content than was encoded

cacheVars == <<source, entry, load, replaced, crashes, present, misstamped>>

Empty == [marker |-> FALSE, file |-> [c \in Channel |-> Missing]]

Silence == [c \in Channel |-> Missing]

Idle == [pc |-> "idle", path |-> Missing, stat |-> Missing, audio |-> Silence, next |-> 1]

CacheInit ==
  /\ source = [p \in Sound |-> [content |-> Missing, time |-> 0]]
  /\ entry = [p \in Sound |-> Empty]
  /\ load = [l \in Loader |-> Idle]
  /\ replaced = 0 /\ crashes = 0
  /\ present = [l \in Loader |-> {}] /\ misstamped = {}

-----------------------------------------------------------------------------
(* The world around the cache.                                             *)

Loading(p) == {l \in Loader : load[l].pc \notin {"idle", "done"} /\ load[l].path = p}

\* A file is put into place, or removed.
Replace(p, c) ==
  /\ replaced < MaxReplaced /\ source[p].content # c
  /\ source' = [source EXCEPT ![p] = [content |-> c, time |-> @.time + 1]]
  /\ present' = [l \in Loader |-> IF l \in Loading(p) THEN present[l] \cup {c} ELSE present[l]]
  /\ replaced' = replaced + 1
  /\ UNCHANGED <<entry, load, crashes, misstamped>>

\* What is on disk survives.
Crash ==
  /\ crashes < MaxCrashes
  /\ \E l \in Loader : load[l].pc # "idle"
  /\ load' = [l \in Loader |-> Idle]
  /\ present' = [l \in Loader |-> {}]
  /\ crashes' = crashes + 1
  /\ UNCHANGED <<source, entry, replaced, misstamped>>

-----------------------------------------------------------------------------
(* Steps of a load.                                                        *)

At(l, place) == load[l].pc = place

Path(l) == load[l].path

Exists(l) == source[Path(l)].content # Missing

Goes(l, place) == load' = [load EXCEPT ![l].pc = place]

Unseen == UNCHANGED <<source, replaced, crashes, present>>

\* One load of a file at a time; the mutex is held until the load ends.
BeginLoad(l, p) ==
  /\ At(l, "idle") /\ Loading(p) = {}
  /\ load' = [load EXCEPT ![l] = [Idle EXCEPT !.pc = "look", !.path = p]]
  /\ present' = [present EXCEPT ![l] = {source[p].content}]
  /\ UNCHANGED <<source, entry, replaced, crashes, misstamped>>

EndLoad(l) ==
  /\ At(l, "done")
  /\ load' = [load EXCEPT ![l] = Idle]
  /\ present' = [present EXCEPT ![l] = {}]
  /\ UNCHANGED <<source, entry, replaced, crashes, misstamped>>

Complete(p) == entry[p].marker /\ \A c \in Channel : entry[p].file[c] # Missing

\* The files are all there, and the source is read for its checksum.
Look(l) ==
  /\ At(l, "look") /\ Complete(Path(l)) /\ Exists(l)
  /\ load' = [load EXCEPT ![l].pc = "match", ![l].stat = source[Path(l)]]
  /\ UNCHANGED <<entry, misstamped>> /\ Unseen

\* They are not, or there is no source to name the directory by.
LookMisses(l) ==
  /\ At(l, "look") /\ ~(Complete(Path(l)) /\ Exists(l))
  /\ Goes(l, "miss")
  /\ UNCHANGED <<entry, misstamped>> /\ Unseen

\* The channel's file says what it was encoded from; the time it is compared
\* by is the source's at this moment, which must still be there.
Matches(l, c) ==
  /\ Exists(l)
  /\ [content |-> entry[Path(l)].file[c].of, time |-> source[Path(l)].time] = load[l].stat

Packets(p) == [c \in Channel |-> entry[p].file[c].audio]

\* Mutant of Match: entries are trusted.
MatchUnchecked(l) ==
  /\ At(l, "match")
  /\ load' = [load EXCEPT ![l].pc = "done", ![l].audio = Packets(Path(l))]
  /\ UNCHANGED <<entry, misstamped>> /\ Unseen

Match(l) ==
  /\ At(l, "match") /\ \A c \in Channel : Matches(l, c)
  /\ load' = [load EXCEPT ![l].pc = "done", ![l].audio = Packets(Path(l))]
  /\ UNCHANGED <<entry, misstamped>> /\ Unseen

\* What is left of an entry that is removed: nothing, or, if the removal fails
\* or the source that names the directory is gone, some of its files.
Cleared(p, e) ==
  IF source[p].content = Missing THEN {e}
  ELSE [marker : {FALSE, e.marker},
        file : {[c \in Channel |-> IF c \in kept THEN e.file[c] ELSE Missing] : kept \in SUBSET Channel}]

\* A stale, inconsistent or unreadable entry.
MatchFails(l) ==
  /\ At(l, "match")
  /\ \E e \in Cleared(Path(l), entry[Path(l)]) : entry' = [entry EXCEPT ![Path(l)] = e]
  /\ Goes(l, "miss")
  /\ UNCHANGED misstamped /\ Unseen

Encoding(l) == load[l].pc \in {"stamp", "write", "mark"}

\* One encoding at a time in the whole server, until it is saved.
Encode(l) ==
  /\ At(l, "miss") /\ \A other \in Loader : ~Encoding(other)
  /\ source[Path(l)].content \notin Unusable \cup {Missing}
  /\ load' = [load EXCEPT ![l].pc = "stamp",
                          ![l].audio = [c \in Channel |-> source[Path(l)].content]]
  /\ UNCHANGED <<entry, misstamped>> /\ Unseen

EncodeFails(l) ==
  /\ At(l, "miss") /\ \A other \in Loader : ~Encoding(other)
  /\ source[Path(l)].content \in Unusable \cup {Missing}
  /\ Goes(l, "done")
  /\ UNCHANGED <<entry, misstamped>> /\ Unseen

\* Saving reads the source again, for the stamp, and withdraws the marker;
\* that this fails is not noticed.
Stamp(l) ==
  /\ At(l, "stamp") /\ Exists(l)
  /\ load' = [load EXCEPT ![l].pc = "write", ![l].stat = source[Path(l)]]
  /\ \/ entry' = [entry EXCEPT ![Path(l)].marker = FALSE]
     \/ UNCHANGED entry
  /\ misstamped' =
       IF source[Path(l)].content = load[l].audio[1] THEN misstamped ELSE misstamped \cup {Path(l)}
  /\ Unseen

\* The source is gone, or its directory cannot be made: the load has its audio
\* all the same.
StampFails(l) ==
  /\ At(l, "stamp")
  /\ Goes(l, "done")
  /\ UNCHANGED <<entry, misstamped>> /\ Unseen

\* Into a file of another name, which is renamed.
WriteChannel(l) ==
  /\ At(l, "write")
  /\ entry' = [entry EXCEPT ![Path(l)].file[load[l].next] =
       [of |-> load[l].stat.content, audio |-> load[l].audio[load[l].next]]]
  /\ load' = [load EXCEPT ![l].pc = IF load[l].next = Channels THEN "mark" ELSE "write",
                          ![l].next = IF @ = Channels THEN @ ELSE @ + 1]
  /\ UNCHANGED misstamped /\ Unseen

WriteMarker(l) ==
  /\ At(l, "mark")
  /\ entry' = [entry EXCEPT ![Path(l)].marker = TRUE]
  /\ Goes(l, "done")
  /\ UNCHANGED misstamped /\ Unseen

\* A channel or the marker cannot be written: what was written is removed.
WriteFails(l) ==
  /\ load[l].pc \in {"write", "mark"}
  /\ \E e \in Cleared(Path(l), entry[Path(l)]) : entry' = [entry EXCEPT ![Path(l)] = e]
  /\ Goes(l, "done")
  /\ UNCHANGED misstamped /\ Unseen

-----------------------------------------------------------------------------

LoadStep(l) ==
  \/ Look(l) \/ LookMisses(l) \/ Match(l) \/ MatchFails(l)
  \/ Encode(l) \/ EncodeFails(l)
  \/ Stamp(l) \/ StampFails(l) \/ WriteChannel(l) \/ WriteMarker(l) \/ WriteFails(l)

CacheNext ==
  \/ \E p \in Sound, c \in Content \cup {Missing} : Replace(p, c)
  \/ Crash
  \/ \E l \in Loader : EndLoad(l) \/ LoadStep(l) \/ \E p \in Sound : BeginLoad(l, p)

\* Threads run.
CacheFairness == \A l \in Loader : WF_cacheVars(LoadStep(l))

-----------------------------------------------------------------------------
(* Properties.                                                             *)

CacheTypeOK ==
  /\ source \in [Sound -> [content : Content \cup {Missing}, time : 0 .. MaxReplaced]]
  /\ \A p \in Sound :
       /\ entry[p].marker \in BOOLEAN
       /\ entry[p].file \in [Channel -> [of : Content, audio : Content] \cup {Missing}]
  /\ \A l \in Loader :
       /\ load[l].pc \in {"idle", "look", "match", "miss", "stamp", "write", "mark", "done"}
       /\ load[l].path \in Sound \cup {Missing}
       /\ load[l].audio \in [Channel -> Content \cup {Missing}]
       /\ load[l].next \in Channel
  /\ replaced \in 0 .. MaxReplaced /\ crashes \in 0 .. MaxCrashes
  /\ misstamped \subseteq Sound

(* Safety (AudioCache.cpp: a crash or partial write is always treated as a *)
(* miss): a load that succeeds has, on every channel, one and the same of  *)
(* the contents its file held since the load began, whatever failed,       *)
(* crashed or was replaced at any time before; unless the file was once    *)
(* replaced between an encoding and the stamp of its entry, which is the   *)
(* checksum of the content that came after.                                *)
LoadsAreOfTheFile ==
  /\ CacheTypeOK
  /\ \A l \in Loader :
       (load[l].pc = "done" /\ load[l].audio # Silence /\ load[l].path \notin misstamped) =>
         \E content \in present[l] \ Unusable : load[l].audio = [c \in Channel |-> content]

=============================================================================
