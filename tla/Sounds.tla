-------------------------------- MODULE Sounds --------------------------------
(***************************************************************************)
(* Sounds over HTTP: the two stores, the files that are served out of them *)
(* block by block, the renditions made of them, and the lip sync and       *)
(* transcripts that one recognizer, shared by every thread, hears in them. *)
(*                                                                         *)
(* A file is a recording and the blocks of it that are on disk: the audio, *)
(* and behind it one block of provenance.  A render writes its file in     *)
(* place; everything else is renamed into place.  A permanent name is      *)
(* given to one recording only, names being made of the job or generation  *)
(* that made the recording.                                                *)
(***************************************************************************)
EXTENDS Naturals, FiniteSets

CONSTANTS
  Basename,    \* names of sounds
  Recording,
  RecordingOf,        \* of a name: the recording that the permanent store has under it
  Blocks,      \* of a recording: blocks of audio
  Visitor,     \* threads that serve requests
  Worker,      \* the thread that runs jobs
  Nothing,
  MaxChanges   \* bound: changes of the stores

ASSUME SoundsAssumption ==
  /\ RecordingOf \in [Basename -> Recording] /\ Blocks \in [Recording -> Nat \ {0}]
  /\ Worker \notin Visitor /\ Nothing \notin Recording \cup Visitor \cup {Worker}
  /\ MaxChanges \in Nat

Store == {"kept", "adHoc"}

Server == Visitor \cup {Worker}

VARIABLES
  engine,     \* "whisper", once it was initialized, or "rhubarb"
  shelf,      \* of a store and a name: the file
  sidecar,    \* of a name: the recording whose mouth cues lie beside the permanent sound
  context,    \* of the recognizer: who holds its lock, and what it heard last
  request,    \* of a thread: what it does
  written,    \* recordings that were on disk
  changes     \* bound: changes of the stores

soundsVars == <<engine, shelf, sidecar, context, request, written, changes>>

Absent == [take |-> Nothing, blocks |-> 0]

WholeFile(t) == [take |-> t, blocks |-> Blocks[t] + 1]

AtRest ==
  [pc |-> "rest", kind |-> Nothing, name |-> Nothing, store |-> Nothing, allow |-> FALSE,
   sized |-> Nothing, promised |-> 0, sent |-> 0, take |-> Nothing, tags |-> Nothing, answer |-> Nothing]

SoundsInit ==
  /\ engine \in {"whisper", "rhubarb"}
  /\ shelf = [s \in Store |-> [n \in Basename |-> Absent]]
  /\ sidecar = [n \in Basename |-> Nothing]
  /\ context = [holder |-> Nothing, heard |-> Nothing]
  /\ request = [c \in Server |-> AtRest]
  /\ written = {} /\ changes = 0

-----------------------------------------------------------------------------
(* The stores.                                                             *)

OnDisk(s, n) == shelf[s][n].take # Nothing

OnShelf(s, n) == OnDisk(s, n) /\ shelf[s][n] = WholeFile(shelf[s][n].take)

Shelve(s, n, file) ==
  /\ changes < MaxChanges /\ changes' = changes + 1
  /\ shelf' = [shelf EXCEPT ![s][n] = file]
  /\ UNCHANGED <<engine, sidecar, context, request>>

\* A render opens the file of its new recording and writes the first of its audio.
BeginFile(s, n, t) ==
  /\ ~OnDisk(s, n) /\ t \notin written
  /\ s = "kept" => t = RecordingOf[n]
  /\ written' = written \cup {t}
  /\ Shelve(s, n, [take |-> t, blocks |-> 1])

AppendBlock(s, n) ==
  /\ OnDisk(s, n) /\ ~OnShelf(s, n)
  /\ shelf' = [shelf EXCEPT ![s][n].blocks = @ + 1]
  /\ UNCHANGED <<engine, sidecar, context, request, written, changes>>

\* Another file takes an ad-hoc name.
PutFile(n, t) ==
  /\ shelf["adHoc"][n].take # t /\ (OnDisk("adHoc", n) => OnShelf("adHoc", n))
  /\ Shelve("adHoc", n, WholeFile(t)) /\ written' = written \cup {t}

\* A superseded render is deleted, an old ad-hoc sound is swept.
RemoveFile(s, n) == OnShelf(s, n) /\ Shelve(s, n, Absent) /\ UNCHANGED written

\* An accepted take is moved between the stores.
MoveTake(from, m, n) ==
  LET to == CHOOSE s \in Store \ {from} : TRUE IN
  /\ OnShelf(from, m)
  /\ to = "kept" => shelf[from][m].take = RecordingOf[n] /\ ~OnDisk(to, n)
  /\ OnDisk(to, n) => OnShelf(to, n)
  /\ changes < MaxChanges /\ changes' = changes + 1
  /\ shelf' = [shelf EXCEPT ![from][m] = Absent, ![to][n] = shelf[from][m]]
  /\ UNCHANGED <<engine, sidecar, context, request, written>>

-----------------------------------------------------------------------------
(* Files and renditions.                                                   *)

Resting(c) == request[c].pc = "rest"

Becomes(c, r) ==
  /\ request' = [request EXCEPT ![c] = r]
  /\ UNCHANGED <<engine, shelf, written, changes>>

Refused(r) == [r EXCEPT !.pc = "refused"]

Quietly == UNCHANGED <<sidecar, context>>

File(r) == shelf[r.store][r.name]

\* The permanent store goes first.
StoreOf(n) == IF OnDisk("kept", n) THEN "kept" ELSE "adHoc"

Request(kind, n, s, pc) == [AtRest EXCEPT !.kind = kind, !.name = n, !.store = s, !.pc = pc]

AskFor(c, kind, n, s) ==
  LET first == CASE kind = "body" -> "size" [] kind = "rendition" -> "load" [] kind = "provenance" -> "tag"
      r == Request(kind, n, s, first) IN
  /\ c \in Visitor /\ Resting(c)
  /\ kind # "body" => s = StoreOf(n)
  /\ Becomes(c, IF OnDisk(s, n) THEN r ELSE Refused(r)) /\ Quietly

SizeFile(c) ==
  LET r == request[c] IN
  /\ r.pc = "size"
  /\ Becomes(c, IF OnDisk(r.store, r.name)
                  THEN [r EXCEPT !.pc = "open", !.sized = File(r).take, !.promised = File(r).blocks]
                  ELSE Refused(r))
  /\ Quietly

OpenFile(c) ==
  LET r == request[c] IN
  /\ r.pc = "open"
  /\ Becomes(c, IF OnDisk(r.store, r.name) THEN [r EXCEPT !.pc = "send", !.take = File(r).take] ELSE Refused(r))
  /\ Quietly

\* The open file outlives its name.
Available(r) == IF File(r).take = r.take THEN File(r).blocks ELSE Blocks[r.take] + 1

SendBlock(c) ==
  LET r == request[c] IN
  /\ r.pc = "send"
  /\ Becomes(c, IF r.sent = r.promised THEN [r EXCEPT !.pc = "answered"]
                ELSE IF r.sent < Available(r) THEN [r EXCEPT !.sent = @ + 1]
                ELSE [r EXCEPT !.pc = "short"])
  /\ Quietly

\* The loader refuses a file that ends before its header says so.
LoadWav(c) ==
  LET r == request[c] IN
  /\ r.pc = "load"
  /\ Becomes(c, IF OnDisk(r.store, r.name) /\ File(r).blocks >= Blocks[File(r).take]
                  THEN [r EXCEPT !.pc = "tag", !.take = File(r).take]
                  ELSE Refused(r))
  /\ Quietly

\* The file is opened again for its provenance.
ReadTags(c) ==
  LET r == request[c]
      found == IF OnShelf(r.store, r.name) THEN File(r).take ELSE Nothing IN
  /\ r.pc = "tag"
  /\ Becomes(c, IF r.kind = "provenance" /\ found = Nothing THEN Refused(r)
                ELSE [r EXCEPT !.pc = "answered", !.tags = found])
  /\ Quietly

\* An encoder fails.
RenderFails(c) == request[c].pc = "tag" /\ request[c].kind = "rendition"
                  /\ Becomes(c, Refused(request[c])) /\ Quietly

-----------------------------------------------------------------------------
(* Lip sync and transcripts.                                               *)

FirstStep == IF engine = "whisper" THEN "listen" ELSE "run"

AskForCues(n, allow) ==
  LET r == [Request("cues", n, "kept", FirstStep) EXCEPT !.allow = allow] IN
  /\ Resting(Worker)
  /\ Becomes(Worker, IF OnDisk("kept", n) /\ (sidecar[n] = Nothing \/ allow) THEN r ELSE Refused(r))
  /\ Quietly

\* An upload has a directory of its own.
UploadSound(c, t) ==
  /\ c \in Visitor /\ Resting(c)
  /\ Becomes(c, [AtRest EXCEPT !.kind = "upload", !.allow = TRUE, !.take = t, !.pc = FirstStep])
  /\ Quietly

AskForWords(c, t) ==
  LET r == [AtRest EXCEPT !.kind = "words", !.take = t, !.pc = "wait"] IN
  /\ c \in Visitor /\ Resting(c)
  /\ Becomes(c, IF engine = "whisper" THEN r ELSE Refused(r)) /\ Quietly

Audible(r) == r.kind = "upload" \/ OnDisk("kept", r.name)

Subject(r) == IF r.kind = "cues" THEN File(r).take ELSE r.take

LoadAudio(c) ==
  LET r == request[c] IN
  /\ r.pc = "listen"
  /\ Becomes(c, IF Audible(r) THEN [r EXCEPT !.pc = "wait", !.take = Subject(r)] ELSE Refused(r))
  /\ Quietly

\* Mutant of Infer: the lock is given back as soon as inference is over.
InferAlone(c) ==
  /\ request[c].pc = "wait" /\ context.holder = Nothing
  /\ context' = [context EXCEPT !.heard = request[c].take]
  /\ Becomes(c, [request[c] EXCEPT !.pc = "read"]) /\ UNCHANGED sidecar

Infer(c) ==
  /\ request[c].pc = "wait" /\ context.holder = Nothing
  /\ context' = [holder |-> c, heard |-> request[c].take]
  /\ Becomes(c, [request[c] EXCEPT !.pc = "read"]) /\ UNCHANGED sidecar

InferFails(c) ==
  /\ request[c].pc = "wait" /\ context.holder = Nothing
  /\ context' = [context EXCEPT !.heard = Nothing]
  /\ Becomes(c, Refused(request[c])) /\ UNCHANGED sidecar

ReadSegments(c) ==
  LET r == request[c] IN
  /\ r.pc = "read"
  /\ context' = [context EXCEPT !.holder = Nothing]
  /\ Becomes(c, [r EXCEPT !.pc = IF r.kind = "words" THEN "answered" ELSE "write", !.answer = context.heard])
  /\ UNCHANGED sidecar

\* A sidecar that cannot be written is only reported.
WriteCues(c) ==
  LET r == request[c] IN
  /\ r.pc = "write"
  /\ \E kept \in BOOLEAN :
       sidecar' = IF r.kind = "cues" /\ kept THEN [sidecar EXCEPT ![r.name] = r.answer] ELSE sidecar
  /\ Becomes(c, [r EXCEPT !.pc = "answered"]) /\ UNCHANGED context

\* The child process reads the sound and writes the sidecar; it may fail after that.
RunRhubarb(c) ==
  LET r == request[c] IN
  /\ r.pc = "run"
  /\ \E exits \in BOOLEAN, wrote \in BOOLEAN :
       /\ sidecar' = IF r.kind = "cues" /\ wrote /\ Audible(r) THEN [sidecar EXCEPT ![r.name] = Subject(r)]
                     ELSE sidecar
       /\ Becomes(c, IF ~exits \/ ~Audible(r) THEN Refused(r)
                     ELSE [r EXCEPT !.pc = "verify", !.take = Subject(r),
                                    !.answer = IF r.kind = "upload" /\ wrote THEN r.take ELSE Nothing])
  /\ UNCHANGED context

\* What lies beside the sound is the answer, an older sidecar too.
ReadCues(c) ==
  LET r == request[c]
      found == IF r.kind = "upload" THEN r.answer ELSE sidecar[r.name] IN
  /\ r.pc = "verify"
  /\ Becomes(c, IF found = Nothing THEN Refused(r) ELSE [r EXCEPT !.pc = "answered", !.answer = found])
  /\ Quietly

RequestEnds(c) == request[c].pc \in {"answered", "refused", "short"} /\ Becomes(c, AtRest) /\ Quietly

-----------------------------------------------------------------------------

SoundsNext ==
  \/ \E s \in Store, n \in Basename : AppendBlock(s, n) \/ RemoveFile(s, n) \/ \E t \in Recording : BeginFile(s, n, t)
  \/ \E n \in Basename, t \in Recording : PutFile(n, t)
  \/ \E s \in Store, m \in Basename, n \in Basename : MoveTake(s, m, n)
  \/ \E n \in Basename, allow \in BOOLEAN : AskForCues(n, allow)
  \/ \E c \in Visitor, kind \in {"body", "rendition", "provenance"}, n \in Basename, s \in Store :
       AskFor(c, kind, n, s)
  \/ \E c \in Visitor, t \in Recording : UploadSound(c, t) \/ AskForWords(c, t)
  \/ \E c \in Server :
       \/ SizeFile(c) \/ OpenFile(c) \/ SendBlock(c) \/ LoadWav(c) \/ ReadTags(c) \/ RenderFails(c)
       \/ LoadAudio(c) \/ Infer(c) \/ InferFails(c) \/ ReadSegments(c) \/ WriteCues(c)
       \/ RunRhubarb(c) \/ ReadCues(c) \/ RequestEnds(c)

-----------------------------------------------------------------------------

SoundsTypeOK ==
  /\ \A s \in Store, n \in Basename :
       shelf[s][n] \in [take : Recording \cup {Nothing}, blocks : Nat]
  /\ sidecar \in [Basename -> Recording \cup {Nothing}]
  /\ context \in [holder : Server \cup {Nothing}, heard : Recording \cup {Nothing}]
  /\ \A c \in Server : request[c].take \in Recording \cup {Nothing}

\* Every answer about a sound is about the sound that was asked for: what was
\* heard in it is not what another thread made the recognizer hear; a
\* permanent file is sent whole as far as it was there, and so is every file
\* that was not replaced between the sizing and the opening; a rendition that
\* may be cached for good is of the permanent recording, its tags too; and a
\* sidecar is of the sound beside it and is not replaced by a job without
\* leave (WhisperLipSyncProcessor.cpp:297, SoundController.h:459).
SoundAnswersAreTrue ==
  /\ SoundsTypeOK
  /\ \A c \in Server : LET r == request[c] IN
       /\ r.kind \in {"cues", "upload", "words"} /\ r.pc = "answered" =>
            r.answer = IF r.kind = "cues" THEN RecordingOf[r.name] ELSE r.take
       /\ r.kind = "body" /\ r.pc \in {"answered", "short"} =>
            /\ r.store = "kept" => r.take = RecordingOf[r.name] /\ r.sized = r.take
            /\ r.sized = r.take => r.pc = "answered" /\ r.sent = r.promised
       /\ r.kind = "rendition" /\ r.pc = "answered" /\ r.store = "kept" =>
            r.take = RecordingOf[r.name] /\ r.tags \in {Nothing, RecordingOf[r.name]}
       /\ r.kind = "cues" /\ r.pc \in {"listen", "wait", "read", "write", "run"} /\ ~r.allow => sidecar[r.name] = Nothing
       /\ \A n \in Basename : sidecar[n] \in {Nothing, RecordingOf[n]}
===============================================================================
