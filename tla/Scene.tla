------------------------------- MODULE Scene -------------------------------
(***************************************************************************)
(* From the turns of a dialog to what its creatures play.  A speech        *)
(* service speaks a chunk of turns as one recording and says when every    *)
(* character was spoken; the recording is cut at the turns, the pieces are *)
(* moved closer together, each onto the lane of its voice, and every       *)
(* character, word and mouth cue must move with its piece.  Two ways lead  *)
(* there: a render assembles each chunk and joins the results; an accepted *)
(* take joins the recordings first and assembles the whole scene at once.  *)
(* Recordings come fresh or from a cache that keeps them as they came.     *)
(*                                                                         *)
(* Time is counted in samples; what matters of a sample is which sample of *)
(* which chunk's recording it is (fades change only its level).  A text is *)
(* a sequence of letters "a", marks ".", spaces and stage directions "[".  *)
(***************************************************************************)
EXTENDS Integers, FiniteSets, SequencesExt

CONSTANTS
  Voice,      \* voices of the creatures of a scene, each with its channel
  Scenes,     \* scenes that may be rendered: sequences of [voice, text]
  Paces,      \* how a turn may be spoken: [lead |-> samples before it,
              \* letter |-> samples of each of its letters]
  Release,    \* samples the service adds after the last turn
  MaxChars,   \* per chunk
  PadIn, PadOut, TurnGap, ChunkGap, \* in samples
  FrameSize,  \* samples in a frame of animation
  MusicLength, \* samples of the background music, if there is any
  Quiet

ASSUME SceneAssumption ==
  /\ \A s \in Scenes : \A i \in DOMAIN s : s[i].voice \in Voice
  /\ {Release, MaxChars, PadIn, PadOut, TurnGap, ChunkGap, MusicLength} \subseteq Nat
  /\ FrameSize \in Nat \ {0}
  /\ Paces \subseteq [lead : Nat, letter : Nat]

VARIABLES
  stage,     \* how far the render is: "ask", "generate", "assemble", "file", "done" or "failed"
  turns,     \* what is to be said
  take,      \* whether an accepted take is rendered
  chunks,    \* sets of turns that are spoken together, as sequences
  gens,      \* recordings of chunks
  parts,     \* assembled chunks
  scene,     \* lanes of the scene
  show       \* samples the animation and its file last

sceneVars == <<stage, turns, take, chunks, gens, parts, scene, show>>

SceneInit ==
  /\ stage = "ask" /\ turns = <<>> /\ take = FALSE
  /\ chunks = <<>> /\ gens = <<>> /\ parts = <<>> /\ scene = <<>> /\ show = 0

-----------------------------------------------------------------------------
(* Texts.                                                                  *)

InWord(c) == c \in {"a", "."}

\* Positions that survive when directions are removed, white space is
\* collapsed and both ends are trimmed.
Kept(t) ==
  {i \in DOMAIN t :
     \/ InWord(t[i])
     \/ /\ t[i] = " "
        /\ \E j \in 1 .. i - 1 : InWord(t[j]) /\ \A k \in j + 1 .. i - 1 : t[k] # " "
        /\ \E j \in i + 1 .. Len(t) : InWord(t[j])}

StripTags(t) == [n \in 1 .. Cardinality(Kept(t)) |->
                   t[CHOOSE i \in Kept(t) : Cardinality(Kept(t) \cap 1 .. i) = n]]

\* Where in a sequence of characters words begin, and where the word that
\* begins there ends.
WordStarts(s) == {i \in DOMAIN s : InWord(s[i]) /\ (i = 1 \/ ~InWord(s[i - 1]))}

WordEnd(s, i) == CHOOSE j \in i .. Len(s) :
                   (\A k \in i .. j : InWord(s[k])) /\ (j = Len(s) \/ ~InWord(s[j + 1]))

\* The transcript of a chunk: its stripped turns, joined by spaces.
Transcript(chunk) ==
  LET said[n \in 0 .. Len(chunk)] ==
        IF n = 0 THEN <<>>
        ELSE said[n - 1] \o (IF n = 1 THEN <<>> ELSE <<" ">>) \o StripTags(turns[chunk[n]].text)
  IN  said[Len(chunk)]

\* The sum of f over the first n turns of a chunk.
Total(f(_), chunk, n) ==
  LET sum[i \in 0 .. n] == IF i = 0 THEN 0 ELSE sum[i - 1] + f(chunk[i]) IN sum[n]

StrippedLength(t) == Len(StripTags(turns[t].text))

RawLength(t) == Len(turns[t].text)

Words(t) == Cardinality(WordStarts(StripTags(turns[t].text)))

\* The first character of a turn in its chunk's transcript, from 0.
FirstChar(chunk, n) == Total(StrippedLength, chunk, n - 1) + n - 1

-----------------------------------------------------------------------------
(* The request, its chunks, and the recordings.                            *)

\* Any creature may be unknown, have no voice, or share its channel.
Resolve(s, accepted) ==
  /\ stage = "ask"
  /\ turns' = s /\ take' = accepted /\ stage' = "chunk"
  /\ UNCHANGED <<chunks, gens, parts, scene, show>>

SceneFails == stage' = "failed" /\ UNCHANGED <<turns, take, chunks, gens, parts, scene, show>>

ResolveFails == stage = "chunk" /\ SceneFails

Chunked ==
  LET add(done, t) ==
        IF done = <<>> \/ Total(RawLength, Last(done), Len(Last(done))) + RawLength(t) > MaxChars
        THEN Append(done, <<t>>)
        ELSE Append(Front(done), Append(Last(done), t))
  IN  FoldLeft(add, <<>>, [t \in DOMAIN turns |-> t])

ChunkTurns ==
  /\ stage = "chunk" /\ \A t \in DOMAIN turns : RawLength(t) <= MaxChars
  /\ chunks' = Chunked /\ stage' = "generate"
  /\ UNCHANGED <<turns, take, gens, parts, scene, show>>

\* A turn that is longer than a chunk cannot be split.
ChunkFails ==
  /\ stage = "chunk" /\ \E t \in DOMAIN turns : RawLength(t) > MaxChars
  /\ SceneFails

\* The recording of a chunk, spoken at a pace for each turn: when every
\* character was spoken, to whom the raw characters of the request belong,
\* and how long it is; "sound" (auxiliary) is the recording's sample that a
\* character begins at.
Spoken(i, chunk, pace) ==
  LET text == Transcript(chunk)
      turnOf(c) == CHOOSE n \in DOMAIN chunk :
                     c > FirstChar(chunk, n) /\ c <= FirstChar(chunk, n) + StrippedLength(chunk[n]) + 1
      takes(c) == IF text[c] = " " THEN 0 ELSE pace[turnOf(c)].letter
      waits(c) == IF c = FirstChar(chunk, turnOf(c)) + 1 THEN pace[turnOf(c)].lead ELSE 0
      from[c \in 1 .. Len(text) + 1] ==
        (IF c = 1 THEN 0 ELSE from[c - 1] + takes(c - 1)) + (IF c > Len(text) THEN 0 ELSE waits(c))
  IN  [length |-> from[Len(text) + 1] + Release,
       chars |-> [c \in DOMAIN text |-> [text |-> text[c], from |-> from[c], to |-> from[c] + takes(c),
                                        sound |-> <<i, from[c]>>]],
       segments |-> [n \in DOMAIN chunk |->
         [from |-> Total(RawLength, chunk, n - 1), to |-> Total(RawLength, chunk, n)]],
       normalized |-> FALSE]

\* A segment in the transcript's characters, instead of the request's.
NormalizeSegment(chunk, n, seg) ==
  LET t == chunk[n]
      raw == Total(RawLength, chunk, n - 1)
      map(b) == FirstChar(chunk, n)
                  + Cardinality(Kept(turns[t].text) \cap 1 .. (IF b <= raw THEN 0 ELSE b - raw))
  IN  [from |-> map(seg.from), to |-> map(seg.to)]

\* Mutant of Normalize: whatever was loaded is normalized again.
NormalizeAlways(chunk, gen) ==
  [gen EXCEPT !.segments = [n \in DOMAIN chunk |-> NormalizeSegment(chunk, n, @[n])], !.normalized = TRUE]

Normalize(chunk, gen) ==
  IF gen.normalized THEN gen
  ELSE [gen EXCEPT !.segments = [n \in DOMAIN chunk |-> NormalizeSegment(chunk, n, @[n])],
                   !.normalized = TRUE]

\* From the service or the cache, which holds what the service said.
Generate(pace) ==
  /\ stage = "generate" /\ Len(gens) < Len(chunks)
  /\ LET chunk == chunks[Len(gens) + 1]
     IN  /\ Transcript(chunk) # <<>> /\ DOMAIN pace = DOMAIN chunk
         /\ gens' = Append(gens, Normalize(chunk, Spoken(Len(gens) + 1, chunk, pace)))
  /\ UNCHANGED <<stage, turns, take, chunks, parts, scene, show>>

\* The service or the alignment fails, or returns too few words or characters.
GenerateFails == stage = "generate" /\ Len(gens) < Len(chunks) /\ SceneFails

\* What an accepted take is made of: recordings joined by silence, and one
\* character for the space between their turns.
Joined ==
  LET add(done, i) ==
        LET gen == gens[i]
            shift == done.length + (IF i = 1 THEN 0 ELSE ChunkGap)
            seam == IF i = 1 THEN <<>> ELSE <<[text |-> " ", from |-> done.length, to |-> shift, sound |-> Quiet]>>
        IN  [length |-> shift + gen.length,
             chars |-> done.chars \o seam \o
               [c \in DOMAIN gen.chars |-> [gen.chars[c] EXCEPT !.from = @ + shift, !.to = @ + shift]],
             segments |-> done.segments \o
               [n \in DOMAIN gen.segments |->
                  [from |-> gen.segments[n].from + done.segmentChars,
                   to |-> gen.segments[n].to + done.segmentChars]],
             segmentChars |-> done.segmentChars + Max({gen.segments[n].to : n \in DOMAIN gen.segments}) + 1,
             from |-> done.from \o [s \in 1 .. shift - done.length |-> Quiet]
                                \o [s \in 1 .. gen.length |-> <<i, s>>],
             normalized |-> TRUE]
  IN  FoldLeft(add,
        [length |-> 0, chars |-> <<>>, segments |-> <<>>, segmentChars |-> 0, from |-> <<>>, normalized |-> TRUE],
        [i \in DOMAIN gens |-> i])

\* The take becomes the one chunk of the scene.
JoinTake ==
  /\ stage = "generate" /\ Len(gens) = Len(chunks) /\ take /\ Len(chunks) > 1
  /\ LET whole == <<[t \in DOMAIN turns |-> t]>>
     IN  chunks' = whole /\ gens' = <<Normalize(whole[1], Joined)>>
  /\ UNCHANGED <<stage, turns, take, parts, scene, show>>

-----------------------------------------------------------------------------
(* Assembly.                                                               *)

\* The sample that a recording has at a position.
SampleOf(i, gen, s) == IF "from" \in DOMAIN gen THEN gen.from[s] ELSE <<i, s>>

Bounded(x, top) == IF x < 0 THEN 0 ELSE IF x > top THEN top ELSE x

Middle(x, y) == (x + y + 1) \div 2

\* The word that a turn begins or ends with, by counting words, not by
\* looking for them.
TurnWords(i) ==
  LET chunk == chunks[i]
      text == [c \in DOMAIN gens[i].chars |-> gens[i].chars[c].text]
      nth(k) == CHOOSE c \in WordStarts(text) : Cardinality(WordStarts(text) \cap 1 .. c) = k
  IN  [n \in DOMAIN chunk |->
         LET base == Total(Words, chunk, n - 1)
         IN  [from |-> gens[i].chars[nth(base + 1)].from,
              to |-> gens[i].chars[WordEnd(text, nth(base + Words(chunk[n])))].to]]

\* The pieces of a chunk: from a little before a turn's first word to a while
\* after its last, but not past the middle of the pause to its neighbour.
Slices(i) ==
  LET chunk == chunks[i]
      gen == gens[i]
      said == TurnWords(i)
      lo(n) == IF n = 1 THEN 0 ELSE Bounded(Middle(said[n - 1].to, said[n].from), gen.length)
      hi(n) == IF n = Len(chunk) THEN gen.length ELSE Bounded(Middle(said[n].to, said[n + 1].from), gen.length)
      a(n) == Max({lo(n), Bounded(said[n].from, gen.length) - PadIn})
      b(n) == Min({hi(n), Bounded(said[n].to, gen.length) + PadOut})
  IN  SelectSeq([n \in DOMAIN chunk |-> [turn |-> chunk[n], n |-> n, from |-> a(n), to |-> b(n)]],
                LAMBDA slice : slice.to > slice.from)

\* Where slices begin when they follow each other at TurnGap.
Placed(slices) ==
  LET at[k \in 1 .. Len(slices) + 1] ==
        IF k = 1 THEN 0 ELSE at[k - 1] + slices[k - 1].to - slices[k - 1].from
                              + (IF k > Len(slices) THEN 0 ELSE TurnGap)
  IN  at

\* A voice's samples and characters; "of" (auxiliary) is a character's turn.
Lane(i, slices, at, v) ==
  LET mine == {k \in DOMAIN slices : turns[slices[k].turn].voice = v}
      said(k) == LET first == FirstChar(chunks[i], slices[k].n)
                 IN  [c \in 1 .. StrippedLength(slices[k].turn) |->
                        LET char == gens[i].chars[first + c]
                            shift == at[k] - slices[k].from
                        IN  [text |-> char.text, from |-> char.from + shift, to |-> char.to + shift,
                             sound |-> char.sound, of |-> slices[k].turn]]
  IN  [pcm |-> [s \in 1 .. at[Len(slices) + 1] |->
                  IF \E k \in mine : s > at[k] /\ s <= at[k] + slices[k].to - slices[k].from
                  THEN LET k == CHOOSE k \in mine : s > at[k] /\ s <= at[k] + slices[k].to - slices[k].from
                       IN  SampleOf(i, gens[i], s - at[k] + slices[k].from)
                  ELSE Quiet],
       chars |-> FlattenSeq([k \in DOMAIN slices |-> IF k \in mine THEN said(k) ELSE <<>>])]

\* Each voice of a chunk, on the chunk's own time.
AssembleChunk(i) ==
  /\ stage = "generate" /\ Len(gens) = Len(chunks) /\ (take => Len(chunks) = 1)
  /\ i = Len(parts) + 1 /\ i <= Len(chunks)
  /\ \A n \in DOMAIN chunks[i] : Words(chunks[i][n]) > 0
  /\ LET slices == Slices(i)
         at == Placed(slices)
     IN  /\ slices # <<>>
         /\ parts' = Append(parts, [total |-> at[Len(slices) + 1],
                                    lane |-> [v \in Voice |-> Lane(i, slices, at, v)]])
  /\ UNCHANGED <<stage, turns, take, chunks, gens, scene, show>>

\* A turn has no words, or no turn left anything.
AssembleFails(i) ==
  /\ stage = "generate" /\ Len(gens) = Len(chunks) /\ (take => Len(chunks) = 1)
  /\ i = Len(parts) + 1 /\ i <= Len(chunks)
  /\ \/ \E n \in DOMAIN chunks[i] : Words(chunks[i][n]) = 0
     \/ /\ \A n \in DOMAIN chunks[i] : Words(chunks[i][n]) > 0
        /\ Slices(i) = <<>>
  /\ SceneFails

Silent(n) == [s \in 1 .. n |-> Quiet]

\* Mutant of After: the pause between chunks is heard, but not counted.
AfterForgetful(done, part) ==
  [total |-> done.total + (IF done.total = 0 THEN 0 ELSE ChunkGap) + part.total,
   lane |-> [v \in Voice |->
     [pcm |-> done.lane[v].pcm \o Silent(IF done.total = 0 THEN 0 ELSE ChunkGap) \o part.lane[v].pcm,
      chars |-> done.lane[v].chars \o
        [c \in DOMAIN part.lane[v].chars |->
           [part.lane[v].chars[c] EXCEPT !.from = @ + done.total, !.to = @ + done.total]]]]]

After(done, part) ==
  LET pause == IF done.total = 0 THEN 0 ELSE ChunkGap
      shift == done.total + pause
  IN  [total |-> shift + part.total,
       lane |-> [v \in Voice |->
         [pcm |-> done.lane[v].pcm \o Silent(pause) \o part.lane[v].pcm,
          chars |-> done.lane[v].chars \o
            [c \in DOMAIN part.lane[v].chars |->
               [part.lane[v].chars[c] EXCEPT !.from = @ + shift, !.to = @ + shift]]]]]

ConcatChunks ==
  /\ stage = "generate" /\ parts # <<>> /\ Len(parts) = Len(chunks)
  /\ scene' = FoldLeft(After, [total |-> 0, lane |-> [v \in Voice |-> [pcm |-> <<>>, chars |-> <<>>]]], parts)
  /\ stage' = "file"
  /\ UNCHANGED <<turns, take, chunks, gens, parts, show>>

\* The music, if it is still what was accepted, may outlast the dialog.
LoadMusic(length) ==
  /\ stage = "file"
  /\ show' = Max({scene.total, length}) /\ stage' = "done"
  /\ UNCHANGED <<turns, take, chunks, gens, parts, scene>>

FileFails == stage = "file" /\ SceneFails

-----------------------------------------------------------------------------
(* Mouths.                                                                 *)

\* Words of a lane, as its letters tell them: a turn that does not end in a
\* mark runs on into the next turn of its voice.
Letter(c) == c.text = "a"

MouthWords(chars) ==
  LET starts == {i \in DOMAIN chars : Letter(chars[i]) /\ (i = 1 \/ ~Letter(chars[i - 1]))}
      last(i) == CHOOSE j \in i .. Len(chars) :
                   (\A k \in i .. j : Letter(chars[k])) /\ (j = Len(chars) \/ ~Letter(chars[j + 1]))
  IN  {[from |-> chars[i].from, to |-> chars[last(i)].to,
        runsOn |-> chars[i].of # chars[last(i)].of] : i \in starts}

Frames == (show + FrameSize - 1) \div FrameSize

\* Words that have a lane's mouth open at a frame.
Opening(v, f) ==
  {w \in MouthWords(scene.lane[v].chars) :
     w.to > w.from /\ f >= w.from \div FrameSize /\ f < w.to \div FrameSize}

-----------------------------------------------------------------------------

SceneNext ==
  \/ \E s \in Scenes, accepted \in BOOLEAN : Resolve(s, accepted)
  \/ ResolveFails \/ ChunkTurns \/ ChunkFails
  \/ \E pace \in UNION {[1 .. n -> Paces] : n \in 1 .. Len(turns)} : Generate(pace)
  \/ GenerateFails \/ JoinTake
  \/ \E i \in DOMAIN chunks : AssembleChunk(i) \/ AssembleFails(i)
  \/ ConcatChunks \/ (\E length \in {0, MusicLength} : LoadMusic(length)) \/ FileFails

-----------------------------------------------------------------------------
(* Properties.                                                             *)

\* Samples of a frame.
During(f) == {s \in DOMAIN scene.lane[CHOOSE v \in Voice : TRUE].pcm :
                (s - 1) \div FrameSize = f}

Heard(v, s) == scene.lane[v].pcm[s] # Quiet

Precedes(x, y) == x[1] < y[1] \/ (x[1] = y[1] /\ x[2] < y[2])

(* Safety (DialogPipeline.cpp: clamp each turn's slice so we never grab    *)
(* the neighbor's audio; char timings shift by (pos - a)/SR; and           *)
(* DialogPreviewAssembly.cpp: the merged stream still matches the          *)
(* transcript): at no moment do two voices sound, no sample is heard twice *)
(* or out of order, a character is on the lane and at the time at which    *)
(* the samples of its speaking are heard, the segment of a turn is its     *)
(* characters in the transcript, and a beak is open only while its own     *)
(* voice is heard, unless a word runs on into its voice's next turn.       *)
ScenesKeepTime ==
  /\ stage \in {"ask", "chunk", "generate", "file", "done", "failed"}
  /\ \A i \in DOMAIN gens : \A n \in DOMAIN chunks[i] :
       /\ gens[i].segments[n].from = FirstChar(chunks[i], n)
       /\ gens[i].segments[n].to = FirstChar(chunks[i], n) + StrippedLength(chunks[i][n])
  /\ stage = "done" =>
       /\ \A v, w \in Voice : \A s, r \in 1 .. scene.total :
            (Heard(v, s) /\ Heard(w, r)) =>
              /\ s = r => v = w
              /\ s < r => Precedes(scene.lane[v].pcm[s], scene.lane[w].pcm[r])
       /\ \A v, w \in Voice : \A c \in DOMAIN scene.lane[v].chars :
            LET char == scene.lane[v].chars[c]
            IN  \A j \in 1 .. char.to - char.from : \A s \in 1 .. scene.total :
                  scene.lane[w].pcm[s] = <<char.sound[1], char.sound[2] + j>> =>
                    v = w /\ s = char.from + j
       /\ \A v \in Voice : \A f \in 0 .. Frames - 1 : \A w \in Opening(v, f) :
            ~w.runsOn => \E s \in During(f) : Heard(v, s)

=============================================================================
