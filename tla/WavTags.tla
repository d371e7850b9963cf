------------------------------- MODULE WavTags -------------------------------
(***************************************************************************)
(* What a rendered WAV file says of itself.  The provenance of a render is *)
(* kept in a cache as JSON, written as an iXML document into a chunk after *)
(* the audio, and read back by whoever serves or promotes the file, while  *)
(* it may still be growing.                                                *)
(*                                                                         *)
(* A text is a sequence of characters, and so is a document; names of tags *)
(* and of entities, and numbers, count as one character.  A file is a      *)
(* sequence of cells: the head of a chunk, or one byte of its payload.     *)
(* The fields of the music's recipe are Recipe's.                          *)
(***************************************************************************)
EXTENDS Integers, FiniteSets, SequencesExt, TLC

CONSTANTS
  Provenances, \* [uid, title, circled, ids, tracks, script, lipsync, music] that are rendered
  Widths,      \* numbers of channels a writer may declare, or 0
  Recipe,      \* tags of the music's fields, in their order
  Control,     \* characters that XML forbids
  AudioBytes,     \* bytes of audio
  MaxPayload,  \* kMaxIxmlPayloadBytes
  MaxNumber,   \* bound of the numbers that occur
  Cuts         \* numbers of bytes by which a growing file may be short

ASSUME WavTagsAssumption ==
  /\ {MaxPayload, MaxNumber, AudioBytes} \cup Widths \cup Cuts \subseteq Nat
  /\ AudioBytes % 2 = 0

VARIABLES
  tags,  \* provenance of the render
  width, \* channels its writer declares
  saved, \* whether the tags come out of a cache
  file,
  told   \* what a reader was told: [whole, tags]

wavTagsVars == <<tags, width, saved, file, told>>

NoTags == [uid |-> <<>>, title |-> <<>>, circled |-> {}, ids |-> <<>>, tracks |-> <<>>, script |-> <<>>,
           lipsync |-> <<>>, music |-> {}]

WavTagsInit ==
  /\ tags = NoTags /\ width = 0 /\ saved = FALSE /\ file = <<>>
  /\ told = [whole |-> FALSE, tags |-> {}]

-----------------------------------------------------------------------------
(* Writing a document.                                                     *)

Entity == ("&" :> "amp") @@ ("<" :> "lt") @@ (">" :> "gt") @@ ("'" :> "apos") @@ ("\"" :> "quot")

XmlEscape(text) ==
  FlattenSeq([i \in DOMAIN text |->
                IF text[i] \in DOMAIN Entity THEN <<"&", Entity[text[i]], ";">>
                ELSE IF text[i] \in Control THEN <<" ">> ELSE <<text[i]>>])

Element(tag, content) == <<"<", tag, ">">> \o content \o <<"<", "/", tag, ">">>

Field(tag, text) == Element(tag, XmlEscape(text))

Number(n) == <<ToString(n)>>

\* Texts with a separator between them.
Join(texts, between) ==
  FlattenSeq([i \in DOMAIN texts |-> IF i = 1 THEN texts[i] ELSE <<between>> \o texts[i]])

TrackRow(channel, name, payload) ==
  Element("TRACK", Field("CHANNEL_INDEX", Number(channel)) \o Field("NAME", name) \o payload)

\* One for each channel of the file, or those that are known.
TrackList(p, channels) ==
  LET named(c) == {i \in DOMAIN p.tracks : p.tracks[i].channel = c}
      rows == IF channels > 0
              THEN [c \in 1 .. channels |->
                      TrackRow(c, IF named(c) = {} THEN <<>> ELSE p.tracks[Max(named(c))].name, <<>>)]
              ELSE [i \in DOMAIN p.tracks |-> TrackRow(p.tracks[i].channel, p.tracks[i].name, <<>>)]
  IN  IF rows = <<>> THEN <<>>
      ELSE Element("TRACK_LIST", Field("TRACK_COUNT", Number(Len(rows))) \o FlattenSeq(rows))

\* Times in tenths of a millisecond, as milliseconds.
Rounded(t) == (t + 5) \div 10

PackTimedTokens(tokens) ==
  Join([i \in DOMAIN tokens |->
          Number(Rounded(tokens[i].from)) \o <<" ">> \o Number(Rounded(tokens[i].to)) \o <<" ">>
            \o [k \in DOMAIN tokens[i].text |-> IF tokens[i].text[k] = ";" THEN "," ELSE tokens[i].text[k]]],
       ";")

\* Mouth cues and words, in sections of the same form.
TimedSection(section, payload, rows) ==
  IF rows = <<>> THEN <<>>
  ELSE Element(section, FlattenSeq([i \in DOMAIN rows |->
                 TrackRow(rows[i].channel, rows[i].name, Field(payload, PackTimedTokens(rows[i].tokens)))]))

\* A recipe without a request and without a generation says nothing.
MusicSays(m) == m["REQUEST_JSON"] # <<>> \/ m["MUSIC_GENERATION_ID"] # <<>>

MusicProvenance(p) ==
  FlattenSeq([i \in DOMAIN SetToSeq(p.music) |->
                IF ~MusicSays(SetToSeq(p.music)[i]) THEN <<>>
                ELSE Element("MUSIC_PROVENANCE",
                             FlattenSeq([k \in DOMAIN Recipe |-> Field(Recipe[k], SetToSeq(p.music)[i][Recipe[k]])]))])

BuildIxml(p, channels) ==
  Element("BWFXML",
    (IF p.title = <<>> THEN <<>> ELSE Field("SCENE", p.title))
      \o (IF TRUE \in p.circled THEN Field("CIRCLED", <<"TRUE">>)
          ELSE IF FALSE \in p.circled THEN Field("CIRCLED", <<"FALSE">>) ELSE <<>>)
      \o (IF p.uid = <<>> THEN <<>> ELSE Field("FILE_UID", p.uid))
      \o TrackList(p, channels)
      \o Element("USER",
           Field("TITLE", p.title)
             \o Field("GENERATION_IDS", Join(p.ids, ","))
             \o Field("DIALOG_SCRIPT", Join([i \in DOMAIN p.script |->
                                             p.script[i].speaker \o <<":", " ">> \o p.script[i].text], "\n"))
             \o MusicProvenance(p)
             \o TimedSection("LIPSYNC", "CUES", p.lipsync)))

-----------------------------------------------------------------------------
(* The file.                                                               *)

ChunkHead(id, size) == [id |-> id, size |-> size, byte |-> ""]

Byte(b) == [id |-> "", size |-> 0, byte |-> b]

Bytes(text) == [i \in DOMAIN text |-> Byte(text[i])]

\* Mutant of MakeIxmlChunk: a payload of odd length is not padded.
MakeUnpaddedChunk(document) == <<ChunkHead("iXML", Len(document))>> \o Bytes(document)

MakeIxmlChunk(document) ==
  <<ChunkHead("iXML", Len(document))>> \o Bytes(document) \o (IF Len(document) % 2 = 1 THEN <<Byte("pad")>> ELSE <<>>)

Says(p) ==
  p.uid # <<>> \/ p.title # <<>> \/ p.circled # {} \/ p.ids # <<>> \/ p.tracks # <<>> \/ p.script # <<>>
    \/ p.lipsync # <<>> \/ \E m \in p.music : MusicSays(m)

RenderedFile ==
  <<ChunkHead("fmt ", 2), Byte("pcm"), Byte("16"), ChunkHead("data", AudioBytes)>>
    \o [i \in 1 .. AudioBytes |-> Byte("sample")]
    \o (IF Says(tags) THEN MakeIxmlChunk(BuildIxml(tags, width)) ELSE <<>>)

\* The payload of the first iXML chunk, if the file holds all of it; the other
\* chunks are skipped by their sizes.
ReadIxmlChunk(cells) ==
  LET found[p \in 1 .. Len(cells) + 1] ==
        IF p > Len(cells) THEN {}
        ELSE LET size == cells[p].size
                 padded == size + (size % 2)
             IN  IF p + padded > Len(cells) THEN {}
                 ELSE IF cells[p].id # "iXML" THEN found[p + padded + 1]
                 ELSE IF size > MaxPayload THEN {}
                 ELSE {[i \in 1 .. size |-> cells[p + i].byte]}
  IN  found[1]

-----------------------------------------------------------------------------
(* Reading a document.                                                     *)

\* The first place from which on a text reads so, or 0.
Find(text, part, from) ==
  LET places == {i \in from .. Len(text) - Len(part) + 1 : SubSeq(text, i, i + Len(part) - 1) = part}
  IN  IF places = {} THEN 0 ELSE Min(places)

\* The first element with a tag: its content and what follows it.
FirstElement(document, tag) ==
  LET open == Find(document, <<"<", tag, ">">>, 1)
      close == IF open = 0 THEN 0 ELSE Find(document, <<"<", "/", tag, ">">>, open + 3)
  IN  IF close = 0 THEN {}
      ELSE {[content |-> SubSeq(document, open + 3, close - 1), rest |-> SubSeq(document, close + 4, Len(document))]}

\* Mutant of XmlUnescape: ampersands first, and then the others.
UnescapeTwice(text) ==
  LET once[i \in 1 .. Len(text) + 1] ==
        IF i > Len(text) THEN <<>>
        ELSE IF SubSeq(text, i, Min({i + 2, Len(text)})) = <<"&", "amp", ";">> THEN <<"&">> \o once[i + 3]
        ELSE <<text[i]>> \o once[i + 1]
      s == once[1]
      twice[i \in 1 .. Len(s) + 1] ==
        IF i > Len(s) THEN <<>>
        ELSE IF \E c \in DOMAIN Entity : SubSeq(s, i, Min({i + 2, Len(s)})) = <<"&", Entity[c], ";">>
             THEN <<CHOOSE c \in DOMAIN Entity : Entity[c] = s[i + 1]>> \o twice[i + 3]
        ELSE <<s[i]>> \o twice[i + 1]
  IN  twice[1]

XmlUnescape(text) ==
  LET rest[i \in 1 .. Len(text) + 1] ==
        IF i > Len(text) THEN <<>>
        ELSE IF \E c \in DOMAIN Entity : SubSeq(text, i, Min({i + 2, Len(text)})) = <<"&", Entity[c], ";">>
             THEN <<CHOOSE c \in DOMAIN Entity : Entity[c] = text[i + 1]>> \o rest[i + 3]
        ELSE <<text[i]>> \o rest[i + 1]
  IN  rest[1]

ExtractField(document, tag) == {XmlUnescape(e.content) : e \in FirstElement(document, tag)}

ValueOrEmpty(texts) == IF texts = {} THEN <<>> ELSE CHOOSE t \in texts : TRUE

NumberOf(text) == CHOOSE n \in 0 .. MaxNumber : ToString(n) = text[1]

\* The parts of a text between separators; a text that ends with one has an
\* empty part at its end.
Split(text, between) ==
  LET ends == SetToSortSeq({i \in DOMAIN text : text[i] = between} \cup {Len(text) + 1}, <)
  IN  [n \in DOMAIN ends |-> SubSeq(text, IF n = 1 THEN 1 ELSE ends[n - 1] + 1, ends[n] - 1)]

\* The elements of a section that follow each other with the tag TRACK.
Tracks(section) ==
  LET rows[left \in 0 .. Len(section)] ==
        LET next == FirstElement(SubSeq(section, Len(section) - left + 1, Len(section)), "TRACK")
        IN  IF next = {} THEN <<>>
            ELSE LET e == CHOOSE e \in next : TRUE IN <<e.content>> \o rows[Len(e.rest)]
  IN  rows[Len(section)]

\* Rows without a channel are passed over.
Rows(document, section) ==
  SelectSeq(FlattenSeq([i \in 1 .. Cardinality(FirstElement(document, section)) |->
                          Tracks((CHOOSE e \in FirstElement(document, section) : TRUE).content)]),
            LAMBDA row : ExtractField(row, "CHANNEL_INDEX") # {})

RowHead(row) ==
  [channel |-> NumberOf(ValueOrEmpty(ExtractField(row, "CHANNEL_INDEX"))),
   name |-> ValueOrEmpty(ExtractField(row, "NAME"))]

\* Entries without two spaces are passed over, and so is an empty last one.
ParseTimedTokens(packed) ==
  LET entries == SelectSeq(Split(packed, ";"), LAMBDA e : Cardinality({i \in DOMAIN e : e[i] = " "}) >= 2)
  IN  [i \in DOMAIN entries |->
         LET e == entries[i]
             first == Find(e, <<" ">>, 1)
             second == Find(e, <<" ">>, first + 1)
         IN  [from |-> NumberOf(e), to |-> NumberOf(SubSeq(e, first + 1, second - 1)),
              text |-> SubSeq(e, second + 1, Len(e))]]

\* Blank lines are passed over; a line's speaker ends at its first colon and space.
ParseDialogScriptTurns(blob) ==
  LET lines == SelectSeq(Split(blob, "\n"), LAMBDA l : l # <<>>)
  IN  [i \in DOMAIN lines |->
         LET mark == Find(lines[i], <<":", " ">>, 1)
         IN  IF mark = 0 THEN [speaker |-> <<>>, text |-> lines[i]]
             ELSE [speaker |-> SubSeq(lines[i], 1, mark - 1), text |-> SubSeq(lines[i], mark + 2, Len(lines[i]))]]

ParseIxmlProvenance(document) ==
  LET ids == ValueOrEmpty(ExtractField(document, "GENERATION_IDS"))
      rows == Rows(document, "TRACK_LIST")
      cues == Rows(document, "LIPSYNC")
  IN  [uid |-> ValueOrEmpty(ExtractField(document, "FILE_UID")),
       title |-> ValueOrEmpty(ExtractField(document, "TITLE")),
       circled |-> {text = <<"TRUE">> : text \in ExtractField(document, "CIRCLED")},
       ids |-> IF ids = <<>> THEN <<>> ELSE Split(ids, ","),
       tracks |-> [i \in DOMAIN rows |-> RowHead(rows[i])],
       script |-> ParseDialogScriptTurns(ValueOrEmpty(ExtractField(document, "DIALOG_SCRIPT"))),
       lipsync |-> [i \in DOMAIN cues |->
                      [channel |-> RowHead(cues[i]).channel, name |-> RowHead(cues[i]).name,
                       tokens |-> ParseTimedTokens(ValueOrEmpty(ExtractField(cues[i], "CUES")))]],
       music |-> {[f \in {Recipe[k] : k \in DOMAIN Recipe} |-> ValueOrEmpty(ExtractField(document, f))] :
                    e \in FirstElement(document, "MUSIC_PROVENANCE")}]

-----------------------------------------------------------------------------
(* The cache's sidecar: keys with their values; what is not known has no   *)
(* key, and a key that is missed has its default.                          *)

WavProvenanceToJson(p) ==
  [key \in {"uid", "title", "ids", "tracks", "script", "lipsync"}
             \cup (IF p.circled = {} THEN {} ELSE {"circled"}) \cup (IF p.music = {} THEN {} ELSE {"music"}) |-> p[key]]

WavProvenanceFromJson(j) ==
  [key \in {"uid", "title", "circled", "ids", "tracks", "script", "lipsync", "music"} |->
     IF key \in DOMAIN j THEN j[key] ELSE IF key \in {"circled", "music"} THEN {} ELSE <<>>]

\* A scene, a piece of music or speech is rendered: once in a behaviour.
Render(p, channels) ==
  /\ tags = NoTags /\ file = <<>> /\ ~saved /\ p # NoTags
  /\ tags' = p /\ width' = channels
  /\ UNCHANGED <<saved, file, told>>

SaveTags ==
  /\ ~saved /\ file = <<>>
  /\ saved' = TRUE /\ tags' = WavProvenanceFromJson(WavProvenanceToJson(tags))
  /\ UNCHANGED <<width, file, told>>

\* The file grows in its place.
WriteFile(missing) ==
  /\ missing < Len(RenderedFile) - Len(file)
  /\ file' = SubSeq(RenderedFile, 1, Len(RenderedFile) - missing)
  /\ UNCHANGED <<tags, width, saved, told>>

ReadProvenance ==
  /\ file # <<>>
  /\ told' = [whole |-> file = RenderedFile, tags |-> {ParseIxmlProvenance(d) : d \in ReadIxmlChunk(file)}]
  /\ UNCHANGED <<tags, width, saved, file>>

WavTagsNext ==
  \/ \E p \in Provenances, channels \in Widths : Render(p, channels)
  \/ SaveTags \/ ReadProvenance
  \/ \E missing \in Cuts : WriteFile(missing)

-----------------------------------------------------------------------------
(* Properties.                                                             *)

\* A text as it is read: XML forbids some characters.
Plain(text) == [i \in DOMAIN text |-> IF text[i] \in Control THEN " " ELSE text[i]]

\* Lines that keep their form: no line has a line break, no speaker the mark.
Tidy(script) ==
  \A i \in DOMAIN script :
    /\ \A k \in DOMAIN script[i].speaker : script[i].speaker[k] # "\n"
    /\ \A k \in DOMAIN script[i].text : script[i].text[k] # "\n"
    /\ Find(script[i].speaker, <<":", " ">>, 1) = 0

TidyIds(ids) == ids # <<<<>>>> /\ \A i \in DOMAIN ids : \A k \in DOMAIN ids[i] : ids[i][k] # ","

(* Safety (IxmlReader.h: this is the inverse of buildIxml; IxmlWriter.h:   *)
(* all values are XML-escaped, one track for each channel;                 *)
(* IxmlTimedTokens.h): what is read from a complete file is what was       *)
(* rendered, whatever its texts hold and though it went through a cache:   *)
(* names and texts, every channel with its last name, each cue with its    *)
(* time to the millisecond and a comma for a semicolon, the ids and the    *)
(* lines if they are free of the marks that part them; and a file that is  *)
(* still growing says nothing at all.                                      *)
TagsAreRead ==
  /\ Cardinality(told.tags) = (IF told.whole /\ Says(tags) /\ Len(BuildIxml(tags, width)) <= MaxPayload THEN 1 ELSE 0)
  /\ \A t \in told.tags :
       /\ t.uid = Plain(tags.uid) /\ t.title = Plain(tags.title) /\ t.circled = tags.circled
       /\ TidyIds(tags.ids) => t.ids = [i \in DOMAIN tags.ids |-> Plain(tags.ids[i])]
       /\ Tidy(tags.script) =>
            t.script = [i \in DOMAIN tags.script |->
                          [speaker |-> Plain(tags.script[i].speaker), text |-> Plain(tags.script[i].text)]]
       /\ Len(t.tracks) = (IF width = 0 THEN Len(tags.tracks) ELSE width)
       /\ \A i \in DOMAIN t.tracks :
            LET same == {k \in DOMAIN tags.tracks : tags.tracks[k].channel = t.tracks[i].channel}
            IN  IF width = 0 THEN t.tracks[i] = [tags.tracks[i] EXCEPT !.name = Plain(@)]
                ELSE /\ t.tracks[i].channel = i
                     /\ t.tracks[i].name = IF same = {} THEN <<>> ELSE Plain(tags.tracks[Max(same)].name)
       /\ Len(t.lipsync) = Len(tags.lipsync)
       /\ \A i \in DOMAIN t.lipsync :
            /\ t.lipsync[i].channel = tags.lipsync[i].channel /\ t.lipsync[i].name = Plain(tags.lipsync[i].name)
            /\ Len(t.lipsync[i].tokens) = Len(tags.lipsync[i].tokens)
            /\ \A k \in DOMAIN t.lipsync[i].tokens :
                 LET wrote == tags.lipsync[i].tokens[k]
                     read == t.lipsync[i].tokens[k]
                 IN  /\ read.from * 10 - wrote.from \in -4 .. 5 /\ read.to * 10 - wrote.to \in -4 .. 5
                     /\ read.text = [c \in DOMAIN wrote.text |-> IF wrote.text[c] = ";" THEN ","
                                                               ELSE Plain(wrote.text)[c]]
       /\ t.music = {[f \in DOMAIN m |-> Plain(m[f])] : m \in {m \in tags.music : MusicSays(m)}}

=============================================================================
