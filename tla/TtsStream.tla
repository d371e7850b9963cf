------------------------------ MODULE TtsStream ------------------------------
(***************************************************************************)
(* One request to the streaming speech service.  The service answers with  *)
(* messages, each with a piece of audio, the times of some characters, or  *)
(* both.  Over a WebSocket a message comes in one or more frames, control  *)
(* frames may come between its fragments, and a message may say that it is *)
(* the last.  Over HTTP a message is a line, and the body arrives cut at   *)
(* any place.  What was heard becomes a file, and mouth cues: from the     *)
(* characters if their times came, else from the words of the request.     *)
(*                                                                         *)
(* A message is [binary, audio, marks, chars, final, pieces]; the audio    *)
(* and the marks are "good", "damaged" or "none", and its size counts in   *)
(* pieces.  Heard audio is the sequence of the numbers of the messages it  *)
(* came with.  The service is external: it follows the protocols, but may  *)
(* stop at any moment.                                                     *)
(***************************************************************************)
EXTENDS Integers, FiniteSets, SequencesExt

CONSTANTS
  Answers,     \* sequences of messages the service may answer with
  Asked,       \* the words of the request
  Entries,     \* lines of the dictionary: [word, visemes]
  VisemeOf,    \* function from letters to the viseme they are guessed to be
  MaxBuffered, \* pieces that may be kept while a message is incomplete
  MaxControl,  \* control frames in a behaviour
  PieceLength, \* estimated duration of a message's audio, in ticks
  SmallGap,    \* pauses between words that are not heard, in ticks
  Scale        \* parts of a tick

ASSUME TtsAssumption ==
  /\ {MaxBuffered, MaxControl, PieceLength, SmallGap} \subseteq Nat
  /\ Scale \in Nat \ {0}
  /\ \A a \in Answers : \A m \in DOMAIN a : a[m].pieces \in Nat \ {0}
  /\ "B" \in {VisemeOf[c] : c \in DOMAIN VisemeOf}

VARIABLES
  way,       \* "socket" or "http"
  answer,    \* what the service says
  call,      \* "ask", "connect", "listen", "wrap", "done" or "failed"
  sent,      \* socket: frames of the request that were sent
  at,        \* [message, piece] the service sent last, or of the body's last token
  buffer,    \* fragments, or the tokens of a line, that wait for the rest
  controls,    \* control frames so far
  heard,     \* [audio, chars]
  ending,    \* why listening ended: "open", "final", "closed" or "lost"
  mouthCues       \* the answer's cues

ttsVars == <<way, answer, call, sent, at, buffer, controls, heard, ending, mouthCues>>

TtsInit ==
  /\ way \in {"socket", "http"} /\ answer \in Answers
  /\ way = "http" => \A m \in DOMAIN answer : ~answer[m].binary /\ ~answer[m].final
  /\ call = "ask" /\ sent = 0 /\ at = [message |-> 1, piece |-> 0]
  /\ buffer = <<>> /\ controls = 0
  /\ heard = [audio |-> <<>>, chars |-> <<>>] /\ ending = "open" /\ mouthCues = <<>>

-----------------------------------------------------------------------------
(* What a message adds to what was heard.  Damaged audio is skipped and    *)
(* its marks are kept; damaged marks are skipped and the audio is kept.    *)

Hear(h, m) ==
  LET message == answer[m]
  IN  [audio |-> h.audio \o (IF message.binary \/ message.audio = "good" THEN <<m>> ELSE <<>>),
       chars |-> h.chars \o (IF ~message.binary /\ message.marks = "good" THEN message.chars ELSE <<>>)]

\* The message that a sequence of its pieces is, or none: such a text does not parse.
Whole(pieces) ==
  {m \in DOMAIN answer : pieces = [k \in 1 .. Len(pieces) |-> <<m, k>>] /\ pieces # <<>>
                           /\ Len(pieces) = answer[m].pieces}

Parse(h, pieces) ==
  IF Whole(pieces) = {} THEN h ELSE Hear(h, CHOOSE m \in Whole(pieces) : TRUE)

-----------------------------------------------------------------------------
(* The WebSocket.                                                          *)

\* Refused: no creature, no voice, a model that does not stream.
Refuse ==
  /\ call = "ask" /\ way = "socket" /\ call' = "failed"
  /\ UNCHANGED <<way, answer, sent, at, buffer, controls, heard, ending, mouthCues>>

\* Address, socket, TLS and upgrade; any of them fails.
ConnectWebSocket ==
  /\ call = "ask" /\ way = "socket" /\ call' \in {"connect", "failed"}
  /\ UNCHANGED <<way, answer, sent, at, buffer, controls, heard, ending, mouthCues>>

\* The beginning, the text and the end of the stream.
SendTextFrame ==
  /\ call = "connect" /\ sent < 3
  /\ \/ sent' = sent + 1 /\ call' = (IF sent = 2 THEN "listen" ELSE call)
     \/ UNCHANGED sent /\ call' = "failed"
  /\ UNCHANGED <<way, answer, at, buffer, controls, heard, ending, mouthCues>>

Listening == call = "listen" /\ way = "socket"

\* A frame with the pieces from..to of message m.  Fragments are kept until
\* the one that is final; a text that is not whole does not parse.
DataFrame(m, to) ==
  LET from == at.piece + 1
      fin == to = answer[m].pieces
      pieces == [k \in 1 .. to - from + 1 |-> <<m, from + k - 1>>]
      continues == from > 1
      payload == IF continues THEN buffer \o pieces ELSE pieces
  IN  /\ Listening /\ m = at.message /\ m <= Len(answer) /\ from <= to /\ to <= answer[m].pieces
      /\ at' = (IF fin THEN [message |-> m + 1, piece |-> 0] ELSE [message |-> m, piece |-> to])
      /\ IF continues /\ Len(payload) > MaxBuffered
         THEN call' = "failed" /\ UNCHANGED <<buffer, heard, ending>>
         ELSE IF ~fin THEN buffer' = payload /\ UNCHANGED <<call, heard, ending>>
         ELSE /\ buffer' = (IF continues THEN <<>> ELSE buffer)
              /\ IF answer[m].final /\ Whole(payload) = {m}
                 THEN call' = "wrap" /\ ending' = "final" /\ UNCHANGED heard
                 ELSE heard' = Parse(heard, payload) /\ UNCHANGED <<call, ending>>
      /\ UNCHANGED <<way, answer, sent, controls, mouthCues>>

\* Mutant of ControlFrame: whatever is not a continuation begins anew.
ControlFrameClears ==
  /\ Listening /\ controls < MaxControl /\ controls' = controls + 1 /\ buffer' = <<>>
  /\ UNCHANGED <<way, answer, call, sent, at, heard, ending, mouthCues>>

\* A ping is answered, a pong and what is not known are passed over; the
\* fragments stay.
ControlFrame ==
  /\ Listening /\ controls < MaxControl /\ controls' = controls + 1
  /\ UNCHANGED <<way, answer, call, sent, at, buffer, heard, ending, mouthCues>>

\* A frame that claims to be too large.
OversizedFrame ==
  /\ Listening /\ call' = "failed"
  /\ UNCHANGED <<way, answer, sent, at, buffer, controls, heard, ending, mouthCues>>

\* The service closes, or the connection is lost in the middle of a frame:
\* either way what was heard is the answer.
StreamEnds(why) ==
  /\ Listening /\ why \in {"closed", "lost"}
  /\ (why = "closed") => at.message > Len(answer)
  /\ call' = "wrap" /\ ending' = why
  /\ UNCHANGED <<way, answer, sent, at, buffer, controls, heard, mouthCues>>

-----------------------------------------------------------------------------
(* HTTP.  The body: the pieces of each message and the end of its line;    *)
(* the last line may lack its end.                                         *)

Newline == <<0, 0>>

ResponseBody ==
  FlattenSeq([m \in DOMAIN answer |->
                [k \in 1 .. answer[m].pieces + 1 |-> IF k > answer[m].pieces THEN Newline ELSE <<m, k>>]])

\* Tokens of the body that have arrived.
Arrived == FoldLeft(LAMBDA n, m : n + answer[m].pieces + 1, 0, [m \in 1 .. at.message - 1 |-> m]) + at.piece

\* The lines of a text that are complete, and what follows them.
Lines(text) ==
  LET ends == {i \in DOMAIN text : text[i] = Newline}
      line(e) == LET before == {b \in ends : b < e}
                     first == IF before = {} THEN 1 ELSE Max(before) + 1
                 IN  SubSeq(text, first, e - 1)
  IN  [complete |-> [n \in 1 .. Cardinality(ends) |->
                       line(CHOOSE e \in ends : Cardinality(ends \cap 1 .. e) = n)],
       rest |-> IF ends = {} THEN text ELSE SubSeq(text, Max(ends) + 1, Len(text))]

\* The write callback: data are appended to the line buffer, its complete
\* lines parsed, and the remainder kept.
WriteCallback(data) ==
  LET text == Lines(buffer \o data)
  IN  [buffer |-> text.rest, heard |-> FoldLeft(Parse, heard, text.complete)]

PostRequest ==
  /\ call = "ask" /\ way = "http" /\ call' \in {"listen", "failed"}
  /\ UNCHANGED <<way, answer, sent, at, buffer, controls, heard, ending, mouthCues>>

\* Any number of tokens arrives at once.
BodyArrives(n) ==
  /\ call = "listen" /\ way = "http" /\ n > Arrived /\ n <= Len(ResponseBody)
  /\ LET written == WriteCallback(SubSeq(ResponseBody, Arrived + 1, n))
     IN  buffer' = written.buffer /\ heard' = written.heard
  /\ LET ends == {i \in 1 .. n : ResponseBody[i] = Newline}
     IN  at' = [message |-> Cardinality(ends) + 1, piece |-> n - Max(ends \cup {0})]
  /\ UNCHANGED <<way, answer, call, sent, controls, ending, mouthCues>>

\* What is left is a line without its end: a newline is added to the buffer,
\* and the buffer is passed to the callback, which appends it to itself.
ResponseEnds ==
  /\ call = "listen" /\ way = "http" /\ Arrived >= Len(ResponseBody) - 1
  /\ call' = "wrap" /\ ending' = "closed"
  /\ IF buffer = <<>> THEN UNCHANGED <<buffer, heard>>
     ELSE LET whole == Append(buffer, Newline)
              text == Lines(whole \o whole)
          IN  buffer' = text.rest /\ heard' = FoldLeft(Parse, heard, text.complete)
  /\ UNCHANGED <<way, answer, sent, at, controls, mouthCues>>

\* A status other than success, a timeout, or a connection that is lost.
ResponseFails ==
  /\ call = "listen" /\ way = "http" /\ call' = "failed"
  /\ UNCHANGED <<way, answer, sent, at, buffer, controls, heard, ending, mouthCues>>

-----------------------------------------------------------------------------
(* Mouth cues.                                                             *)

\* The first pronunciation of a word that the dictionary lists, or what its
\* letters suggest; signs such as an apostrophe suggest nothing.
Visemes(word) ==
  LET listed == {i \in DOMAIN Entries : Entries[i].word = word}
      guessed == SelectSeq(word, LAMBDA c : c \in DOMAIN VisemeOf)
  IN  IF listed # {} THEN Entries[Min(listed)].visemes
      ELSE [i \in DOMAIN guessed |-> VisemeOf[guessed[i]]]

\* Runs of characters that are letters or apostrophes.
Spelling(c) == c.text # " "

CharWords(chars) ==
  LET starts == {i \in DOMAIN chars : Spelling(chars[i]) /\ (i = 1 \/ ~Spelling(chars[i - 1]))}
      last(i) == CHOOSE j \in i .. Len(chars) :
                   (\A k \in i .. j : Spelling(chars[k])) /\ (j = Len(chars) \/ ~Spelling(chars[j + 1]))
      nth(n) == CHOOSE i \in starts : Cardinality(starts \cap 1 .. i) = n
  IN  [n \in 1 .. Cardinality(starts) |->
         LET i == nth(n)
         IN  [word |-> [k \in 1 .. last(i) - i + 1 |-> chars[i + k - 1].text],
              from |-> chars[i].from * Scale, to |-> chars[last(i)].to * Scale]]

\* Without marks: the words of the request, evenly, with a fifth of pause.
EvenWords(duration) ==
  [n \in DOMAIN Asked |->
     LET each == (duration * Scale) \div Len(Asked)
     IN  [word |-> Asked[n], from |-> (n - 1) * each, to |-> (n - 1) * each + (4 * each) \div 5]]

Cue(from, to, value) == [from |-> from, to |-> to, value |-> value]

\* Cues of the n-th word and of the pause that follows it.
WordCues(words, n) ==
  LET w == words[n]
      visemes == Visemes(w.word)
      each == (w.to - w.from) \div Len(visemes)
      pause == IF n < Len(words) /\ words[n + 1].from - w.to > SmallGap * Scale
               THEN <<Cue(w.to, words[n + 1].from, "X")>> ELSE <<>>
  IN  IF w.to <= w.from THEN <<>>
      ELSE IF visemes = <<>> THEN <<Cue(w.from, w.to, "B")>>
      ELSE [i \in DOMAIN visemes |-> Cue(w.from + (i - 1) * each, w.from + i * each, visemes[i])] \o pause

\* Equal neighbours become one cue.
Merge(done, cue) ==
  IF done # <<>> /\ Last(done).value = cue.value
  THEN Append(Front(done), [Last(done) EXCEPT !.to = cue.to])
  ELSE Append(done, cue)

WordsToMouthCues(words) ==
  LET silence == IF words # <<>> /\ words[1].from > 0 THEN <<Cue(0, words[1].from, "X")>> ELSE <<>>
  IN  FoldLeft(Merge, <<>>, silence \o FlattenSeq([n \in DOMAIN words |-> WordCues(words, n)]))

SpokenWords ==
  IF heard.chars # <<>> THEN CharWords(heard.chars) ELSE EvenWords(Len(heard.audio) * PieceLength)

\* An answer without audio is an error; the file may not be written.
Finish ==
  /\ call = "wrap"
  /\ IF heard.audio = <<>> THEN call' = "failed" /\ UNCHANGED mouthCues
     ELSE \/ call' = "done" /\ mouthCues' = WordsToMouthCues(SpokenWords)
          \/ call' = "failed" /\ UNCHANGED mouthCues
  /\ UNCHANGED <<way, answer, sent, at, buffer, controls, heard, ending>>

TtsNext ==
  \/ Refuse \/ ConnectWebSocket \/ SendTextFrame
  \/ \E m \in DOMAIN answer, to \in 1 .. Max({answer[k].pieces : k \in DOMAIN answer}) : DataFrame(m, to)
  \/ ControlFrame \/ OversizedFrame
  \/ \E why \in {"closed", "lost"} : StreamEnds(why)
  \/ PostRequest \/ (\E n \in 1 .. Len(ResponseBody) : BodyArrives(n))
  \/ ResponseEnds \/ ResponseFails
  \/ Finish

-----------------------------------------------------------------------------
(* Properties.                                                             *)

\* Messages up to the n-th with audio or characters that can be used.
WithAudio(n) == {m \in 1 .. n : answer[m].binary \/ answer[m].audio = "good"}

\* Mark times are those of the messages, in their order.
CharsOf(ms) ==
  FlattenSeq([m \in 1 .. ms |-> IF answer[m].binary \/ answer[m].marks # "good" THEN <<>> ELSE answer[m].chars])

(* Safety (StreamingTTSClient.cpp: reassembled fragments, complete lines): *)
(* what is heard is the usable audio and marks of the messages the service *)
(* has sent completely, each once and in its order, however they were cut  *)
(* and whatever came between; an answer over HTTP holds all of them, and   *)
(* one that ended with the last message all before it; only the line of an *)
(* HTTP body that has no end is heard twice.  The cues of an answer follow *)
(* each other without overlap, the mouth is shut in every pause that is    *)
(* long enough, and open or closing in every word.                         *)
HeardIsWhatWasSaid ==
  LET unended == way = "http" /\ call \in {"wrap", "done"} /\ Arrived = Len(ResponseBody) - 1
      complete == IF unended THEN at.message
                  ELSE IF ending = "final" THEN at.message - 2
                  ELSE at.message - 1
      once == SetToSortSeq(WithAudio(complete), <)
      again == IF unended /\ complete \in WithAudio(complete) THEN <<complete>> ELSE <<>>
      charsAgain == IF unended /\ answer[complete].marks = "good" THEN answer[complete].chars ELSE <<>>
  IN  /\ (call # "failed") => /\ heard.audio = once \o again
                               /\ heard.chars = CharsOf(complete) \o charsAgain
      /\ call = "done" =>
           /\ way = "http" => complete = Len(answer)
           /\ ending = "final" => answer[complete + 1].final
           /\ unended \/
              /\ \A i \in DOMAIN mouthCues : mouthCues[i].from < mouthCues[i].to
              /\ \A i \in 2 .. Len(mouthCues) : mouthCues[i - 1].to <= mouthCues[i].from
              /\ \A i \in DOMAIN mouthCues : \A n \in 1 .. Len(SpokenWords) :
                   LET w == SpokenWords[n]
                   IN  /\ mouthCues[i].value = "X" => mouthCues[i].to <= w.from \/ mouthCues[i].from >= w.to
                       /\ (n > 1 /\ mouthCues[i].value # "X" /\ w.from - SpokenWords[n - 1].to > SmallGap * Scale
                             /\ Visemes(SpokenWords[n - 1].word) # <<>>)
                            => mouthCues[i].to <= SpokenWords[n - 1].to \/ mouthCues[i].from >= w.from

=============================================================================
