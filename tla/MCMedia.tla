------------------------------- MODULE MCMedia -------------------------------
(***************************************************************************)
(* The machines on small data: two sounds' contents, scenes of at most     *)
(* three turns, and what the cfg names.                                    *)
(***************************************************************************)
EXTENDS Media

CONSTANTS p1, c1, c2, damaged, v1, v2, me, you, far, Crowd, n1, t1, t2, ch1

MCTexts == {<<"a">>, <<"[", "a", " ", "a", ".">>, <<" ", "a", " ", " ", "a">>}

MCTurn == [voice : Voice, text : MCTexts]

MCScenes ==
  UNION {[1 .. n -> MCTurn] : n \in 1 .. 3}
    \cup {<<[voice |-> v1, text |-> <<"[">>]>>, <<[voice |-> v1, text |-> [i \in 1 .. 6 |-> "a"]]>>}

MCPaces == {[lead |-> 1, letter |-> 1], [lead |-> 4, letter |-> 2]}

MCAims == (you :> [pan |-> 2, elevation |-> 16]) @@ (Crowd :> [pan |-> 12, elevation |-> 8])

\* Three turns of the given lengths, and the pauses after them.
Said(who, size, pause) ==
  [c \in {me, you, far} |->
     <<0>> \o FlattenSeq([i \in 1 .. 3 |-> [f \in 1 .. size[i] |-> IF who[i] = c THEN 9 ELSE 0]
                                            \o [f \in 1 .. pause[i] |-> 0]])]

MCSpeeches ==
  {Said(who, <<4, 3, 5>>, pause) :
     who \in {<<you, me, you>>, <<me, you, far>>, <<you, far, me>>, <<you, you, me>>},
     pause \in {<<1, 2, 3>>, <<2, 16, 0>>}}

Body(wing, cock, beak, pan, elevation) ==
  [wing |-> wing, cock |-> cock, beak |-> beak, pan |-> pan, elevation |-> elevation]

MCSpeechLoop == <<Body(4, 10, 1, 9, 9), Body(6, 12, 2, 10, 9), Body(4, 11, 3, 10, 10)>>

MCIdleLoops == {<<>>, <<Body(14, 3, 7, 3, 3), Body(15, 4, 7, 4, 4)>>}

MCRecordingOf == n1 :> t1

MCBlocks == (t1 :> 1) @@ (t2 :> 2)

\* Characters with their times, and messages of the speech service.
Char(text, from, to) == [text |-> text, from |-> from, to |-> to]

Early == <<Char("m", 1, 3), Char("o", 3, 5), Char(" ", 5, 5)>>

Late == <<Char("o", 8, 10), Char("m", 10, 12)>>

Sign == <<Char("'", 6, 7), Char(" ", 7, 9)>>

Text(audio, marks, chars, final) ==
  [pieces |-> 2, binary |-> FALSE, audio |-> audio, marks |-> marks, chars |-> chars, final |-> final]

Binary == [pieces |-> 3, binary |-> TRUE, audio |-> "none", marks |-> "none", chars |-> <<>>, final |-> FALSE]

MCAnswers ==
  {<<Text(a, k, Early, FALSE), Text(b, l, c, FALSE), z>> :
     a, b \in {"good", "damaged", "none"}, k, l \in {"good", "damaged"}, c \in {Late, Sign},
     z \in {Text("good", "good", <<Char("o", 14, 15)>>, final) : final \in BOOLEAN} \cup {Binary}}

MCAsked == <<<<"m", "o">>, <<"m">>>>

MCEntries == <<[word |-> <<"m", "o">>, visemes |-> <<"A", "B", "B">>],
               [word |-> <<"m", "o">>, visemes |-> <<"C">>]>>

MCVisemes == ("m" :> "A") @@ ("o" :> "B")

MCDeliveries == {RtpChannel, {ch1}}

MCWallClocks == {-3}

\* Provenances: texts with the marks of XML, of lists and of lines.
MCRecipe == <<"MUSIC_PROMPT", "REQUEST_JSON", "MUSIC_GENERATION_ID">>

MCTitles == {<<>>, <<"&", "lt", ";">>, <<"<", "/", "TITLE", ">", "bell">>}

MCTracks ==
  {<<>>, <<[channel |-> 2, name |-> <<"a", "'">>], [channel |-> 2, name |-> <<"b">>],
           [channel |-> 3, name |-> <<>>]>>}

Line(s, t) == [speaker |-> s, text |-> t]

\* Ids and lines.
MCSaid ==
  {[ids |-> <<>>, script |-> <<>>],
   [ids |-> <<<<"a">>, <<>>, <<"b">>>>,
    script |-> <<Line(<<"a">>, <<"b", ":", " ", "&", "amp", ";">>), Line(<<>>, <<>>)>>],
   [ids |-> <<<<"a", ",", "b">>>>, script |-> <<Line(<<"a", ":", " ", "b">>, <<"\n", "\n", "c">>)>>]}

Token(f, t, x) == [from |-> f, to |-> t, text |-> x]

MCLipsync ==
  {<<>>, <<[channel |-> 2, name |-> <<"<">>, 
            tokens |-> <<Token(4, 15, <<"A">>), Token(15, 36, <<";", " ">>)>>],
           [channel |-> 1, name |-> <<"a">>, tokens |-> <<>>]>>}

Composed(prompt, body) ==
  [f \in {"MUSIC_PROMPT", "REQUEST_JSON", "MUSIC_GENERATION_ID"} |->
     IF f = "MUSIC_PROMPT" THEN prompt ELSE IF f = "REQUEST_JSON" THEN body ELSE <<>>]

MCMusic == {{}, {Composed(<<"a">>, <<>>)}, {Composed(<<"<", "MUSIC_PROVENANCE", ">">>, <<"\"", "a">>)}}

MCProvenances ==
  {[uid |-> IF circled = {} THEN <<>> ELSE <<"u">>, title |-> title, circled |-> circled, ids |-> said.ids,
    tracks |-> known, script |-> said.script, lipsync |-> lipsync, music |-> music] :
     circled \in {{}, {FALSE}}, title \in MCTitles, said \in MCSaid, known \in MCTracks, lipsync \in MCLipsync,
     music \in MCMusic}

=============================================================================
