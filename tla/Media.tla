-------------------------------- MODULE Media --------------------------------
(***************************************************************************)
(* Machines that share nothing but the files between them: a request to    *)
(* the speech service, the scene of a dialog, one creature's performance   *)
(* in it, what the file of a scene says of itself, the cache of encoded    *)
(* sounds, the sounds that are served, a sound that is played by itself,   *)
(* and the reports on what is sent.  A behaviour is one of theirs, so that *)
(* none of them multiplies the states of another.                          *)
(***************************************************************************)
EXTENDS AudioCache, Scene, Performance, Sounds, TtsStream, RtcpReports, Standalone, WavTags

VARIABLE machine

mediaVars == <<machine, cacheVars, sceneVars, performanceVars, soundsVars, ttsVars, rtcpVars, standaloneVars,
               wavTagsVars>>

MediaInit ==
  /\ machine \in {"cache", "scene", "performance", "sounds", "tts", "rtcp", "standalone", "tags"}
  /\ CacheInit /\ SceneInit /\ PerformanceInit /\ SoundsInit /\ TtsInit /\ RtcpInit /\ StandaloneInit
  /\ WavTagsInit
  /\ machine # "sounds" => engine = "whisper"
  /\ machine # "tts" => way = "socket" /\ answer = CHOOSE a \in Answers : TRUE

MediaNext ==
  /\ UNCHANGED machine
  /\ machine # "cache" => UNCHANGED cacheVars
  /\ machine # "scene" => UNCHANGED sceneVars
  /\ machine # "performance" => UNCHANGED performanceVars
  /\ machine # "sounds" => UNCHANGED soundsVars
  /\ machine # "tts" => UNCHANGED ttsVars
  /\ machine # "rtcp" => UNCHANGED rtcpVars
  /\ machine # "standalone" => UNCHANGED standaloneVars
  /\ machine # "tags" => UNCHANGED wavTagsVars
  /\ \/ machine = "cache" /\ CacheNext
     \/ machine = "scene" /\ SceneNext
     \/ machine = "performance" /\ PerformanceNext
     \/ machine = "sounds" /\ SoundsNext
     \/ machine = "tts" /\ TtsNext
     \/ machine = "rtcp" /\ RtcpNext
     \/ machine = "standalone" /\ StandaloneNext
     \/ machine = "tags" /\ WavTagsNext

MediaSpec == MediaInit /\ [][MediaNext]_mediaVars

-----------------------------------------------------------------------------
(* Properties: those of the machines, by what they promise; a machine that *)
(* has not moved is in its initial state.                                  *)

(* Safety (StreamingTTSClient.cpp, TextToViseme.cpp, DialogWav.cpp,        *)
(* dialog/tighten): what the service says is heard once and in its order,  *)
(* and its cues follow each other; in a scene every voice's audio and      *)
(* marks stay together, and turns keep their order and their pauses.       *)
SpeechKeepsTime ==
  /\ machine = "tts" => HeardIsWhatWasSaid
  /\ machine = "scene" => ScenesKeepTime

(* Safety (AudioCache.cpp, SoundController.h, SoundService.cpp,            *)
(* IxmlReader.cpp): whoever loads, is served or reads a file gets what the *)
(* file holds: no stale or torn encoding, no part of a file as the whole,  *)
(* no tag that was not written.                                            *)
SoundsAreTrue ==
  /\ machine = "cache" => LoadsAreOfTheFile
  /\ machine = "sounds" => SoundAnswersAreTrue
  /\ machine = "tags" => TagsAreRead

(* Safety (music.cpp, RtcpSender.cpp): a sound that is played by itself    *)
(* keeps its time and its reservation, and the reports on what is sent say *)
(* what was sent, on the clock it was sent by.                             *)
TransmissionsAreTrue ==
  /\ machine = "standalone" => TracksKeepTime
  /\ machine = "rtcp" => ReportsAreTrue

=============================================================================
