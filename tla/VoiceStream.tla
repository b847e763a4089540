----------------------------- MODULE VoiceStream -----------------------------
(***************************************************************************)
(* The voice stream of the server: TWILIO_ENGINE chooses, once, which of   *)
(* the two engines serves the calls.                                       *)
(***************************************************************************)
EXTENDS Naturals, Sequences

CONSTANTS MaxSpeech, MaxText, MaxBarge, MaxJobs, Frames, MaxAudio, MaxPending, MaxTurns,
          MaxPieces

VARIABLES
  engine,
  opened, heard, pending, speaking, stt, buffer, timer, said, llm, written, queue,
  playing, gen, synth, sends, aired, ended,
  openAi, stream, frames, waiting, relayed, dropped, userSpeaking, playout, turn,
  answering, partOf, text, transcript, repeated, cut, closed

P == INSTANCE VoicePipeline
R == INSTANCE RealtimeVoice WITH speaking <- userSpeaking, ended <- closed

ASSUME StreamAssumption == P!PipelineAssumption /\ R!RealtimeAssumption

pipeline == <<opened, heard, pending, speaking, stt, buffer, timer, said, llm, written,
              queue, playing, gen, synth, sends, aired, ended>>
realtime == <<openAi, stream, frames, waiting, relayed, dropped, userSpeaking, playout,
              turn, answering, partOf, text, transcript, repeated, cut, closed>>
vars == <<engine, pipeline, realtime>>

\* eleven_register attaches nothing; any other name falls back to realtime.
Engine == {"pipeline", "realtime"}

Init == engine \in Engine /\ P!Init /\ R!Init

Next ==
  \/ engine = "pipeline" /\ P!Next /\ UNCHANGED <<engine, realtime>>
  \/ engine = "realtime" /\ R!Next /\ UNCHANGED <<engine, pipeline>>

Spec == Init /\ [][Next]_vars /\ P!Fairness

\* The types of both engines.
TypeOK == P!TypeOK /\ R!TypeOK

\* What a call relays keeps its order and is not repeated: the caller's words and every
\* piece of the assistant's responses enter the transcript once, in the order they were
\* spoken, a response in one entry unless the call ended in its middle, and the caller's
\* audio reaches OpenAI in order, without a gap but for the oldest chunks.
OrderKept == P!WordsOnceInOrder /\ R!SpeechRelayed /\ R!TurnsOnce

\* Nothing that was to be said before a barge-in is sent after it, and while the caller
\* speaks the realtime engine has nothing left to play.
NothingStaleAired == [][P!NothingStale]_vars /\ []R!CallerHasTheLine

\* Nothing waits with nobody to take it: words that were transcribed have a timer or the
\* end of their utterance to answer them, and text has a synthesis under way.
NobodyWaits == P!WordsAnswered /\ P!QueueServed

\* Words that were transcribed become an utterance, whatever fails.
WordsSettle == P!WordsSettle
=============================================================================
