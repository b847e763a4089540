---------------------------- MODULE VoicePipeline ----------------------------
(***************************************************************************)
(* One call through the pipeline engine: the caller's audio is cut into    *)
(* chunks, transcribed, gathered into utterances and answered by the       *)
(* model, whose text is spoken back while it is still being written.       *)
(*                                                                         *)
(* The engine is one object of mutable state under four promise chains: a  *)
(* handler runs to its next await, then any other may run.  A chunk of     *)
(* speech or of text is its number.  What makes up a level, a silence or a *)
(* sentence is left out: frames are the events they amount to.             *)
(***************************************************************************)
EXTENDS Naturals, Sequences, FiniteSets

CONSTANTS
  MaxSpeech,  \* bound of the model: chunks of speech
  MaxText,    \* bound of the model: chunks of text the model writes
  MaxBarge,   \* bound of the model: times the caller speaks over it
  MaxJobs,    \* bound of the model: tasks waiting on the STT chain
  Frames      \* frames of a synthesised chunk

PipelineAssumption ==
  /\ MaxSpeech \in Nat /\ MaxText \in Nat /\ MaxBarge \in Nat /\ MaxJobs \in Nat
  /\ Frames \in Nat \ {0}

\* A task of the STT chain: a chunk to transcribe, or 0 for the end of an utterance.
EndOfUtterance == 0
SttTask == 0..MaxSpeech

Text == [n : 1..MaxText, born : 0..MaxBarge]   \* born: ttsGeneration when it was queued
Voice == [text : Text, gen : 0..MaxBarge]

VARIABLES
  opened,    \* openingSent
  heard,     \* chunks of speech so far
  pending,   \* pendingSpeechPcm holds audio
  speaking,  \* isUserSpeaking
  stt,       \* sttChain
  buffer,    \* userBuffer
  timer,     \* finalizeTimer is set
  said,      \* the caller's entries of the transcript
  llm,       \* responses on llmChain, the first under way
  written,   \* chunks of text so far
  queue,     \* ttsQueue
  playing,   \* isTtsPlaying
  gen,       \* ttsGeneration
  synth,     \* calls of synthesizeSpeech under way
  sends,     \* ttsChain, the first being sent
  aired,     \* history: the frames sent to Twilio
  ended      \* how far finalize is

caller == <<heard, pending, speaking>>
words  == <<stt, buffer, timer, said>>
voice  == <<written, queue, playing, synth, sends, aired>>
vars   == <<opened, caller, words, llm, voice, gen, ended>>

Init ==
  /\ opened = FALSE
  /\ heard = 0 /\ pending = FALSE /\ speaking = FALSE
  /\ stt = <<>> /\ buffer = <<>> /\ timer = FALSE /\ said = <<>>
  /\ llm = 0
  /\ written = 0 /\ queue = <<>> /\ playing = FALSE /\ synth = {} /\ sends = <<>>
  /\ aired = {}
  /\ gen = 0
  /\ ended = "no"

-----------------------------------------------------------------------------
(* The caller.                                                              *)

\* The start event asks the model for the opening, once.
Start ==
  /\ ~opened
  /\ opened' = TRUE
  /\ llm' = llm + 1
  /\ UNCHANGED <<caller, words, voice, gen, ended>>

\* flushSpeechBuffer: the audio becomes a task of the chain; less of it than can
\* be transcribed is dropped.
Flushed(long) == IF pending /\ long THEN Append(stt, heard) ELSE stt

Speak ==
  /\ opened /\ ~pending /\ heard < MaxSpeech
  /\ heard' = heard + 1
  /\ pending' = TRUE
  /\ UNCHANGED <<opened, speaking, words, llm, voice, gen, ended>>

\* Speech for as long as a barge-in takes.  The mutation of what cancelTts does
\* leaves the text that waits.
QueueAfterBargeInKept == queue
QueueAfterBargeIn     == <<>>

BargeIn ==
  /\ pending
  /\ gen < MaxBarge
  /\ speaking' = TRUE
  /\ gen' = gen + 1
  /\ queue' = QueueAfterBargeIn
  /\ playing' = FALSE
  /\ UNCHANGED <<opened, heard, pending, words, llm, written, synth, sends, aired, ended>>

\* Speech for as long as a chunk takes.
ChunkFull ==
  /\ pending /\ Len(stt) < MaxJobs
  /\ stt' = Flushed(TRUE)
  /\ pending' = FALSE
  /\ UNCHANGED <<opened, heard, speaking, buffer, timer, said, llm, voice, gen, ended>>

\* finalizeUserUtterance: the timer is cleared and the end of the utterance takes
\* its place on the chain.
Silence(long) ==
  /\ opened /\ Len(stt) < MaxJobs
  /\ speaking' = FALSE
  /\ stt' = Append(Flushed(long), EndOfUtterance)
  /\ pending' = FALSE
  /\ timer' = FALSE
  /\ UNCHANGED <<opened, heard, buffer, said, llm, voice, gen, ended>>

-----------------------------------------------------------------------------
(* What the caller said.                                                    *)

\* The text of the chunk, or nothing, joins the utterance.
Transcribed ==
  /\ stt # <<>> /\ Head(stt) # EndOfUtterance
  /\ buffer' = Append(buffer, Head(stt))
  /\ timer' = TRUE
  /\ stt' = Tail(stt)
  /\ UNCHANGED <<opened, caller, said, llm, voice, gen, ended>>

\* The catch of each task keeps the chain going; the mutation has none, and the
\* tasks behind a failed one never run.
ChainAfterFailureDead == <<>>
ChainAfterFailure     == Tail(stt)

TranscriptionLost ==
  /\ stt # <<>> /\ Head(stt) # EndOfUtterance
  /\ stt' = ChainAfterFailure
  /\ UNCHANGED <<opened, caller, buffer, timer, said, llm, voice, gen, ended>>

\* The mutation leaves the utterance in the buffer.
BufferAfterEndKept == buffer
BufferAfterEnd     == <<>>

EndUtterance ==
  /\ stt # <<>> /\ Head(stt) = EndOfUtterance
  /\ stt' = Tail(stt)
  /\ IF buffer = <<>>
       THEN UNCHANGED <<buffer, said, llm>>
       ELSE /\ buffer' = BufferAfterEnd
            /\ said' = Append(said, buffer)
            /\ llm' = llm + 1
  /\ UNCHANGED <<opened, caller, timer, voice, gen, ended>>

TimerFires ==
  /\ timer
  /\ timer' = FALSE
  /\ stt' = Append(stt, EndOfUtterance)
  /\ UNCHANGED <<opened, caller, buffer, said, llm, voice, gen, ended>>

-----------------------------------------------------------------------------
(* What the model answers.                                                  *)

\* processTtsQueue takes the next text, if there is one.  It is called when
\* nothing is playing, and at the end of every synthesis.
Take(q, g) == IF q = <<>> THEN {} ELSE {[text |-> Head(q), gen |-> g]}
Rest(q)    == IF q = <<>> THEN q ELSE Tail(q)

\* queueTts.  A text that repeats the last one within two seconds changes nothing.
Write ==
  /\ llm > 0 /\ written < MaxText
  /\ written' = written + 1
  /\ LET q == Append(queue, [n |-> written + 1, born |-> gen])
     IN  IF playing
           THEN queue' = q /\ UNCHANGED synth
           ELSE queue' = Rest(q) /\ synth' = synth \cup Take(q, gen)
  /\ playing' = TRUE
  /\ UNCHANGED <<opened, caller, words, llm, sends, aired, gen, ended>>

\* The response ends or fails; the next one on the chain begins.
Respond ==
  /\ llm > 0
  /\ llm' = llm - 1
  /\ UNCHANGED <<opened, caller, words, voice, gen, ended>>

\* The finally of processTtsQueue: whether the voice is used, discarded or failed,
\* the next text is taken.  The mutation returns without it.
NextInQueueNone(q) == {}
NextInQueue(q)     == Take(q, gen)

\* The voice goes to the send chain unless the caller spoke since, or speaks, or
\* it failed.
Synthesised(v, ok) ==
  /\ v \in synth
  /\ sends' = IF ok /\ v.gen = gen /\ ~speaking /\ ended # "done"
                THEN Append(sends, [voice |-> v, left |-> Frames]) ELSE sends
  /\ synth' = (synth \ {v}) \cup NextInQueue(queue)
  /\ queue' = IF NextInQueue(queue) = {} THEN queue ELSE Rest(queue)
  /\ playing' = FALSE
  /\ UNCHANGED <<opened, caller, words, llm, written, aired, gen, ended>>

\* Each frame looks at the generation again.
StopsSending(s) == s.voice.gen # gen \/ speaking

SendFrame ==
  /\ sends # <<>>
  /\ LET s == Head(sends)
     IN  IF StopsSending(s) \/ s.left = 0
           THEN sends' = Tail(sends) /\ UNCHANGED aired
           ELSE /\ sends' = <<[s EXCEPT !.left = @ - 1]>> \o Tail(sends)
                /\ aired' = aired \cup {<<s.voice.text, s.left>>}
  /\ UNCHANGED <<opened, caller, words, llm, written, queue, playing, synth, gen, ended>>

-----------------------------------------------------------------------------
(* The end of the call.                                                     *)

\* finalize, once: what was heard is flushed, the summary is asked for of what the
\* transcript holds now.  The chains go on.
Finalize(long) ==
  /\ ended = "no"
  /\ ended' = "summary"
  /\ stt' = Append(Flushed(long), EndOfUtterance)
  /\ pending' = FALSE
  /\ timer' = FALSE
  /\ UNCHANGED <<opened, heard, speaking, buffer, said, llm, voice, gen>>

\* The summary, or its failure, then the row and the socket.
Summarised ==
  /\ ended \in {"summary", "save"}
  /\ ended' = IF ended = "summary" THEN "save" ELSE "done"
  /\ UNCHANGED <<opened, caller, words, llm, voice, gen>>

\* A socket that is closed brings no more audio.
Caller == ended # "done" /\ (Start \/ Speak \/ BargeIn \/ ChunkFull
                              \/ \E long \in BOOLEAN : Silence(long))

Next ==
  \/ Caller
  \/ Transcribed \/ TranscriptionLost \/ EndUtterance \/ TimerFires
  \/ Write \/ Respond \/ SendFrame
  \/ \E v \in synth, ok \in BOOLEAN : Synthesised(v, ok)
  \/ \E long \in BOOLEAN : Finalize(long)
  \/ Summarised

\* Every request is answered or times out, and timers fire.
Fairness ==
  /\ WF_vars(Transcribed \/ TranscriptionLost)
  /\ WF_vars(EndUtterance)
  /\ WF_vars(TimerFires)

Spec == Init /\ [][Next]_vars /\ Fairness

-----------------------------------------------------------------------------
(* Properties.                                                              *)

TypeOK ==
  /\ opened \in BOOLEAN /\ pending \in BOOLEAN /\ speaking \in BOOLEAN
  /\ timer \in BOOLEAN /\ playing \in BOOLEAN
  /\ heard \in 0..MaxSpeech /\ written \in 0..MaxText /\ gen \in 0..MaxBarge
  /\ stt \in Seq(SttTask) /\ buffer \in Seq(1..MaxSpeech)
  /\ said \in Seq(Seq(1..MaxSpeech))
  /\ llm \in Nat
  /\ queue \in Seq(Text) /\ synth \subseteq Voice
  /\ sends \in Seq([voice : Voice, left : 0..Frames])
  /\ aired \subseteq Text \X (1..Frames)
  /\ ended \in {"no", "summary", "save", "done"}

\* The caller's words enter the transcript in the order they were spoken, and none
\* of them twice.
WordsOnceInOrder ==
  /\ \A i \in 1..Len(said) : \A j, k \in 1..Len(said[i]) : j < k => said[i][j] < said[i][k]
  /\ \A i, j \in 1..Len(said) : i < j => said[i][Len(said[i])] < said[j][1]

\* Words that were transcribed are never left waiting for another word: a timer is
\* set or the end of the utterance is on the chain.
WordsAnswered ==
  buffer # <<>> => timer \/ \E i \in 1..Len(stt) : stt[i] = EndOfUtterance

\* Nothing that was to be said when the caller spoke over it is sent afterwards,
\* however far its synthesis or its frames had come.
NothingStale == \A f \in aired' \ aired : f[1].born = gen
NothingStaleAired == [][NothingStale]_vars

\* Text waits only while a synthesis is under way that will take it.
QueueServed == queue # <<>> => synth # {}

\* Whatever fails, words that were transcribed become an utterance.
WordsSettle == (buffer # <<>>) ~> (buffer = <<>>)
=============================================================================
