-------------------------- MODULE VoiceStreamProofs --------------------------
(***************************************************************************)
(* Theorems of VoiceStream, for any bounds: the types of both engines, the *)
(* order of what they relay, that nothing is left without somebody to take *)
(* it, and that nothing stale is aired.  Each engine leaves the other's    *)
(* variables alone, so each invariant is kept by the steps of one engine   *)
(* and, the other's steps being stutters to it, by every step.             *)
(***************************************************************************)
EXTENDS VoiceStream, SequenceTheorems, TLAPS

\* The bounds are numbers, and a chunk has a frame.
LEMMA Bounds ==
  /\ MaxSpeech \in Nat /\ MaxText \in Nat /\ MaxBarge \in Nat /\ MaxJobs \in Nat
  /\ Frames \in Nat \ {0}
  /\ MaxAudio \in Nat /\ MaxPending \in Nat \ {0}
  /\ MaxTurns \in Nat /\ MaxPieces \in Nat
BY StreamAssumption DEF P!PipelineAssumption, R!RealtimeAssumption

\* A step is one of an engine, or a stutter of both.
LEMMA StepOfOne ==
  ASSUME [Next]_vars
  PROVE  \/ P!Next /\ UNCHANGED realtime
         \/ R!Next /\ UNCHANGED pipeline
         \/ UNCHANGED pipeline /\ UNCHANGED realtime
BY DEF Next, vars

-----------------------------------------------------------------------------
(* Types of the pipeline.                                                   *)

LEMMA PipelineTypeInit ==
  ASSUME P!Init PROVE P!TypeOK
<1>1. /\ <<>> \in Seq(P!SttTask) /\ <<>> \in Seq(1..MaxSpeech)
      /\ <<>> \in Seq(Seq(1..MaxSpeech)) /\ <<>> \in Seq(P!Text)
      /\ <<>> \in Seq([voice : P!Voice, left : 0..Frames])
  BY EmptySeq, Zenon
<1>2. /\ stt \in Seq(P!SttTask) /\ buffer \in Seq(1..MaxSpeech)
      /\ said \in Seq(Seq(1..MaxSpeech)) /\ queue \in Seq(P!Text)
      /\ sends \in Seq([voice : P!Voice, left : 0..Frames])
  BY <1>1, Zenon DEF P!Init
<1>3. /\ heard \in 0..MaxSpeech /\ written \in 0..MaxText /\ gen \in 0..MaxBarge /\ llm \in Nat
      /\ synth \subseteq P!Voice /\ aired \subseteq P!Text \X (1..Frames)
  BY Bounds DEF P!Init
<1> QED BY <1>2, <1>3 DEF P!Init, P!TypeOK

\* What flushSpeechBuffer leaves on the chain is a chain of tasks.
LEMMA FlushedType ==
  ASSUME P!TypeOK, NEW long \in BOOLEAN
  PROVE  P!Flushed(long) \in Seq(P!SttTask)
<1>1. stt \in Seq(P!SttTask) /\ heard \in P!SttTask
  BY Bounds DEF P!TypeOK, P!SttTask
<1>2. Append(stt, heard) \in Seq(P!SttTask)
  BY <1>1, AppendProperties, Zenon
<1> QED BY <1>1, <1>2, Zenon DEF P!Flushed

LEMMA CallerType ==
  ASSUME P!TypeOK, P!Caller
  PROVE  P!TypeOK'
<1>0. P!EndOfUtterance \in P!SttTask
  BY Bounds DEF P!EndOfUtterance, P!SttTask
<1>1. CASE P!Start
  BY <1>1 DEF P!Start, P!TypeOK, P!caller, P!words, P!voice
<1>2. CASE P!Speak
  BY <1>2, Bounds DEF P!Speak, P!TypeOK, P!words, P!voice
<1>3. CASE P!BargeIn
  <2>1. queue' \in Seq(P!Text)
    BY <1>3, EmptySeq, Zenon DEF P!BargeIn, P!QueueAfterBargeIn
  <2>2. gen' \in 0..MaxBarge /\ speaking' \in BOOLEAN /\ playing' \in BOOLEAN
    <3>1. gen \in 0..MaxBarge /\ gen < MaxBarge /\ gen' = gen + 1
      BY <1>3, Zenon DEF P!BargeIn, P!TypeOK
    <3>2. speaking' = TRUE /\ playing' = FALSE
      BY <1>3, Zenon DEF P!BargeIn
    <3>3. gen' \in 0..MaxBarge
      BY <3>1, Bounds
    <3> QED BY <3>2, <3>3, Zenon
  <2>3. UNCHANGED <<opened, heard, pending, stt, buffer, timer, said, llm, written, synth,
                    sends, aired, ended>>
    BY <1>3 DEF P!BargeIn, P!words
  <2> QED BY <2>1, <2>2, <2>3 DEF P!TypeOK
<1>4. CASE P!ChunkFull
  BY <1>4, FlushedType DEF P!ChunkFull, P!TypeOK, P!voice
<1>5. ASSUME NEW long \in BOOLEAN, P!Silence(long)
      PROVE  P!TypeOK'
  <2>1. P!Flushed(long) \in Seq(P!SttTask)
    BY FlushedType
  <2>2. stt' \in Seq(P!SttTask)
    BY <1>0, <1>5, <2>1 DEF P!Silence
  <2> QED BY <1>5, <2>2 DEF P!Silence, P!TypeOK, P!voice
<1> QED BY <1>1, <1>2, <1>3, <1>4, <1>5 DEF P!Caller

LEMMA WordsType ==
  ASSUME P!TypeOK,
         \/ P!Transcribed \/ P!TranscriptionLost \/ P!EndUtterance \/ P!TimerFires
         \/ \E long \in BOOLEAN : P!Finalize(long)
         \/ P!Summarised
  PROVE  P!TypeOK'
<1>0. P!EndOfUtterance \in P!SttTask /\ P!EndOfUtterance = 0
  BY Bounds DEF P!EndOfUtterance, P!SttTask
<1>1. CASE P!Transcribed
  <2>1. stt \in Seq(P!SttTask) /\ stt # <<>> /\ Head(stt) # 0
    BY <1>0, <1>1 DEF P!Transcribed, P!TypeOK
  <2>2. Head(stt) \in 1..MaxSpeech /\ Tail(stt) \in Seq(P!SttTask)
    BY <2>1, Bounds DEF P!SttTask
  <2> QED BY <1>1, <2>2 DEF P!Transcribed, P!TypeOK, P!caller, P!voice
<1>2. CASE P!TranscriptionLost
  BY <1>2 DEF P!TranscriptionLost, P!ChainAfterFailure, P!TypeOK, P!caller, P!voice
<1>3. CASE P!EndUtterance
  <2>1. stt' \in Seq(P!SttTask)
    BY <1>3 DEF P!EndUtterance, P!TypeOK
  <2>2. /\ buffer' \in Seq(1..MaxSpeech) /\ said' \in Seq(Seq(1..MaxSpeech))
        /\ llm' \in Nat
    <3>1. <<>> \in Seq(1..MaxSpeech)
      BY EmptySeq, Zenon
    <3>2. buffer \in Seq(1..MaxSpeech) /\ said \in Seq(Seq(1..MaxSpeech)) /\ llm \in Nat
      BY DEF P!TypeOK
    <3>3. Append(said, buffer) \in Seq(Seq(1..MaxSpeech)) /\ llm + 1 \in Nat
      BY <3>2, AppendProperties
    <3> QED BY <1>3, <3>1, <3>2, <3>3, Zenon DEF P!EndUtterance, P!BufferAfterEnd
  <2> QED BY <1>3, <2>1, <2>2 DEF P!EndUtterance, P!TypeOK, P!caller, P!voice
<1>4. CASE P!TimerFires
  <2>1. stt' \in Seq(P!SttTask)
    BY <1>0, <1>4, AppendProperties DEF P!TimerFires, P!TypeOK
  <2> QED BY <1>4, <2>1 DEF P!TimerFires, P!TypeOK, P!caller, P!voice
<1>5. ASSUME NEW long \in BOOLEAN, P!Finalize(long)
      PROVE  P!TypeOK'
  <2>1. P!Flushed(long) \in Seq(P!SttTask)
    BY FlushedType
  <2>2. stt' \in Seq(P!SttTask)
    BY <1>0, <1>5, <2>1 DEF P!Finalize
  <2> QED BY <1>5, <2>2 DEF P!Finalize, P!TypeOK, P!voice
<1>6. CASE P!Summarised
  BY <1>6 DEF P!Summarised, P!TypeOK, P!caller, P!words, P!voice
<1> QED BY <1>1, <1>2, <1>3, <1>4, <1>5, <1>6

\* What is taken of a queue of text is a voice, and the rest is a queue of text.
LEMMA TakeType ==
  ASSUME NEW q \in Seq(P!Text), NEW g \in 0..MaxBarge
  PROVE  P!Take(q, g) \subseteq P!Voice /\ P!Rest(q) \in Seq(P!Text)
<1>1. CASE q = <<>>
  BY <1>1 DEF P!Take, P!Rest
<1>2. CASE q # <<>>
  <2>1. Head(q) \in P!Text /\ Tail(q) \in Seq(P!Text)
    BY <1>2
  <2>2. [text |-> Head(q), gen |-> g] \in P!Voice
    BY <2>1 DEF P!Voice
  <2> QED BY <1>2, <2>1, <2>2 DEF P!Take, P!Rest
<1> QED BY <1>1, <1>2

LEMMA VoiceType ==
  ASSUME P!TypeOK,
         \/ P!Write \/ P!Respond \/ P!SendFrame
         \/ \E v \in synth, ok \in BOOLEAN : P!Synthesised(v, ok)
  PROVE  P!TypeOK'
<1>1. CASE P!Write
  <2> DEFINE q == Append(queue, [n |-> written + 1, born |-> gen])
  <2>1. [n |-> written + 1, born |-> gen] \in P!Text
    BY <1>1, Bounds DEF P!Write, P!TypeOK, P!Text
  <2>2. q \in Seq(P!Text)
    BY <2>1 DEF P!TypeOK
  <2>3. /\ queue' = q \/ queue' = P!Rest(q)
        /\ synth' = synth \/ synth' = synth \cup P!Take(q, gen)
    BY <1>1 DEF P!Write
  <2> HIDE DEF q
  <2>4. queue' \in Seq(P!Text) /\ synth' \subseteq P!Voice
    BY <2>2, <2>3, TakeType DEF P!TypeOK
  <2> QED BY <1>1, <2>4, Bounds DEF P!Write, P!TypeOK, P!caller, P!words
<1>2. CASE P!Respond
  BY <1>2 DEF P!Respond, P!TypeOK, P!caller, P!words, P!voice
<1>3. CASE P!SendFrame
  <2> DEFINE s == Head(sends)
             left == [s EXCEPT !.left = s.left - 1]
  <2>0. sends # <<>> /\ sends \in Seq([voice : P!Voice, left : 0..Frames])
    BY <1>3, Zenon DEF P!SendFrame, P!TypeOK
  <2>1. /\ s \in [voice : P!Voice, left : 0..Frames]
        /\ Tail(sends) \in Seq([voice : P!Voice, left : 0..Frames])
    BY <2>0, HeadTailProperties, Zenon
  <2>2. CASE sends' = Tail(sends) /\ UNCHANGED aired
    BY <1>3, <2>1, <2>2 DEF P!SendFrame, P!TypeOK, P!caller, P!words
  <2>3. CASE /\ s.left # 0
             /\ sends' = <<left>> \o Tail(sends)
             /\ aired' = aired \cup {<<s.voice.text, s.left>>}
    <3>1. s.left \in 1..Frames /\ left \in [voice : P!Voice, left : 0..Frames]
      <4> HIDE DEF s
      <4>1. s.left \in 0..Frames /\ s.left # 0 /\ Frames \in Nat
        BY <2>1, <2>3, Bounds
      <4>2. s.left \in 1..Frames /\ s.left - 1 \in 0..Frames
        BY <4>1
      <4>3. left \in [voice : P!Voice, left : 0..Frames]
        BY <2>1, <4>2
      <4> QED BY <4>2, <4>3
    <3>2. <<s.voice.text, s.left>> \in P!Text \X (1..Frames)
      BY <2>1, <3>1 DEF P!Voice
    <3> HIDE DEF left, s
    <3>3. sends' \in Seq([voice : P!Voice, left : 0..Frames])
      BY <2>1, <2>3, <3>1
    <3>4. aired' \subseteq P!Text \X (1..Frames)
      BY <2>3, <3>2 DEF P!TypeOK
    <3> QED BY <1>3, <3>3, <3>4 DEF P!SendFrame, P!TypeOK, P!caller, P!words
  <2> QED BY <1>3, <2>2, <2>3 DEF P!SendFrame
<1>4. ASSUME NEW v \in synth, NEW ok \in BOOLEAN, P!Synthesised(v, ok)
      PROVE  P!TypeOK'
  <2>1. /\ synth' = (synth \ {v}) \cup P!Take(queue, gen)
        /\ queue' = queue \/ queue' = P!Rest(queue)
    BY <1>4 DEF P!Synthesised, P!NextInQueue
  <2>2. synth' \subseteq P!Voice /\ queue' \in Seq(P!Text)
    BY <2>1, TakeType DEF P!TypeOK
  <2>3. [voice |-> v, left |-> Frames] \in [voice : P!Voice, left : 0..Frames]
    BY <1>4, Bounds DEF P!TypeOK
  <2>4. sends' \in Seq([voice : P!Voice, left : 0..Frames])
    <3>1. sends \in Seq([voice : P!Voice, left : 0..Frames])
      BY DEF P!TypeOK
    <3>2. Append(sends, [voice |-> v, left |-> Frames]) \in Seq([voice : P!Voice, left : 0..Frames])
      BY <2>3, <3>1, AppendProperties, Zenon
    <3> QED BY <1>4, <3>1, <3>2, Zenon DEF P!Synthesised
  <2> QED BY <1>4, <2>2, <2>4 DEF P!Synthesised, P!TypeOK, P!caller, P!words
<1> QED BY <1>1, <1>2, <1>3, <1>4

LEMMA PipelineType ==
  ASSUME P!TypeOK, [Next]_vars
  PROVE  P!TypeOK'
<1>1. CASE P!Next
  BY <1>1, CallerType, WordsType, VoiceType DEF P!Next
<1>2. CASE UNCHANGED pipeline
  BY <1>2 DEF pipeline, P!TypeOK
<1> QED BY <1>1, <1>2, StepOfOne

-----------------------------------------------------------------------------
(***************************************************************************)
(* Nobody waits.  What makes queueTts safe to leave its text in the queue  *)
(* is that playing tells a synthesis is under way: it is set with one and  *)
(* cleared by the end of any.                                              *)
(***************************************************************************)
WaitInv ==
  /\ P!WordsAnswered
  /\ P!QueueServed
  /\ playing => synth # {}

\* An end of utterance at the end of a chain is on it; one that is on the chain and
\* not its head is on the rest.
LEMMA EndAppended ==
  ASSUME NEW q \in Seq(P!SttTask), stt' = Append(q, P!EndOfUtterance)
  PROVE  \E i \in 1..Len(stt') : stt'[i] = P!EndOfUtterance
<1>1. P!EndOfUtterance \in P!SttTask
  BY Bounds DEF P!EndOfUtterance, P!SttTask
<1>2. Len(q) \in Nat /\ Len(stt') = Len(q) + 1 /\ stt'[Len(q) + 1] = P!EndOfUtterance
  BY <1>1, LenProperties, AppendProperties
<1> QED BY <1>2

LEMMA EndBehindHead ==
  ASSUME P!TypeOK, stt # <<>>, Head(stt) # P!EndOfUtterance, stt' = Tail(stt),
         NEW i \in 1..Len(stt), stt[i] = P!EndOfUtterance
  PROVE  \E j \in 1..Len(stt') : stt'[j] = P!EndOfUtterance
<1>1. stt \in Seq(P!SttTask)
  BY DEF P!TypeOK
<1>2. /\ Len(stt) \in Nat /\ Len(stt') = Len(stt) - 1 /\ Head(stt) = stt[1]
      /\ \A j \in 1..Len(stt') : stt'[j] = stt[j + 1]
  BY <1>1, LenProperties, HeadTailProperties
<1>3. i # 1 /\ i - 1 \in 1..Len(stt') /\ stt'[i - 1] = stt[i]
  BY <1>2
<1> QED BY <1>3

\* Another task on the chain takes no end of utterance off it.
LEMMA EndStays ==
  ASSUME P!TypeOK, NEW x \in P!SttTask, stt' = Append(stt, x),
         NEW i \in 1..Len(stt), stt[i] = P!EndOfUtterance
  PROVE  \E j \in 1..Len(stt') : stt'[j] = P!EndOfUtterance
<1>1. stt \in Seq(P!SttTask)
  BY DEF P!TypeOK
<1>2. Len(stt) \in Nat /\ Len(stt') = Len(stt) + 1 /\ stt'[i] = stt[i]
  BY <1>1, LenProperties, AppendProperties
<1> QED BY <1>2

LEMMA AnsweredStep ==
  ASSUME P!TypeOK, P!WordsAnswered, P!Next
  PROVE  P!WordsAnswered'
<1>0. stt \in Seq(P!SttTask)
  BY DEF P!TypeOK
<1> DEFINE Ending == timer \/ \E i \in 1..Len(stt) : stt[i] = P!EndOfUtterance
<1>00. /\ P!WordsAnswered <=> (buffer # <<>> => Ending)
       /\ P!WordsAnswered' <=> (buffer' # <<>> => Ending')
  BY DEF P!WordsAnswered
<1>1. CASE P!ChunkFull
  <2>1. buffer' = buffer /\ timer' = timer /\ (stt' = stt \/ stt' = Append(stt, heard))
    BY <1>1 DEF P!ChunkFull, P!Flushed
  <2>2. heard \in P!SttTask
    BY Bounds DEF P!TypeOK, P!SttTask
  <2>3. Ending => Ending'
    BY <2>1, <2>2, EndStays
  <2> QED BY <1>00, <2>1, <2>3
<1>2. ASSUME NEW long \in BOOLEAN, P!Silence(long) \/ P!Finalize(long)
      PROVE  P!WordsAnswered'
  <2>1. stt' = Append(P!Flushed(long), P!EndOfUtterance)
    BY <1>2 DEF P!Silence, P!Finalize
  <2>2. Ending'
    BY <2>1, EndAppended, FlushedType
  <2> QED BY <1>00, <2>2
<1>3. CASE P!TimerFires
  <2>1. Ending'
    BY <1>0, <1>3, EndAppended DEF P!TimerFires
  <2> QED BY <1>00, <2>1
<1>4. CASE P!Transcribed
  BY <1>00, <1>4 DEF P!Transcribed
<1>5. CASE P!TranscriptionLost
  <2>1. buffer' = buffer /\ timer' = timer
    BY <1>5 DEF P!TranscriptionLost
  <2>2. stt # <<>> /\ Head(stt) # P!EndOfUtterance /\ stt' = Tail(stt)
    BY <1>5 DEF P!TranscriptionLost, P!ChainAfterFailure
  <2>3. Ending => Ending'
    BY <2>1, <2>2, EndBehindHead
  <2> QED BY <1>00, <2>1, <2>3
<1>6. CASE P!EndUtterance
  <2>1. buffer' = <<>>
    BY <1>6 DEF P!EndUtterance, P!BufferAfterEnd
  <2> QED BY <1>00, <2>1
<1>7. CASE UNCHANGED P!words
  BY <1>7 DEF P!words, P!WordsAnswered
<1>8. UNCHANGED P!words \/ P!ChunkFull \/ P!TimerFires \/ P!Transcribed
        \/ P!TranscriptionLost \/ P!EndUtterance
        \/ \E long \in BOOLEAN : P!Silence(long) \/ P!Finalize(long)
  BY DEF P!Next, P!Caller, P!Start, P!Speak, P!BargeIn, P!Write, P!Respond, P!SendFrame,
         P!Synthesised, P!Summarised, P!words
<1> QED BY <1>1, <1>2, <1>3, <1>4, <1>5, <1>6, <1>7, <1>8

\* The steps that touch what is spoken.
LEMMA VoiceSteps ==
  ASSUME P!Next
  PROVE  \/ UNCHANGED <<queue, playing, synth, sends, aired, gen>>
         \/ P!BargeIn \/ P!Write \/ P!SendFrame
         \/ \E v \in synth, ok \in BOOLEAN : P!Synthesised(v, ok)
BY DEF P!Next, P!Caller, P!Start, P!Speak, P!ChunkFull, P!Silence, P!Transcribed,
       P!TranscriptionLost, P!EndUtterance, P!TimerFires, P!Respond, P!Finalize,
       P!Summarised, P!voice

LEMMA ServedStep ==
  ASSUME P!TypeOK, P!QueueServed, playing => synth # {}, P!Next
  PROVE  P!QueueServed' /\ (playing' => synth' # {})
<1>0. queue \in Seq(P!Text)
  BY DEF P!TypeOK
<1>1. CASE P!BargeIn
  BY <1>1 DEF P!BargeIn, P!QueueAfterBargeIn, P!QueueServed
<1>2. CASE P!Write
  <2> DEFINE q == Append(queue, [n |-> written + 1, born |-> gen])
  <2>1. IF playing THEN synth' = synth ELSE synth' = synth \cup P!Take(q, gen)
    BY <1>2 DEF P!Write
  <2>2. [n |-> written + 1, born |-> gen] \in P!Text
    BY <1>2, Bounds DEF P!Write, P!TypeOK, P!Text
  <2>3. q # <<>>
    BY <1>0, <2>2, AppendProperties, ZenonT(30)
  <2> HIDE DEF q
  <2>4. P!Take(q, gen) # {}
    BY <2>3 DEF P!Take
  <2>5. synth' # {}
    BY <2>1, <2>4
  <2> QED BY <2>5 DEF P!QueueServed
<1>3. CASE P!SendFrame
  BY <1>3 DEF P!SendFrame, P!QueueServed
<1>4. ASSUME NEW v \in synth, NEW ok \in BOOLEAN, P!Synthesised(v, ok)
      PROVE  P!QueueServed' /\ (playing' => synth' # {})
  <2>1. /\ synth' = (synth \ {v}) \cup P!Take(queue, gen)
        /\ P!Take(queue, gen) = {} => queue' = queue
        /\ ~playing'
    BY <1>4 DEF P!Synthesised, P!NextInQueue
  <2>2. queue # <<>> => P!Take(queue, gen) # {}
    BY DEF P!Take
  <2>3. P!Take(queue, gen) # {} => synth' # {}
    BY <2>1
  <2> QED BY <2>1, <2>2, <2>3 DEF P!QueueServed
<1>5. CASE UNCHANGED <<queue, playing, synth, sends, aired, gen>>
  BY <1>5 DEF P!QueueServed
<1> QED BY <1>1, <1>2, <1>3, <1>4, <1>5, VoiceSteps

LEMMA WaitStep ==
  ASSUME P!TypeOK, WaitInv, [Next]_vars
  PROVE  WaitInv'
<1>1. CASE P!Next
  BY <1>1, AnsweredStep, ServedStep DEF WaitInv
<1>2. CASE UNCHANGED pipeline
  BY <1>2 DEF pipeline, WaitInv, P!WordsAnswered, P!QueueServed
<1> QED BY <1>1, <1>2, StepOfOne

-----------------------------------------------------------------------------
(***************************************************************************)
(* Nothing stale.  Text is born in the generation of its queue, a voice of *)
(* the present generation was taken from such a text, and no voice is of a *)
(* generation to come: after a barge-in every voice is of an earlier one.  *)
(***************************************************************************)
FreshVoice(v) == v.gen <= gen /\ (v.gen = gen => v.text.born = gen)

StaleInv ==
  /\ \A i \in 1..Len(queue) : queue[i].born = gen
  /\ \A v \in synth : FreshVoice(v)
  /\ \A i \in 1..Len(sends) : FreshVoice(sends[i].voice)

LEMMA HeadIsFirst ==
  ASSUME NEW S, NEW q \in Seq(S), q # <<>>
  PROVE  1 \in 1..Len(q) /\ Head(q) = q[1]
<1>1. Len(q) \in Nat \ {0}
  BY EmptySeq
<1> QED BY <1>1

\* What is taken of a queue of this generation is fresh, and the rest is of it.
LEMMA TakeFresh ==
  ASSUME NEW q \in Seq(P!Text), gen \in 0..MaxBarge, \A i \in 1..Len(q) : q[i].born = gen
  PROVE  /\ \A v \in P!Take(q, gen) : FreshVoice(v)
         /\ \A i \in 1..Len(P!Rest(q)) : P!Rest(q)[i].born = gen
<1>1. CASE q = <<>>
  BY <1>1 DEF P!Take, P!Rest
<1>2. CASE q # <<>>
  <2>1. Head(q).born = gen
    BY <1>2, HeadIsFirst
  <2>2. \A v \in P!Take(q, gen) : v.gen = gen /\ v.text.born = gen
    BY <1>2, <2>1 DEF P!Take
  <2>3. /\ Len(q) \in Nat /\ Len(Tail(q)) = Len(q) - 1
        /\ \A i \in 1..Len(Tail(q)) : Tail(q)[i] = q[i + 1]
    BY <1>2, HeadTailProperties, LenProperties
  <2>4. \A i \in 1..Len(P!Rest(q)) : P!Rest(q)[i].born = gen
    BY <1>2, <2>3 DEF P!Rest
  <2>5. gen <= gen
    BY Bounds
  <2> QED BY <2>2, <2>4, <2>5 DEF FreshVoice
<1> QED BY <1>1, <1>2

LEMMA StaleStep ==
  ASSUME P!TypeOK, StaleInv, [Next]_vars
  PROVE  StaleInv'
<1> DEFINE Frame == [voice : P!Voice, left : 0..Frames]
<1>0. /\ queue \in Seq(P!Text) /\ synth \subseteq P!Voice /\ gen \in 0..MaxBarge
      /\ sends \in Seq(Frame)
  BY DEF P!TypeOK
<1>1. CASE P!BargeIn
  <2>1. gen' = gen + 1 /\ queue' = <<>> /\ synth' = synth /\ sends' = sends
    BY <1>1 DEF P!BargeIn, P!QueueAfterBargeIn
  <2>2. \A v \in P!Voice : FreshVoice(v) => FreshVoice(v)'
    BY <1>0, <2>1, Bounds DEF FreshVoice, P!Voice
  <2>3. ASSUME NEW i \in 1..Len(sends) PROVE sends[i].voice \in P!Voice
    <3>1. sends[i] \in Frame
      BY <1>0, ElementOfSeq, Zenon
    <3> QED BY <3>1
  <2>4. \A i \in 1..Len(sends) : FreshVoice(sends[i].voice)'
    BY <2>2, <2>3, <2>1 DEF StaleInv, FreshVoice
  <2>5. \A v \in synth : FreshVoice(v)'
    BY <1>0, <2>2 DEF StaleInv
  <2>6. \A i \in 1..Len(queue') : queue'[i].born = gen'
    BY <2>1
  <2> QED BY <2>1, <2>4, <2>5, <2>6 DEF StaleInv, FreshVoice
<1>2. CASE P!Write
  <2> DEFINE new == [n |-> written + 1, born |-> gen]
             q == Append(queue, new)
  <2>1. /\ \/ queue' = q /\ synth' = synth
           \/ queue' = P!Rest(q) /\ synth' = synth \cup P!Take(q, gen)
        /\ gen' = gen /\ sends' = sends
    BY <1>2 DEF P!Write
  <2>2. new \in P!Text /\ new.born = gen
    BY <1>2, Bounds DEF P!Write, P!TypeOK, P!Text
  <2> HIDE DEF new
  <2>3. /\ q \in Seq(P!Text) /\ Len(queue) \in Nat /\ Len(q) = Len(queue) + 1
        /\ \A i \in 1..Len(queue) : q[i] = queue[i]
        /\ q[Len(queue) + 1] = new
    BY <1>0, <2>2, AppendProperties, LenProperties
  <2>4. \A i \in 1..Len(q) : q[i].born = gen
    BY <2>2, <2>3 DEF StaleInv
  <2> HIDE DEF q
  <2>5. /\ \A v \in P!Take(q, gen) : FreshVoice(v)
        /\ \A i \in 1..Len(P!Rest(q)) : P!Rest(q)[i].born = gen
    BY <1>0, <2>3, <2>4, TakeFresh
  <2> QED BY <2>1, <2>4, <2>5 DEF StaleInv, FreshVoice
<1>3. CASE P!SendFrame
  <2> DEFINE s == Head(sends)
             left == [s EXCEPT !.left = s.left - 1]
  <2>1. /\ sends # <<>> /\ queue' = queue /\ synth' = synth /\ gen' = gen
        /\ sends' = Tail(sends) \/ sends' = <<left>> \o Tail(sends)
    BY <1>3 DEF P!SendFrame
  <2>2. s \in Frame /\ s = sends[1] /\ 1 \in 1..Len(sends)
    BY <1>0, <2>1, HeadIsFirst, HeadTailProperties, Zenon
  <2>3. left.voice = s.voice
    BY <2>2
  <2>4. /\ Len(sends) \in Nat /\ Len(Tail(sends)) = Len(sends) - 1
        /\ \A i \in 1..Len(Tail(sends)) : Tail(sends)[i] = sends[i + 1]
    BY <1>0, <2>1, HeadTailProperties, LenProperties
  <2> HIDE DEF left, s
  <2>5. \A i \in 1..Len(Tail(sends)) : FreshVoice(Tail(sends)[i].voice)
    BY <2>4 DEF StaleInv
  <2>6. \A i \in 1..Len(sends') : FreshVoice(sends'[i].voice)
    <3>1. CASE sends' = <<left>> \o Tail(sends)
      <4>1. FreshVoice(left.voice)
        BY <2>2, <2>3 DEF StaleInv
      <4>2. Len(sends') = 1 + Len(Tail(sends)) /\ sends'[1] = left
        BY <1>0, <2>1, <2>4, <3>1
      <4>3. \A i \in 1..Len(Tail(sends)) : sends'[i + 1] = Tail(sends)[i]
        BY <1>0, <2>1, <2>4, <3>1
      <4>4. ASSUME NEW i \in 2..Len(sends')
            PROVE  sends'[i] = Tail(sends)[i - 1] /\ i - 1 \in 1..Len(Tail(sends))
        <5>1. i - 1 \in 1..Len(Tail(sends)) /\ (i - 1) + 1 = i
          BY <2>4, <4>2
        <5>2. sends'[(i - 1) + 1] = Tail(sends)[i - 1]
          BY <4>3, <5>1
        <5> QED BY <5>1, <5>2
      <4>5. \A i \in 1..Len(sends') : i = 1 \/ i \in 2..Len(sends')
        BY <2>4, <4>2
      <4> QED BY <2>5, <4>1, <4>2, <4>4, <4>5
    <3> QED BY <2>1, <2>5, <3>1
  <2> QED BY <2>1, <2>6 DEF StaleInv, FreshVoice
<1>4. ASSUME NEW v \in synth, NEW ok \in BOOLEAN, P!Synthesised(v, ok)
      PROVE  StaleInv'
  <2> DEFINE new == [voice |-> v, left |-> Frames]
  <2>1. /\ synth' = (synth \ {v}) \cup P!Take(queue, gen) /\ gen' = gen
        /\ queue' = queue \/ queue' = P!Rest(queue)
        /\ sends' = sends \/ sends' = Append(sends, new)
    BY <1>4 DEF P!Synthesised, P!NextInQueue
  <2>2. /\ \A w \in P!Take(queue, gen) : FreshVoice(w)
        /\ \A i \in 1..Len(P!Rest(queue)) : P!Rest(queue)[i].born = gen
    BY <1>0, TakeFresh DEF StaleInv
  <2>3. new \in Frame /\ new.voice = v /\ FreshVoice(v)
    BY <1>0, <1>4, Bounds DEF StaleInv
  <2> HIDE DEF new, Frame
  <2>4. /\ Len(sends) \in Nat /\ Len(Append(sends, new)) = Len(sends) + 1
        /\ \A i \in 1..Len(sends) : Append(sends, new)[i] = sends[i]
        /\ Append(sends, new)[Len(sends) + 1] = new
    BY <1>0, <2>3, AppendProperties, LenProperties
  <2>5. \A i \in 1..Len(sends') : FreshVoice(sends'[i].voice)
    BY <2>1, <2>3, <2>4 DEF StaleInv
  <2>6. \A w \in synth' : FreshVoice(w)
    BY <2>1, <2>2 DEF StaleInv
  <2>7. \A i \in 1..Len(queue') : queue'[i].born = gen
    BY <2>1, <2>2 DEF StaleInv
  <2> QED BY <2>1, <2>5, <2>6, <2>7 DEF StaleInv, FreshVoice
<1>5. CASE UNCHANGED <<queue, playing, synth, sends, aired, gen>>
  BY <1>5 DEF StaleInv, FreshVoice
<1>6. CASE P!Next
  BY <1>1, <1>2, <1>3, <1>4, <1>5, <1>6, VoiceSteps
<1>7. CASE UNCHANGED pipeline
  BY <1>5, <1>7 DEF pipeline
<1> QED BY <1>6, <1>7, StepOfOne

\* A frame is aired only by a voice of the present generation.
LEMMA NothingStaleStep ==
  ASSUME P!TypeOK, StaleInv, [Next]_vars
  PROVE  P!NothingStale
<1>1. ASSUME P!SendFrame PROVE P!NothingStale
  <2> DEFINE s == Head(sends)
  <2>1. s = sends[1] /\ 1 \in 1..Len(sends)
    BY <1>1, HeadIsFirst DEF P!SendFrame, P!TypeOK
  <2>2. FreshVoice(s.voice)
    BY <2>1 DEF StaleInv
  <2>3. \A f \in aired' \ aired : s.voice.gen = gen /\ f = <<s.voice.text, s.left>>
    BY <1>1 DEF P!SendFrame, P!StopsSending
  <2> QED BY <2>2, <2>3 DEF P!NothingStale, FreshVoice
<1>2. ASSUME aired' = aired PROVE P!NothingStale
  BY <1>2 DEF P!NothingStale
<1>3. CASE P!Next
  BY <1>1, <1>2, <1>3, VoiceSteps DEF P!BargeIn, P!Write, P!Synthesised
<1>4. CASE UNCHANGED pipeline
  BY <1>2, <1>4 DEF pipeline
<1> QED BY <1>3, <1>4, StepOfOne

-----------------------------------------------------------------------------
(***************************************************************************)
(* Words in order.  The entries of the transcript, the buffer and the      *)
(* tasks of the chain hold, in this order, what was spoken earlier before  *)
(* what was spoken later; what is being heard comes after all of it.       *)
(***************************************************************************)
Increasing(s) == \A i, j \in 1..Len(s) : i < j => s[i] < s[j]
Before(s, t) == \A i \in 1..Len(s), j \in 1..Len(t) : s[i] < t[j]
\* Every word of s was spoken before every chunk of the tasks q.
BeforeTasks(s, q) == \A i \in 1..Len(s), j \in 1..Len(q) : q[j] # 0 => s[i] < q[j]
Heard(s) == \A i \in 1..Len(s) : s[i] <= heard /\ (pending => s[i] < heard)

WordsInv ==
  /\ pending => heard > 0
  /\ \A i \in 1..Len(said) :
       /\ said[i] # <<>> /\ Increasing(said[i]) /\ Heard(said[i])
       /\ Before(said[i], buffer) /\ BeforeTasks(said[i], stt)
  /\ \A i, j \in 1..Len(said) : i < j => Before(said[i], said[j])
  /\ Increasing(buffer) /\ Heard(buffer) /\ BeforeTasks(buffer, stt)
  /\ \A i, j \in 1..Len(stt) : i < j /\ stt[j] # 0 => stt[i] < stt[j]
  /\ Heard(stt)

\* What a step that touches no word may change: less is pending, or one more chunk is.
LEMMA WordsKept ==
  ASSUME P!TypeOK, WordsInv, said' = said, buffer' = buffer, stt' = stt,
         \/ heard' = heard /\ (pending' => pending)
         \/ heard' = heard + 1 /\ ~pending /\ pending'
  PROVE  WordsInv'
<1>0. heard \in Nat
  BY Bounds DEF P!TypeOK
<1>1. ASSUME NEW n \in Nat, NEW s \in Seq(0..n), Heard(s)
      PROVE  Heard(s)'
  <2>1. \A i \in 1..Len(s) : s[i] \in Nat
    BY <1>1, ElementOfSeq
  <2> QED BY <1>0, <1>1, <2>1 DEF Heard
<1>2. stt \in Seq(0..MaxSpeech) /\ buffer \in Seq(0..MaxSpeech)
  BY SeqMonotonic, Bounds DEF P!TypeOK, P!SttTask
<1>3. ASSUME NEW i \in 1..Len(said) PROVE said[i] \in Seq(0..MaxSpeech)
  <2>1. said[i] \in Seq(1..MaxSpeech)
    BY ElementOfSeq, Zenon DEF P!TypeOK
  <2> QED BY <2>1, SeqMonotonic, Bounds
<1>4. Heard(stt)' /\ Heard(buffer)' /\ \A i \in 1..Len(said) : Heard(said[i])'
  BY <1>1, <1>2, <1>3, Bounds DEF WordsInv
<1>5. pending' => heard' > 0
  BY <1>0 DEF WordsInv
<1> QED BY <1>4, <1>5 DEF WordsInv, Heard, Increasing, Before, BeforeTasks

\* flushSpeechBuffer: the chunk on the chain is the latest heard.
LEMMA WordsFlushed ==
  ASSUME P!TypeOK, WordsInv, said' = said, buffer' = buffer, heard' = heard,
         pending' = FALSE, NEW q,
         q = stt \/ (pending /\ q = Append(stt, heard)),
         stt' = q \/ stt' = Append(q, 0)
  PROVE  WordsInv'
<1>0. heard \in Nat /\ heard \in P!SttTask /\ stt \in Seq(P!SttTask) /\ 0 \in P!SttTask
  BY Bounds DEF P!TypeOK, P!SttTask
\* A chain that is longer by a task that comes after everything, or by an end.
<1>1. ASSUME NEW c \in Seq(P!SttTask), NEW x \in P!SttTask,
             \A i \in 1..Len(c) : c[i] <= heard,
             \A i, j \in 1..Len(c) : i < j /\ c[j] # 0 => c[i] < c[j],
             x # 0 => \A i \in 1..Len(c) : c[i] < x, x <= heard
      PROVE  /\ Append(c, x) \in Seq(P!SttTask)
             /\ \A i \in 1..Len(Append(c, x)) : Append(c, x)[i] <= heard
             /\ \A i, j \in 1..Len(Append(c, x)) :
                  i < j /\ Append(c, x)[j] # 0 => Append(c, x)[i] < Append(c, x)[j]
             /\ \A i \in 1..Len(Append(c, x)) : Append(c, x)[i] = x \/ (i \in 1..Len(c) /\ Append(c, x)[i] = c[i])
  <2> DEFINE d == Append(c, x)
  <2>1. /\ d \in Seq(P!SttTask) /\ Len(c) \in Nat /\ Len(d) = Len(c) + 1
        /\ \A i \in 1..Len(c) : d[i] = c[i]
        /\ d[Len(c) + 1] = x
    BY <1>1, AppendProperties, LenProperties
  <2> HIDE DEF d
  <2>2. \A i \in 1..Len(d) : i \in 1..Len(c) \/ i = Len(c) + 1
    BY <2>1
  <2>3. \A i \in 1..Len(d) : d[i] <= heard
    BY <1>1, <2>1, <2>2
  <2>4. \A i, j \in 1..Len(d) : i < j /\ d[j] # 0 => d[i] < d[j]
    BY <1>1, <2>1, <2>2
  <2> QED BY <2>1, <2>2, <2>3, <2>4 DEF d
<1>2. /\ q \in Seq(P!SttTask)
      /\ \A i \in 1..Len(q) : q[i] <= heard
      /\ \A i, j \in 1..Len(q) : i < j /\ q[j] # 0 => q[i] < q[j]
      /\ \A i \in 1..Len(q) : (pending /\ q[i] = heard) \/ (i \in 1..Len(stt) /\ q[i] = stt[i])
  <2>1. CASE q = stt
    BY <1>0, <2>1 DEF WordsInv, Heard
  <2>2. CASE pending /\ q = Append(stt, heard)
    <3>1. /\ \A i \in 1..Len(stt) : stt[i] <= heard /\ stt[i] < heard
          /\ \A i, j \in 1..Len(stt) : i < j /\ stt[j] # 0 => stt[i] < stt[j]
      BY <2>2 DEF WordsInv, Heard
    <3> QED BY <1>0, <1>1, <2>2, <3>1
  <2> QED BY <2>1, <2>2
<1>3. /\ \A i \in 1..Len(stt') : stt'[i] <= heard
      /\ \A i, j \in 1..Len(stt') : i < j /\ stt'[j] # 0 => stt'[i] < stt'[j]
      /\ \A i \in 1..Len(stt') : \/ stt'[i] = 0 \/ (pending /\ stt'[i] = heard)
                                 \/ \E k \in 1..Len(stt) : stt'[i] = stt[k]
  <2>1. CASE stt' = q
    BY <1>2, <2>1
  <2>2. CASE stt' = Append(q, 0)
    <3>1. 0 <= heard
      BY <1>0
    <3> QED BY <1>0, <1>1, <1>2, <2>2, <3>1
  <2> QED BY <2>1, <2>2
<1>4. ASSUME NEW s, Heard(s), BeforeTasks(s, stt)
      PROVE  Heard(s)' /\ BeforeTasks(s, stt')
  <2>1. Heard(s)'
    BY <1>4 DEF Heard
  <2>2. BeforeTasks(s, stt')
    BY <1>3, <1>4 DEF Heard, BeforeTasks
  <2> QED BY <2>1, <2>2
<1>5. Heard(stt)'
  BY <1>3 DEF Heard
<1> QED BY <1>3, <1>4, <1>5 DEF WordsInv, Increasing, Before

\* The first task of the chain is off it; a transcribed one joins the buffer.
LEMMA WordsTaken ==
  ASSUME P!TypeOK, WordsInv, stt # <<>>, stt' = Tail(stt), heard' = heard, pending' = pending,
         said' = said,
         buffer' = buffer \/ (Head(stt) # 0 /\ buffer' = Append(buffer, Head(stt)))
  PROVE  WordsInv'
<1> DEFINE h == Head(stt)
<1>0. stt \in Seq(P!SttTask) /\ buffer \in Seq(P!SttTask) /\ P!SttTask \subseteq Nat
  BY SeqMonotonic, Bounds DEF P!TypeOK, P!SttTask
<1>1. /\ Len(stt) \in Nat /\ 1 \in 1..Len(stt) /\ h = stt[1] /\ h \in P!SttTask
      /\ Len(stt') = Len(stt) - 1
      /\ \A i \in 1..Len(stt') : stt'[i] = stt[i + 1]
  BY <1>0, HeadIsFirst, HeadTailProperties, LenProperties
<1>2. \A i \in 1..Len(stt') : i + 1 \in 1..Len(stt) /\ i + 1 # 1 /\ stt'[i] = stt[i + 1]
  BY <1>1
<1> HIDE DEF h
<1>3. Heard(stt)'
  BY <1>2 DEF WordsInv, Heard
<1>4. \A i, j \in 1..Len(stt') : i < j /\ stt'[j] # 0 => stt'[i] < stt'[j]
  BY <1>1, <1>2 DEF WordsInv
<1>5. ASSUME NEW s, BeforeTasks(s, stt) PROVE BeforeTasks(s, stt')
  BY <1>2, <1>5 DEF BeforeTasks
<1>6. /\ Increasing(buffer') /\ Heard(buffer)' /\ BeforeTasks(buffer', stt')
      /\ \A i \in 1..Len(said) : Before(said[i], buffer')
  <2>1. CASE buffer' = buffer
    BY <1>5, <2>1 DEF WordsInv, Heard
  <2>2. CASE h # 0 /\ buffer' = Append(buffer, h)
    <3>1. /\ Len(buffer) \in Nat /\ Len(buffer') = Len(buffer) + 1
          /\ \A i \in 1..Len(buffer) : buffer'[i] = buffer[i]
          /\ buffer'[Len(buffer) + 1] = h
      BY <1>0, <1>1, <2>2, AppendProperties, LenProperties
    <3>2. \A i \in 1..Len(buffer') : i \in 1..Len(buffer) \/ i = Len(buffer) + 1
      BY <3>1
    <3>3. \A i \in 1..Len(buffer) : buffer[i] < h
      BY <1>1, <2>2 DEF WordsInv, BeforeTasks
    <3>4. Increasing(buffer')
      BY <3>1, <3>2, <3>3 DEF WordsInv, Increasing
    <3>5. Heard(buffer)'
      BY <1>1, <3>1, <3>2 DEF WordsInv, Heard
    <3>6. \A j \in 1..Len(stt') : stt'[j] # 0 => h < stt'[j]
      BY <1>1, <1>2 DEF WordsInv
    <3>7. BeforeTasks(buffer', stt')
      BY <1>5, <3>1, <3>2, <3>6 DEF WordsInv, BeforeTasks
    <3>8. ASSUME NEW i \in 1..Len(said) PROVE Before(said[i], buffer')
      <4>1. \A k \in 1..Len(said[i]) : said[i][k] < h
        BY <1>1, <2>2 DEF WordsInv, BeforeTasks
      <4> QED BY <3>1, <3>2, <4>1 DEF WordsInv, Before
    <3> QED BY <3>4, <3>5, <3>7, <3>8
  <2> QED BY <2>1, <2>2 DEF h
<1> QED BY <1>3, <1>4, <1>5, <1>6 DEF WordsInv, Heard

\* The end of an utterance: the buffer is the last entry of the transcript.
LEMMA WordsEntered ==
  ASSUME P!TypeOK, WordsInv, stt # <<>>, Head(stt) = 0, stt' = Tail(stt), heard' = heard,
         pending' = pending, buffer # <<>>, buffer' = <<>>, said' = Append(said, buffer)
  PROVE  WordsInv'
<1>0. stt \in Seq(P!SttTask) /\ buffer \in Seq(1..MaxSpeech) /\ said \in Seq(Seq(1..MaxSpeech))
  BY DEF P!TypeOK
<1>1. /\ Len(stt) \in Nat /\ Len(stt') = Len(stt) - 1
      /\ \A i \in 1..Len(stt') : stt'[i] = stt[i + 1]
  BY <1>0, HeadTailProperties, LenProperties
<1>2. \A i \in 1..Len(stt') : i + 1 \in 1..Len(stt) /\ stt'[i] = stt[i + 1]
  BY <1>1
<1>3. Heard(stt)'
  BY <1>2 DEF WordsInv, Heard
<1>4. \A i, j \in 1..Len(stt') : i < j /\ stt'[j] # 0 => stt'[i] < stt'[j]
  BY <1>1, <1>2 DEF WordsInv
<1>5. ASSUME NEW s, BeforeTasks(s, stt) PROVE BeforeTasks(s, stt')
  BY <1>2, <1>5 DEF BeforeTasks
<1>6. /\ Len(said) \in Nat /\ Len(said') = Len(said) + 1
      /\ \A i \in 1..Len(said) : said'[i] = said[i]
      /\ said'[Len(said) + 1] = buffer
  BY <1>0, AppendProperties, LenProperties
<1>7. \A i \in 1..Len(said') : i \in 1..Len(said) \/ i = Len(said) + 1
  BY <1>6
<1>8. Len(buffer') = 0
  BY EmptySeq
<1>9. ASSUME NEW i \in 1..Len(said')
      PROVE  /\ said'[i] # <<>> /\ Increasing(said'[i]) /\ Heard(said'[i])
             /\ BeforeTasks(said'[i], stt')
  BY <1>5, <1>6, <1>7 DEF WordsInv
<1>10. \A i, j \in 1..Len(said') : i < j => Before(said'[i], said'[j])
  BY <1>6, <1>7 DEF WordsInv
<1>11. \A i \in 1..Len(said') : Heard(said[i])'
  BY <1>9 DEF Heard
<1>12. Increasing(buffer') /\ Heard(buffer)' /\ BeforeTasks(buffer', stt')
       /\ \A i \in 1..Len(said') : Before(said'[i], buffer')
  BY <1>8 DEF Increasing, Heard, BeforeTasks, Before
<1> QED BY <1>3, <1>4, <1>9, <1>10, <1>11, <1>12 DEF WordsInv

LEMMA WordsStep ==
  ASSUME P!TypeOK, WordsInv, [Next]_vars
  PROVE  WordsInv'
<1>0. P!EndOfUtterance = 0
  BY DEF P!EndOfUtterance
<1>1. CASE P!ChunkFull
  <2>1. P!Flushed(TRUE) = Append(stt, heard) /\ pending
    BY <1>1 DEF P!ChunkFull, P!Flushed
  <2> QED BY <1>1, <2>1, WordsFlushed DEF P!ChunkFull
<1>2. ASSUME NEW long \in BOOLEAN, P!Silence(long) \/ P!Finalize(long)
      PROVE  WordsInv'
  <2>1. P!Flushed(long) = stt \/ (pending /\ P!Flushed(long) = Append(stt, heard))
    BY DEF P!Flushed
  <2>2. /\ stt' = Append(P!Flushed(long), 0) /\ pending' = FALSE
        /\ said' = said /\ buffer' = buffer /\ heard' = heard
    BY <1>0, <1>2 DEF P!Silence, P!Finalize
  <2> QED BY <2>1, <2>2, WordsFlushed
<1>3. CASE P!Transcribed
  BY <1>0, <1>3, WordsTaken DEF P!Transcribed, P!caller
<1>4. CASE P!TranscriptionLost
  BY <1>4, WordsTaken DEF P!TranscriptionLost, P!ChainAfterFailure, P!caller
<1>5. CASE P!EndUtterance
  <2>1. /\ stt # <<>> /\ Head(stt) = 0 /\ stt' = Tail(stt)
        /\ heard' = heard /\ pending' = pending
        /\ \/ buffer' = buffer /\ said' = said
           \/ buffer # <<>> /\ buffer' = <<>> /\ said' = Append(said, buffer)
    BY <1>0, <1>5 DEF P!EndUtterance, P!BufferAfterEnd, P!caller
  <2> QED BY <2>1, WordsTaken, WordsEntered
<1>6. CASE P!TimerFires
  <2>1. /\ stt' = Append(stt, 0) /\ said' = said /\ buffer' = buffer
        /\ heard' = heard /\ pending' = pending
    BY <1>0, <1>6 DEF P!TimerFires, P!caller
  <2>2. stt \in Seq(P!SttTask) /\ 0 \in P!SttTask /\ heard \in Nat
    BY Bounds DEF P!TypeOK, P!SttTask
  <2>3. /\ Len(stt) \in Nat /\ Len(stt') = Len(stt) + 1
        /\ \A i \in 1..Len(stt) : stt'[i] = stt[i]
        /\ stt'[Len(stt) + 1] = 0
    BY <2>1, <2>2, AppendProperties, LenProperties
  <2>4. \A i \in 1..Len(stt') : (i \in 1..Len(stt) /\ stt'[i] = stt[i]) \/ stt'[i] = 0
    BY <2>3
  <2>5. Heard(stt)'
    BY <2>1, <2>2, <2>4 DEF WordsInv, Heard
  <2>6. \A i, j \in 1..Len(stt') : i < j /\ stt'[j] # 0 => stt'[i] < stt'[j]
    <3> SUFFICES ASSUME NEW i \in 1..Len(stt'), NEW j \in 1..Len(stt'), i < j, stt'[j] # 0
                 PROVE  stt'[i] < stt'[j]
      OBVIOUS
    <3>1. j \in 1..Len(stt) /\ i \in 1..Len(stt)
      BY <2>3
    <3> QED BY <2>3, <3>1 DEF WordsInv
  <2>7. ASSUME NEW s, BeforeTasks(s, stt) PROVE BeforeTasks(s, stt')
    BY <2>4, <2>7 DEF BeforeTasks
  <2> QED BY <2>1, <2>5, <2>6, <2>7 DEF WordsInv, Heard
<1>7. CASE P!Speak
  BY <1>7, WordsKept DEF P!Speak, P!words
<1>8. CASE UNCHANGED <<heard, pending, stt, buffer, said>>
  BY <1>8, WordsKept
<1>9. ASSUME P!Next
      PROVE  \/ P!ChunkFull \/ P!Transcribed \/ P!TranscriptionLost \/ P!EndUtterance
             \/ P!TimerFires \/ P!Speak
             \/ \E long \in BOOLEAN : P!Silence(long) \/ P!Finalize(long)
             \/ UNCHANGED <<heard, pending, stt, buffer, said>>
  BY <1>9 DEF P!Next, P!Caller, P!Start, P!BargeIn, P!Write, P!Respond, P!SendFrame,
              P!Synthesised, P!Summarised, P!words, P!caller
<1>10. CASE UNCHANGED pipeline
  BY <1>8, <1>10 DEF pipeline
<1>11. CASE P!Next
  BY <1>1, <1>2, <1>3, <1>4, <1>5, <1>6, <1>7, <1>8, <1>9, <1>11
<1> QED BY <1>10, <1>11, StepOfOne

LEMMA WordsOrdered ==
  ASSUME P!TypeOK, WordsInv
  PROVE  P!WordsOnceInOrder
<1>1. \A i \in 1..Len(said) : \A j, k \in 1..Len(said[i]) : j < k => said[i][j] < said[i][k]
  BY DEF WordsInv, Increasing
<1>2. ASSUME NEW i \in 1..Len(said)
      PROVE  1 \in 1..Len(said[i]) /\ Len(said[i]) \in 1..Len(said[i])
  <2>1. said[i] \in Seq(1..MaxSpeech) /\ said[i] # <<>>
    BY ElementOfSeq DEF P!TypeOK, WordsInv
  <2>2. Len(said[i]) \in Nat \ {0}
    BY <2>1, EmptySeq, Zenon
  <2> QED BY <2>2
<1>3. \A i, j \in 1..Len(said) : i < j => said[i][Len(said[i])] < said[j][1]
  BY <1>2 DEF WordsInv, Before
<1> QED BY <1>1, <1>3 DEF P!WordsOnceInOrder

-----------------------------------------------------------------------------
(* Types of the realtime engine.                                            *)

LEMMA PushedType ==
  ASSUME R!TypeOK, frames < MaxAudio
  PROVE  /\ R!Pushed(frames + 1) \in Seq(1..MaxAudio)
         /\ Len(R!Pushed(frames + 1)) <= MaxPending
<1>1. frames + 1 \in 1..MaxAudio
  BY Bounds DEF R!TypeOK
<1>2. waiting \in Seq(1..MaxAudio) /\ Len(waiting) \in Nat /\ Len(waiting) <= MaxPending
  BY LenProperties DEF R!TypeOK
<1>3. CASE Len(waiting) < MaxPending
  <2>1. /\ Append(waiting, frames + 1) \in Seq(1..MaxAudio)
        /\ Len(Append(waiting, frames + 1)) = Len(waiting) + 1
    BY <1>1, <1>2, AppendProperties
  <2> QED BY <1>2, <1>3, <2>1, Bounds DEF R!Pushed
<1>4. CASE Len(waiting) >= MaxPending
  <2>1. waiting # <<>>
    BY <1>4, EmptySeq, Bounds
  <2>2. Tail(waiting) \in Seq(1..MaxAudio) /\ Len(Tail(waiting)) = Len(waiting) - 1
    BY <1>2, <2>1, HeadTailProperties, Zenon
  <2>3. /\ Append(Tail(waiting), frames + 1) \in Seq(1..MaxAudio)
        /\ Len(Append(Tail(waiting), frames + 1)) = Len(Tail(waiting)) + 1
    BY <1>1, <2>2, AppendProperties
  <2>4. ~(Len(waiting) < MaxPending) /\ Len(Append(Tail(waiting), frames + 1)) <= MaxPending
    BY <1>2, <1>4, <2>2, <2>3, Bounds
  <2> QED BY <2>3, <2>4, Zenon DEF R!Pushed
<1> QED BY <1>2, <1>3, <1>4, Bounds

\* A flush leaves a buffer, a transcript and a set of pieces.
LEMMA FlushType ==
  ASSUME R!TypeOK, NEW repeats \in BOOLEAN, R!Flush(repeats)
  PROVE  /\ text' \in Seq(1..MaxPieces) /\ transcript' \in Seq(Seq(1..MaxPieces))
         /\ repeated' \subseteq 1..MaxPieces
<1>1. <<>> \in Seq(1..MaxPieces)
  BY EmptySeq, Zenon
<1>2. text \in Seq(1..MaxPieces) /\ transcript \in Seq(Seq(1..MaxPieces))
  BY DEF R!TypeOK
<1>3. Append(transcript, text) \in Seq(Seq(1..MaxPieces))
  BY <1>2, AppendProperties, Zenon
<1>4. R!RangeOf(text) \subseteq 1..MaxPieces
  <2> SUFFICES ASSUME NEW i \in 1..Len(text) PROVE text[i] \in 1..MaxPieces
    BY DEF R!RangeOf
  <2> QED BY <1>2, ElementOfSeq, Zenon
<1>5. repeated' = repeated \/ repeated' = repeated \cup R!RangeOf(text)
  BY DEF R!Flush
<1>6. repeated' \subseteq 1..MaxPieces
  BY <1>4, <1>5 DEF R!TypeOK
<1> QED BY <1>1, <1>2, <1>3, <1>6, Zenon DEF R!Flush, R!BufferAfterFlush

LEMMA RealtimeType ==
  ASSUME R!TypeOK, [Next]_vars
  PROVE  R!TypeOK'
<1>0. /\ <<>> \in Seq(1..MaxAudio) /\ <<>> \in Seq(1..MaxPieces) /\ Len(<<>>) = 0
      /\ waiting \in Seq(1..MaxAudio) /\ relayed \in Seq(1..MaxAudio)
      /\ text \in Seq(1..MaxPieces) /\ partOf \in Seq(1..MaxTurns)
      /\ transcript \in Seq(Seq(1..MaxPieces))
  BY EmptySeq DEF R!TypeOK
<1>1. CASE R!Open
  <2>1. relayed' \in Seq(1..MaxAudio) /\ waiting' \in Seq(1..MaxAudio) /\ Len(waiting') <= MaxPending
    BY <1>0, <1>1, ConcatProperties, Bounds DEF R!Open
  <2> QED BY <1>1, <2>1 DEF R!Open, R!TypeOK, R!texts
<1>2. CASE R!Lose
  BY <1>2 DEF R!Lose, R!TypeOK, R!audio, R!texts
<1>3. ASSUME NEW yes \in BOOLEAN, R!Speaking(yes)
      PROVE  R!TypeOK'
  BY <1>3 DEF R!Speaking, R!PlayoutAfterBargeIn, R!TypeOK, R!audio, R!texts
<1>4. CASE R!Answer
  <2>1. turn + 1 \in 0..MaxTurns /\ turn + 1 # 0
    BY <1>4, Bounds DEF R!Answer, R!TypeOK
  <2> QED BY <1>4, <2>1 DEF R!Answer, R!TypeOK, R!audio
<1>13. CASE R!TextDelta
  <2>1. turn \in 1..MaxTurns
    BY <1>13, Bounds DEF R!TextDelta, R!TypeOK
  <2>2. Len(partOf) \in Nat /\ Len(partOf) + 1 \in 1..MaxPieces
    BY <1>0, <1>13, Bounds, LenProperties DEF R!TextDelta
  <2>3. partOf' \in Seq(1..MaxTurns) /\ Len(partOf') = Len(partOf) + 1
    BY <1>0, <1>13, <2>1, AppendProperties DEF R!TextDelta
  <2>4. text' \in Seq(1..MaxPieces)
    BY <1>0, <1>13, <2>2, AppendProperties DEF R!TextDelta
  <2> QED BY <1>13, <2>2, <2>3, <2>4 DEF R!TextDelta, R!TypeOK, R!audio
<1>14. CASE R!AudioDelta
  BY <1>14 DEF R!AudioDelta, R!TypeOK, R!audio, R!texts
<1>15. CASE R!PlayedOut
  BY <1>15 DEF R!PlayedOut, R!TypeOK, R!audio, R!texts
<1>5. CASE R!UserSaid
  <2>1. transcript' \in Seq(Seq(1..MaxPieces))
    BY <1>0, <1>5, AppendProperties DEF R!UserSaid
  <2> QED BY <1>5, <2>1 DEF R!UserSaid, R!TypeOK, R!audio
<1>6. ASSUME NEW repeats \in BOOLEAN, R!Answered(repeats)
      PROVE  R!TypeOK'
  <2>1. R!Flush(repeats)
    BY <1>6 DEF R!Answered
  <2> QED BY <1>6, <2>1, FlushType DEF R!Answered, R!TypeOK, R!audio
<1>7. CASE R!Start
  BY <1>7 DEF R!Start, R!TypeOK, R!audio, R!texts
<1>8. CASE R!Media
  <2>1. frames + 1 \in 1..MaxAudio
    BY <1>8, Bounds DEF R!Media, R!TypeOK
  <2>2. /\ relayed' \in Seq(1..MaxAudio) /\ waiting' \in Seq(1..MaxAudio)
        /\ Len(waiting') <= MaxPending
    <3>1. Append(relayed, frames + 1) \in Seq(1..MaxAudio)
      BY <1>0, <2>1, AppendProperties
    <3> QED BY <1>0, <1>8, <3>1, PushedType DEF R!Media, R!TypeOK
  <2>3. dropped' \subseteq 1..MaxAudio
    <3>1. CASE dropped' = dropped
      BY <3>1 DEF R!TypeOK
    <3>2. CASE ~(Len(waiting) < MaxPending) /\ dropped' = dropped \cup {Head(waiting)}
      <4>1. waiting # <<>>
        BY <3>2, EmptySeq, Bounds
      <4> QED BY <1>0, <3>2, <4>1, HeadTailProperties, ZenonT(40) DEF R!TypeOK
    <3> QED BY <1>8, <3>1, <3>2 DEF R!Media
  <2> QED BY <1>8, <2>1, <2>2, <2>3, Bounds DEF R!Media, R!TypeOK, R!texts
<1>9. ASSUME NEW repeats \in BOOLEAN, R!Finalize(repeats)
      PROVE  R!TypeOK'
  <2>1. R!Flush(repeats)
    BY <1>9 DEF R!Finalize
  <2>2. cut' \in 0..MaxTurns
    BY <1>9, Bounds DEF R!Finalize, R!TypeOK
  <2> QED BY <1>9, <2>1, <2>2, FlushType DEF R!Finalize, R!TypeOK, R!audio
<1>10. CASE R!Summarised
  BY <1>10 DEF R!Summarised, R!TypeOK, R!audio, R!texts
<1>16. CASE R!Saved
  BY <1>16 DEF R!Saved, R!TypeOK, R!audio, R!texts
<1>11. CASE UNCHANGED realtime
  BY <1>11 DEF realtime, R!TypeOK
<1>12. CASE R!Next
  BY <1>1, <1>2, <1>3, <1>4, <1>5, <1>6, <1>7, <1>8, <1>9, <1>10, <1>12,
     <1>13, <1>14, <1>15, <1>16 DEF R!Next
<1> QED BY <1>11, <1>12, StepOfOne

\* The types of both engines.
THEOREM StreamTypeCorrect == Spec => []TypeOK
<1>1. Init => TypeOK
  <2>1. ASSUME R!Init PROVE R!TypeOK
    <3>1. /\ <<>> \in Seq(1..MaxAudio) /\ <<>> \in Seq(1..MaxTurns)
          /\ <<>> \in Seq(1..MaxPieces) /\ <<>> \in Seq(Seq(1..MaxPieces)) /\ Len(<<>>) = 0
      BY EmptySeq, Zenon
    <3>2. /\ waiting \in Seq(1..MaxAudio) /\ Len(waiting) = 0 /\ relayed \in Seq(1..MaxAudio)
          /\ text \in Seq(1..MaxPieces) /\ partOf \in Seq(1..MaxTurns)
          /\ Len(partOf) = 0 /\ transcript \in Seq(Seq(1..MaxPieces))
      BY <2>1, <3>1, Zenon DEF R!Init
    <3>3. frames \in 0..MaxAudio /\ turn \in 0..MaxTurns /\ cut \in 0..MaxTurns
          /\ Len(waiting) <= MaxPending /\ Len(partOf) <= MaxPieces
      BY <2>1, <3>2, Bounds DEF R!Init
    <3>4. dropped \subseteq 1..MaxAudio /\ repeated \subseteq 1..MaxPieces
      BY <2>1 DEF R!Init
    <3> QED BY <2>1, <3>2, <3>3, <3>4 DEF R!Init, R!TypeOK
  <2> QED BY <2>1, PipelineTypeInit DEF Init, TypeOK
<1>2. TypeOK /\ [Next]_vars => TypeOK'
  BY PipelineType, RealtimeType DEF TypeOK
<1> QED BY <1>1, <1>2, PTL DEF Spec

-----------------------------------------------------------------------------
(***************************************************************************)
(* The caller's audio.  What was relayed came before what waits, and what  *)
(* was given up before both while the socket is not lost: nothing is       *)
(* relayed until it opens, and nothing waits while it is open.             *)
(***************************************************************************)
AudioInv ==
  /\ Increasing(relayed) /\ Increasing(waiting) /\ Before(relayed, waiting)
  /\ \A d \in dropped : \A i \in 1..Len(waiting) : d < waiting[i]
  /\ openAi # "closed" => \A d \in dropped : \A i \in 1..Len(relayed) : d < relayed[i]
  /\ R!RangeOf(relayed) \cup R!RangeOf(waiting) \cup dropped = 1..frames
  /\ openAi = "connecting" => relayed = <<>>
  /\ openAi = "open" => waiting = <<>>

\* The elements of what is put together and taken apart.
LEMMA RangeOfLonger ==
  ASSUME NEW q, NEW x, NEW d, Len(q) \in Nat, Len(d) = Len(q) + 1,
         \A i \in 1..Len(q) : d[i] = q[i], d[Len(q) + 1] = x
  PROVE  R!RangeOf(d) = R!RangeOf(q) \cup {x}
<1>1. \A i \in 1..Len(d) : i \in 1..Len(q) \/ i = Len(q) + 1
  OBVIOUS
<1>2. \A i \in 1..Len(q) : i \in 1..Len(d)
  OBVIOUS
<1>3. Len(q) + 1 \in 1..Len(d)
  OBVIOUS
<1> QED BY <1>1, <1>2, <1>3 DEF R!RangeOf

LEMMA RangeAppend ==
  ASSUME NEW q \in Seq(1..MaxAudio), NEW x \in 1..MaxAudio
  PROVE  R!RangeOf(Append(q, x)) = R!RangeOf(q) \cup {x}
<1> DEFINE d == Append(q, x)
<1>1. /\ Len(q) \in Nat /\ Len(d) = Len(q) + 1
      /\ \A i \in 1..Len(q) : d[i] = q[i]
      /\ d[Len(q) + 1] = x
  BY AppendProperties, LenProperties
<1> QED BY <1>1, RangeOfLonger, Zenon

LEMMA PieceAppended ==
  ASSUME NEW q \in Seq(1..MaxPieces), NEW x \in 1..MaxPieces
  PROVE  R!RangeOf(Append(q, x)) = R!RangeOf(q) \cup {x}
<1> DEFINE d == Append(q, x)
<1>1. /\ Len(q) \in Nat /\ Len(d) = Len(q) + 1
      /\ \A i \in 1..Len(q) : d[i] = q[i]
      /\ d[Len(q) + 1] = x
  BY AppendProperties, LenProperties
<1> QED BY <1>1, RangeOfLonger, Zenon

LEMMA RangeOfHeadTail ==
  ASSUME NEW S, NEW q \in Seq(S), q # <<>>
  PROVE  R!RangeOf(q) = {Head(q)} \cup R!RangeOf(Tail(q))
<1>1. /\ Len(q) \in Nat /\ 1 \in 1..Len(q) /\ Head(q) = q[1] /\ Len(Tail(q)) = Len(q) - 1
      /\ \A i \in 1..Len(Tail(q)) : Tail(q)[i] = q[i + 1]
  BY HeadIsFirst, HeadTailProperties, LenProperties
<1>2. \A i \in 1..Len(Tail(q)) : i + 1 \in 1..Len(q)
  BY <1>1
<1>3. ASSUME NEW i \in 1..Len(q), i # 1
      PROVE  i - 1 \in 1..Len(Tail(q)) /\ Tail(q)[i - 1] = q[i]
  <2>1. i - 1 \in 1..Len(Tail(q)) /\ (i - 1) + 1 = i
    BY <1>1, <1>3
  <2> QED BY <1>1, <2>1
<1>4. ASSUME NEW x \in R!RangeOf(q) PROVE x = Head(q) \/ x \in R!RangeOf(Tail(q))
  <2>1. PICK i \in 1..Len(q) : x = q[i]
    BY <1>4 DEF R!RangeOf
  <2>2. CASE i = 1
    BY <1>1, <2>1, <2>2
  <2>3. CASE i # 1
    BY <1>3, <2>1, <2>3 DEF R!RangeOf
  <2> QED BY <2>2, <2>3
<1>5. Head(q) \in R!RangeOf(q)
  BY <1>1 DEF R!RangeOf
<1>6. ASSUME NEW x \in R!RangeOf(Tail(q)) PROVE x \in R!RangeOf(q)
  BY <1>1, <1>2, <1>6 DEF R!RangeOf
<1> QED BY <1>4, <1>5, <1>6

\* The next chunk comes after all of the audio so far.
LEMMA NextFrame ==
  ASSUME R!TypeOK, AudioInv
  PROVE  /\ \A i \in 1..Len(relayed) : relayed[i] < frames + 1
         /\ \A i \in 1..Len(waiting) : waiting[i] < frames + 1
         /\ \A d \in dropped : d < frames + 1
<1>1. \A n \in 1..frames : n < frames + 1
  BY Bounds DEF R!TypeOK
<1>2. /\ \A i \in 1..Len(relayed) : relayed[i] \in 1..frames
      /\ \A i \in 1..Len(waiting) : waiting[i] \in 1..frames
      /\ \A d \in dropped : d \in 1..frames
  BY DEF AudioInv, R!RangeOf
<1> QED BY <1>1, <1>2

LEMMA OneMore ==
  ASSUME NEW S, NEW q \in Seq(S), NEW x \in S, Increasing(q), \A i \in 1..Len(q) : q[i] < x
  PROVE  /\ Increasing(Append(q, x))
         /\ \A i \in 1..Len(Append(q, x)) :
              \/ i \in 1..Len(q) /\ Append(q, x)[i] = q[i]
              \/ Append(q, x)[i] = x
<1> DEFINE d == Append(q, x)
<1>1. /\ Len(q) \in Nat /\ Len(d) = Len(q) + 1
      /\ \A i \in 1..Len(q) : d[i] = q[i]
      /\ d[Len(q) + 1] = x
  BY AppendProperties, LenProperties
<1> HIDE DEF d
<1>2. \A i \in 1..Len(d) : i \in 1..Len(q) \/ i = Len(q) + 1
  BY <1>1
<1>3. Increasing(d)
  BY <1>1, <1>2 DEF Increasing
<1>4. \A i \in 1..Len(d) : (i \in 1..Len(q) /\ d[i] = q[i]) \/ d[i] = x
  BY <1>1, <1>2
<1> QED BY <1>3, <1>4 DEF d

LEMMA MediaAudio ==
  ASSUME R!TypeOK, AudioInv, R!Media
  PROVE  AudioInv'
<1> DEFINE a == frames + 1
<1>0. /\ a \in 1..MaxAudio /\ frames \in Nat /\ frames' = a /\ openAi' = openAi
      /\ 1..a = (1..frames) \cup {a}
      /\ relayed \in Seq(1..MaxAudio) /\ waiting \in Seq(1..MaxAudio)
  BY Bounds DEF R!Media, R!TypeOK
<1>00. /\ \A i \in 1..Len(relayed) : relayed[i] < a
       /\ \A i \in 1..Len(waiting) : waiting[i] < a
       /\ \A d \in dropped : d < a
  BY NextFrame
<1>cases. \/ openAi = "open" /\ relayed' = Append(relayed, a) /\ UNCHANGED <<waiting, dropped>>
          \/ /\ openAi # "open" /\ relayed' = relayed /\ Len(waiting) < MaxPending
             /\ waiting' = Append(waiting, a) /\ dropped' = dropped
          \/ /\ openAi # "open" /\ relayed' = relayed /\ ~(Len(waiting) < MaxPending)
             /\ waiting' = Append(Tail(waiting), a) /\ dropped' = dropped \cup {Head(waiting)}
  BY DEF R!Media, R!Pushed
<1> HIDE DEF a
<1>1. CASE openAi = "open" /\ relayed' = Append(relayed, a) /\ UNCHANGED <<waiting, dropped>>
  <2>1. /\ Increasing(relayed')
        /\ \A i \in 1..Len(relayed') : \/ i \in 1..Len(relayed) /\ relayed'[i] = relayed[i]
                                       \/ relayed'[i] = a
        /\ R!RangeOf(relayed') = R!RangeOf(relayed) \cup {a}
    <3>1. Increasing(relayed)
      BY DEF AudioInv
    <3>2. /\ Increasing(Append(relayed, a))
          /\ \A i \in 1..Len(Append(relayed, a)) :
               \/ i \in 1..Len(relayed) /\ Append(relayed, a)[i] = relayed[i]
               \/ Append(relayed, a)[i] = a
      BY <1>0, <1>00, <3>1, OneMore, Zenon
    <3>3. R!RangeOf(Append(relayed, a)) = R!RangeOf(relayed) \cup {a}
      <4>1. relayed \in Seq(1..MaxAudio) /\ a \in 1..MaxAudio
        BY <1>0
      <4> QED BY <4>1, RangeAppend, Zenon
    <3> QED BY <1>1, <3>2, <3>3, Zenon
  <2>2. waiting = <<>> /\ waiting' = <<>> /\ Len(<<>>) = 0 /\ openAi' = "open"
    BY <1>0, <1>1, EmptySeq DEF AudioInv
  <2>3. \A d \in dropped' : \A i \in 1..Len(relayed') : d < relayed'[i]
    BY <1>00, <1>1, <2>1 DEF AudioInv
  <2>4. Increasing(waiting') /\ Before(relayed', waiting')
        /\ \A d \in dropped' : \A i \in 1..Len(waiting') : d < waiting'[i]
    BY <2>2 DEF Increasing, Before
  <2>5. R!RangeOf(relayed') \cup R!RangeOf(waiting') \cup dropped' = 1..frames'
    BY <1>0, <1>1, <2>1 DEF AudioInv
  <2> QED BY <2>1, <2>2, <2>3, <2>4, <2>5 DEF AudioInv
<1>2. CASE /\ openAi # "open" /\ relayed' = relayed
           /\ waiting' = Append(waiting, a) /\ dropped' = dropped
  <2>1. /\ Increasing(waiting')
        /\ \A i \in 1..Len(waiting') : \/ i \in 1..Len(waiting) /\ waiting'[i] = waiting[i]
                                       \/ waiting'[i] = a
        /\ R!RangeOf(waiting') = R!RangeOf(waiting) \cup {a}
    <3>1. Increasing(waiting)
      BY DEF AudioInv
    <3>2. /\ Increasing(Append(waiting, a))
          /\ \A i \in 1..Len(Append(waiting, a)) :
               \/ i \in 1..Len(waiting) /\ Append(waiting, a)[i] = waiting[i]
               \/ Append(waiting, a)[i] = a
      BY <1>0, <1>00, <3>1, OneMore, Zenon
    <3>3. R!RangeOf(Append(waiting, a)) = R!RangeOf(waiting) \cup {a}
      <4>1. waiting \in Seq(1..MaxAudio) /\ a \in 1..MaxAudio
        BY <1>0
      <4> QED BY <4>1, RangeAppend, Zenon
    <3> QED BY <1>2, <3>2, <3>3, Zenon
  <2>2. Before(relayed', waiting')
    BY <1>00, <1>2, <2>1 DEF AudioInv, Before
  <2>3. \A d \in dropped' : \A i \in 1..Len(waiting') : d < waiting'[i]
    BY <1>00, <1>2, <2>1 DEF AudioInv
  <2>5. R!RangeOf(relayed') \cup R!RangeOf(waiting') \cup dropped' = 1..frames'
    BY <1>0, <1>2, <2>1 DEF AudioInv
  <2> QED BY <1>0, <1>2, <2>1, <2>2, <2>3, <2>5 DEF AudioInv
<1>3. CASE /\ openAi # "open" /\ relayed' = relayed /\ ~(Len(waiting) < MaxPending)
           /\ waiting' = Append(Tail(waiting), a) /\ dropped' = dropped \cup {Head(waiting)}
  <2> DEFINE t == Tail(waiting)
  <2>0. waiting # <<>>
    BY <1>3, EmptySeq, Bounds
  <2>1. /\ Len(waiting) \in Nat /\ 1 \in 1..Len(waiting) /\ Head(waiting) = waiting[1]
        /\ t \in Seq(1..MaxAudio) /\ Len(t) = Len(waiting) - 1
        /\ \A i \in 1..Len(t) : t[i] = waiting[i + 1]
    BY <1>0, <2>0, HeadIsFirst, HeadTailProperties, LenProperties
  <2>2. R!RangeOf(waiting) = {Head(waiting)} \cup R!RangeOf(t)
    BY <1>0, <2>0, RangeOfHeadTail
  <2> HIDE DEF t
  <2>3. \A i \in 1..Len(t) : i + 1 \in 1..Len(waiting) /\ 1 < i + 1 /\ t[i] = waiting[i + 1]
    BY <2>1
  <2>4. Increasing(t)
    <3> SUFFICES ASSUME NEW i \in 1..Len(t), NEW j \in 1..Len(t), i < j
                 PROVE  t[i] < t[j]
      BY DEF Increasing
    <3>1. i + 1 < j + 1
      BY <2>1
    <3> QED BY <2>3, <3>1 DEF AudioInv, Increasing
  <2>5. \A i \in 1..Len(t) : t[i] < a /\ Head(waiting) < t[i]
    BY <1>00, <2>1, <2>3 DEF AudioInv, Increasing
  <2>6. waiting' = Append(t, a)
    BY <1>3 DEF t
  <2>7. /\ Increasing(waiting')
        /\ \A i \in 1..Len(waiting') : \/ i \in 1..Len(t) /\ waiting'[i] = t[i]
                                       \/ waiting'[i] = a
        /\ R!RangeOf(waiting') = R!RangeOf(t) \cup {a}
    <3>1. /\ Increasing(Append(t, a))
          /\ \A i \in 1..Len(Append(t, a)) :
               \/ i \in 1..Len(t) /\ Append(t, a)[i] = t[i]
               \/ Append(t, a)[i] = a
      <4>1. t \in Seq(1..MaxAudio) /\ a \in 1..MaxAudio /\ \A i \in 1..Len(t) : t[i] < a
        BY <1>0, <2>1, <2>5
      <4> QED BY <2>4, <4>1, OneMore, Zenon
    <3>2. R!RangeOf(Append(t, a)) = R!RangeOf(t) \cup {a}
      <4>1. t \in Seq(1..MaxAudio) /\ a \in 1..MaxAudio
        BY <1>0, <2>1
      <4> QED BY <4>1, RangeAppend, Zenon
    <3> QED BY <2>6, <3>1, <3>2, Zenon
  <2>9. Before(relayed', waiting')
    BY <1>00, <1>3, <2>3, <2>7 DEF AudioInv, Before
  <2>10. \A d \in dropped' : \A i \in 1..Len(waiting') : d < waiting'[i]
    BY <1>00, <1>3, <2>1, <2>3, <2>5, <2>7 DEF AudioInv
  <2>11. openAi' # "closed" => \A d \in dropped' : \A i \in 1..Len(relayed') : d < relayed'[i]
    <3>1. openAi' # "closed" => openAi = "connecting"
      BY <1>0, <1>3 DEF R!TypeOK
    <3>2. openAi' # "closed" => Len(relayed') = 0
      BY <1>3, <3>1, EmptySeq DEF AudioInv
    <3> QED BY <3>2
  <2>12. R!RangeOf(relayed') \cup R!RangeOf(waiting') \cup dropped' = 1..frames'
    BY <1>0, <1>3, <2>2, <2>7 DEF AudioInv
  <2> QED BY <1>0, <1>3, <2>7, <2>9, <2>10, <2>11, <2>12 DEF AudioInv
<1> QED BY <1>cases, <1>1, <1>2, <1>3

LEMMA AudioStep ==
  ASSUME R!TypeOK, AudioInv, [Next]_vars
  PROVE  AudioInv'
<1>1. CASE R!Open
  <2>1. /\ relayed = <<>> /\ relayed' = waiting /\ waiting' = <<>> /\ Len(<<>>) = 0
        /\ openAi' = "open" /\ frames' = frames /\ dropped' = dropped
    BY <1>1, ConcatEmptySeq, EmptySeq DEF R!Open, AudioInv, R!TypeOK
  <2>2. R!RangeOf(<<>>) = {}
    BY <2>1 DEF R!RangeOf
  <2> QED BY <2>1, <2>2 DEF AudioInv, Increasing, Before
<1>2. CASE openAi' \in {openAi, "closed"} /\ UNCHANGED R!audio
  BY <1>2 DEF R!audio, AudioInv, Increasing, Before, R!RangeOf
<1>3. ASSUME R!Next, ~R!Open, ~R!Media
      PROVE  openAi' \in {openAi, "closed"} /\ UNCHANGED R!audio
  BY <1>3 DEF R!Next, R!Lose, R!UserSaid, R!Answered, R!Speaking, R!Answer, R!TextDelta,
              R!AudioDelta, R!PlayedOut, R!Start, R!Finalize, R!Summarised, R!Saved, R!audio
<1>4. CASE UNCHANGED realtime
  BY <1>2, <1>4 DEF realtime, R!audio
<1> QED BY <1>1, <1>2, <1>3, <1>4, MediaAudio, StepOfOne

LEMMA AudioRelayed ==
  ASSUME AudioInv
  PROVE  R!SpeechRelayed
BY DEF AudioInv, Increasing, R!SpeechRelayed, R!RangeOf

-----------------------------------------------------------------------------
(***************************************************************************)
(* The assistant's texts.  The buffer holds nothing between two responses; *)
(* in one it holds pieces of that response, which came after all that were *)
(* flushed, and no entry has pieces of it unless the call ended meanwhile. *)
(***************************************************************************)
Entered == UNION {R!RangeOf(transcript[i]) : i \in 1..Len(transcript)}
Flushed == Entered \cup repeated

\* Two pieces of one response in different entries: the end of the call fell into it.
Split(p, q) == partOf[p] = partOf[q] => partOf[p] = cut /\ closed # "no"

OneResponse(e) ==
  \A j, k \in 1..Len(e) : j < k => e[j] < e[k] /\ partOf[e[j]] = partOf[e[k]]

TurnsInv ==
  /\ ~answering => text = <<>>
  /\ \A p \in 1..Len(partOf) : partOf[p] <= turn
  /\ \A q \in R!RangeOf(text) : partOf[q] = turn
  /\ \A p \in Flushed, q \in R!RangeOf(text) : p < q
  /\ answering => \A p \in Flushed : partOf[p] = turn => turn = cut /\ closed # "no"
  /\ Increasing(text)
  /\ \A i, j \in 1..Len(transcript) : i < j =>
       \A p \in R!RangeOf(transcript[i]), q \in R!RangeOf(transcript[j]) : p < q /\ Split(p, q)
  /\ \A i \in 1..Len(transcript) : OneResponse(transcript[i])
  /\ Entered \cup repeated \cup R!RangeOf(text) = 1..Len(partOf)
  /\ Entered \cap (repeated \cup R!RangeOf(text)) = {}
  /\ repeated \cap R!RangeOf(text) = {}

\* An empty buffer holds no piece.
LEMMA EmptyText ==
  R!RangeOf(<<>>) = {} /\ Increasing(<<>>)
BY EmptySeq DEF R!RangeOf, Increasing

\* A further entry adds its pieces to what was entered.
LEMMA EntryAppended ==
  ASSUME R!TypeOK, NEW e \in Seq(1..MaxPieces), transcript' = Append(transcript, e)
  PROVE  /\ Len(transcript') = Len(transcript) + 1 /\ Len(transcript) \in Nat
         /\ \A i \in 1..Len(transcript') :
              \/ i \in 1..Len(transcript) /\ transcript'[i] = transcript[i]
              \/ i = Len(transcript) + 1 /\ transcript'[i] = e
         /\ Entered' = Entered \cup R!RangeOf(e)
<1>1. /\ Len(transcript) \in Nat /\ Len(transcript') = Len(transcript) + 1
      /\ \A i \in 1..Len(transcript) : transcript'[i] = transcript[i]
      /\ transcript'[Len(transcript) + 1] = e
  BY AppendProperties, LenProperties DEF R!TypeOK
<1>2. \A i \in 1..Len(transcript') :
        \/ i \in 1..Len(transcript) /\ transcript'[i] = transcript[i]
        \/ i = Len(transcript) + 1 /\ transcript'[i] = e
  BY <1>1
<1>3. \A i \in 1..Len(transcript) : i \in 1..Len(transcript')
  BY <1>1
<1>4. Len(transcript) + 1 \in 1..Len(transcript')
  BY <1>1
<1>5. ASSUME NEW p \in Entered' PROVE p \in Entered \cup R!RangeOf(e)
  <2>1. PICK i \in 1..Len(transcript') : p \in R!RangeOf(transcript'[i])
    BY <1>5 DEF Entered, R!RangeOf
  <2> QED BY <1>2, <2>1 DEF Entered
<1>6. ASSUME NEW p \in Entered PROVE p \in Entered'
  <2>1. PICK i \in 1..Len(transcript) : p \in R!RangeOf(transcript[i])
    BY <1>6 DEF Entered
  <2>2. transcript'[i] = transcript[i] /\ i \in 1..Len(transcript')
    BY <1>1, <1>3
  <2>3. p \in R!RangeOf(transcript'[i])
    BY <2>1, <2>2
  <2> QED BY <2>2, <2>3 DEF Entered, R!RangeOf
<1>7. ASSUME NEW p \in R!RangeOf(e) PROVE p \in Entered'
  <2>1. p \in R!RangeOf(transcript'[Len(transcript) + 1])
    BY <1>1, <1>7
  <2> QED BY <1>4, <2>1 DEF Entered, R!RangeOf
<1> QED BY <1>1, <1>2, <1>5, <1>6, <1>7

\* Where the pieces are.
LEMMA PiecesPlaced ==
  ASSUME R!TypeOK, TurnsInv
  PROVE  /\ Len(partOf) \in Nat /\ Flushed \subseteq 1..Len(partOf)
         /\ R!RangeOf(text) \subseteq 1..Len(partOf)
         /\ \A i \in 1..Len(transcript) :
              R!RangeOf(transcript[i]) \subseteq Entered /\ R!RangeOf(transcript[i]) \subseteq Flushed
<1>1. Len(partOf) \in Nat
  BY LenProperties DEF R!TypeOK
<1>2. Flushed \subseteq 1..Len(partOf) /\ R!RangeOf(text) \subseteq 1..Len(partOf)
  BY DEF TurnsInv, Flushed
<1>3. \A i \in 1..Len(transcript) :
        R!RangeOf(transcript[i]) \subseteq Entered /\ R!RangeOf(transcript[i]) \subseteq Flushed
  BY DEF Entered, Flushed
<1> QED BY <1>1, <1>2, <1>3

\* A flush, of a response that is over or by the end of the call: what the buffer held
\* is an entry, or repeats the last one.
LEMMA FlushTurns ==
  ASSUME R!TypeOK, TurnsInv, NEW repeats \in BOOLEAN, R!Flush(repeats),
         turn' = turn, partOf' = partOf,
         closed # "no" => cut' = cut /\ closed' # "no",
         answering' => turn = cut' /\ closed' # "no"
  PROVE  TurnsInv'
<1>1. text' = <<>> /\ R!RangeOf(text') = {} /\ Increasing(text')
  BY EmptyText DEF R!Flush, R!BufferAfterFlush
<1>2. \A p, q : Split(p, q) => Split(p, q)'
  BY DEF Split
<1>3. \A e : OneResponse(e) => (\A j, k \in 1..Len(e) :
              j < k => e[j] < e[k] /\ partOf'[e[j]] = partOf'[e[k]])
  BY DEF OneResponse
<1>4. CASE text = <<>> \/ repeats
  <2>1. transcript' = transcript
    BY <1>4 DEF R!Flush
  <2>2. Entered' = Entered
    BY <2>1 DEF Entered, R!RangeOf
  <2>3. repeated' = repeated \cup R!RangeOf(text)
    BY <1>4, EmptyText DEF R!Flush
  <2>4. /\ Entered' \cup repeated' \cup R!RangeOf(text') = 1..Len(partOf')
        /\ Entered' \cap (repeated' \cup R!RangeOf(text')) = {}
        /\ repeated' \cap R!RangeOf(text') = {}
    BY <1>1, <2>2, <2>3 DEF TurnsInv
  <2>5. /\ \A i, j \in 1..Len(transcript') : i < j =>
             \A p \in R!RangeOf(transcript'[i]), q \in R!RangeOf(transcript'[j]) : p < q /\ Split(p, q)'
        /\ \A i \in 1..Len(transcript') : OneResponse(transcript[i])'
    BY <1>2, <1>3, <2>1 DEF TurnsInv, OneResponse
  <2> QED BY <1>1, <2>1, <2>4, <2>5 DEF TurnsInv, OneResponse, R!RangeOf
<1>5. CASE ~(text = <<>> \/ repeats)
  <2>1. transcript' = Append(transcript, text) /\ repeated' = repeated
    BY <1>5 DEF R!Flush
  <2>2. text \in Seq(1..MaxPieces) /\ answering
    BY <1>5 DEF R!TypeOK, TurnsInv
  <2>3. /\ \A i \in 1..Len(transcript') :
             \/ i \in 1..Len(transcript) /\ transcript'[i] = transcript[i]
             \/ i = Len(transcript) + 1 /\ transcript'[i] = text
        /\ Entered' = Entered \cup R!RangeOf(text) /\ Len(transcript) \in Nat
    BY <2>1, <2>2, EntryAppended
  <2>4. /\ Entered' \cup repeated' \cup R!RangeOf(text') = 1..Len(partOf')
        /\ Entered' \cap (repeated' \cup R!RangeOf(text')) = {}
        /\ repeated' \cap R!RangeOf(text') = {}
    BY <1>1, <2>1, <2>3 DEF TurnsInv
  <2>5. ASSUME NEW p \in Flushed, NEW q \in R!RangeOf(text)
        PROVE  p < q /\ Split(p, q)'
    <3>1. p < q /\ partOf[q] = turn
      BY DEF TurnsInv
    <3>2. partOf[p] = turn => turn = cut /\ closed # "no"
      BY <2>2 DEF TurnsInv
    <3> QED BY <1>2, <3>1, <3>2 DEF Split
  <2>6. ASSUME NEW i \in 1..Len(transcript'), NEW j \in 1..Len(transcript'), i < j,
               NEW p \in R!RangeOf(transcript'[i]), NEW q \in R!RangeOf(transcript'[j])
        PROVE  p < q /\ Split(p, q)'
    <3>1. i \in 1..Len(transcript) /\ transcript'[i] = transcript[i]
      BY <2>3, <2>6
    <3>2. p \in R!RangeOf(transcript[i])
      BY <2>6, <3>1
    <3>3. CASE j \in 1..Len(transcript) /\ transcript'[j] = transcript[j]
      <4>1. q \in R!RangeOf(transcript[j])
        BY <2>6, <3>3
      <4>2. p < q /\ Split(p, q)
        BY <2>6, <3>1, <3>2, <3>3, <4>1 DEF TurnsInv
      <4> QED BY <1>2, <4>2
    <3>4. CASE transcript'[j] = text
      <4>1. q \in R!RangeOf(text) /\ p \in Flushed
        BY <2>6, <3>1, <3>2, <3>4, PiecesPlaced
      <4> QED BY <2>5, <4>1
    <3> QED BY <2>3, <3>3, <3>4
  <2>7. OneResponse(text)
    <3>1. \A j \in 1..Len(text) : partOf[text[j]] = turn
      BY DEF TurnsInv, R!RangeOf
    <3> QED BY <3>1 DEF OneResponse, TurnsInv, Increasing
  <2>8. ASSUME NEW i \in 1..Len(transcript')
        PROVE  \A j, k \in 1..Len(transcript'[i]) : j < k =>
                 /\ transcript'[i][j] < transcript'[i][k]
                 /\ partOf'[transcript'[i][j]] = partOf'[transcript'[i][k]]
    <3>1. OneResponse(transcript'[i])
      BY <2>3, <2>7 DEF TurnsInv
    <3> QED BY <1>3, <3>1
  <2> QED BY <1>1, <2>4, <2>6, <2>8 DEF TurnsInv, OneResponse, R!RangeOf
<1> QED BY <1>4, <1>5

\* A piece is the last of all.
LEMMA TextDeltaTurns ==
  ASSUME R!TypeOK, TurnsInv, R!TextDelta
  PROVE  TurnsInv'
<1> DEFINE n == Len(partOf) + 1
<1>1. /\ partOf' = Append(partOf, turn) /\ text' = Append(text, n)
      /\ UNCHANGED <<turn, answering, transcript, repeated, cut, closed>> /\ answering
      /\ n \in 1..MaxPieces
  <2>1. Len(partOf) \in Nat
    BY LenProperties DEF R!TypeOK
  <2> QED BY <2>1, Bounds DEF R!TextDelta
<1>2. /\ Len(partOf) \in Nat /\ Len(partOf') = n /\ partOf'[n] = turn
      /\ \A p \in 1..Len(partOf) : partOf'[p] = partOf[p]
  <2>1. turn \in 1..MaxTurns /\ partOf \in Seq(1..MaxTurns)
    BY <1>1, Bounds DEF R!TypeOK
  <2> QED BY <1>1, <2>1, AppendProperties, LenProperties
<1>3. /\ Flushed \subseteq 1..Len(partOf) /\ R!RangeOf(text) \subseteq 1..Len(partOf)
      /\ \A i \in 1..Len(transcript) :
           R!RangeOf(transcript[i]) \subseteq Entered /\ R!RangeOf(transcript[i]) \subseteq Flushed
  BY PiecesPlaced
<1>4. /\ R!RangeOf(text') = R!RangeOf(text) \cup {n}
      /\ Increasing(text')
  <2>1. text \in Seq(1..MaxPieces)
    BY DEF R!TypeOK
  <2>2. \A i \in 1..Len(text) : text[i] < n
    <3>1. \A i \in 1..Len(text) : text[i] \in 1..Len(partOf)
      BY <1>3 DEF R!RangeOf
    <3> QED BY <1>2, <3>1
  <2>3. Increasing(text)
    BY DEF TurnsInv
  <2> HIDE DEF n
  <2>4. R!RangeOf(Append(text, n)) = R!RangeOf(text) \cup {n}
    <3>1. text \in Seq(1..MaxPieces) /\ n \in 1..MaxPieces
      BY <1>1, <2>1
    <3> QED BY <3>1, PieceAppended, Zenon
  <2>5. Increasing(Append(text, n))
    BY <1>1, <2>1, <2>2, <2>3, OneMore, Zenon
  <2> QED BY <1>1, <2>4, <2>5, Zenon
<1>5. /\ Entered' = Entered /\ Flushed' = Flushed /\ repeated' = repeated
      /\ 1..Len(partOf') = (1..Len(partOf)) \cup {n} /\ n \notin 1..Len(partOf)
  BY <1>1, <1>2 DEF Entered, Flushed, R!RangeOf
<1>6. turn \in Nat
  BY Bounds DEF R!TypeOK
<1> HIDE DEF n
<1>7. \A p \in 1..Len(partOf') : partOf'[p] <= turn'
  BY <1>1, <1>2, <1>5, <1>6 DEF TurnsInv
<1>8. \A q \in R!RangeOf(text') : partOf'[q] = turn'
  BY <1>1, <1>2, <1>3, <1>4 DEF TurnsInv
<1>9. \A p \in Flushed', q \in R!RangeOf(text') : p < q
  BY <1>2, <1>3, <1>4, <1>5 DEF TurnsInv, n
<1>10. \A p \in Flushed' : partOf'[p] = turn' => turn' = cut' /\ closed' # "no"
  BY <1>1, <1>2, <1>3, <1>5 DEF TurnsInv
<1>11. ASSUME NEW i \in 1..Len(transcript'), NEW j \in 1..Len(transcript'), i < j,
              NEW p \in R!RangeOf(transcript'[i]), NEW q \in R!RangeOf(transcript'[j])
       PROVE  p < q /\ Split(p, q)'
  <2>1. /\ i \in 1..Len(transcript) /\ j \in 1..Len(transcript)
        /\ p \in R!RangeOf(transcript[i]) /\ q \in R!RangeOf(transcript[j])
    BY <1>1, <1>11
  <2>2. p < q /\ Split(p, q)
    BY <1>11, <2>1 DEF TurnsInv
  <2>3. partOf'[p] = partOf[p] /\ partOf'[q] = partOf[q]
    BY <1>2, <1>3, <2>1
  <2> QED BY <1>1, <2>2, <2>3 DEF Split
<1>12. ASSUME NEW i \in 1..Len(transcript'),
              NEW j \in 1..Len(transcript'[i]), NEW k \in 1..Len(transcript'[i]), j < k
       PROVE  /\ transcript'[i][j] < transcript'[i][k]
              /\ partOf'[transcript'[i][j]] = partOf'[transcript'[i][k]]
  <2> DEFINE e == transcript[i]
  <2>1. transcript'[i] = e /\ i \in 1..Len(transcript) /\ j \in 1..Len(e) /\ k \in 1..Len(e)
    BY <1>1, <1>12
  <2>2. e[j] < e[k] /\ partOf[e[j]] = partOf[e[k]]
    BY <1>12, <2>1 DEF TurnsInv, OneResponse
  <2>3. e[j] \in 1..Len(partOf) /\ e[k] \in 1..Len(partOf)
    BY <1>3, <2>1 DEF R!RangeOf
  <2> QED BY <1>2, <2>1, <2>2, <2>3
<1>13. /\ Entered' \cup repeated' \cup R!RangeOf(text') = 1..Len(partOf')
       /\ Entered' \cap (repeated' \cup R!RangeOf(text')) = {}
       /\ repeated' \cap R!RangeOf(text') = {}
  BY <1>3, <1>4, <1>5 DEF TurnsInv, Flushed
<1> QED BY <1>1, <1>4, <1>7, <1>8, <1>9, <1>10, <1>11, <1>12, <1>13
        DEF TurnsInv, OneResponse, R!RangeOf

\* A step that leaves the texts alone.
LEMMA SameTurns ==
  ASSUME TurnsInv, UNCHANGED R!texts, closed # "no" => closed' # "no"
  PROVE  TurnsInv'
<1>1. UNCHANGED <<turn, answering, partOf, text, transcript, repeated, cut>>
  BY DEF R!texts
<1>2. /\ Entered' = Entered /\ Flushed' = Flushed
      /\ R!RangeOf(text') = R!RangeOf(text)
      /\ \A i : R!RangeOf(transcript'[i]) = R!RangeOf(transcript[i])
  BY <1>1 DEF Entered, Flushed, R!RangeOf
<1>3. /\ ~answering' => text' = <<>>
      /\ \A p \in 1..Len(partOf') : partOf'[p] <= turn'
      /\ \A q \in R!RangeOf(text') : partOf'[q] = turn'
      /\ \A p \in Flushed', q \in R!RangeOf(text') : p < q
      /\ answering' => \A p \in Flushed' : partOf'[p] = turn' => turn' = cut' /\ closed' # "no"
  BY <1>1, <1>2 DEF TurnsInv
<1>4. Increasing(text)' /\ \A i \in 1..Len(transcript') : OneResponse(transcript[i])'
  BY <1>1 DEF TurnsInv, Increasing, OneResponse
<1>5. ASSUME NEW i \in 1..Len(transcript'), NEW j \in 1..Len(transcript'), i < j,
             NEW p \in R!RangeOf(transcript'[i]), NEW q \in R!RangeOf(transcript'[j])
      PROVE  p < q /\ Split(p, q)'
  <2>1. p < q /\ Split(p, q)
    BY <1>1, <1>2, <1>5 DEF TurnsInv
  <2> QED BY <1>1, <2>1 DEF Split
<1>6. /\ Entered' \cup repeated' \cup R!RangeOf(text') = 1..Len(partOf')
      /\ Entered' \cap (repeated' \cup R!RangeOf(text')) = {}
      /\ repeated' \cap R!RangeOf(text') = {}
  BY <1>1, <1>2 DEF TurnsInv
<1> QED BY <1>3, <1>4, <1>5, <1>6 DEF TurnsInv, R!RangeOf

LEMMA TurnsStep ==
  ASSUME R!TypeOK, TurnsInv, [Next]_vars
  PROVE  TurnsInv'
<1>1. CASE R!Answer
  <2>1. /\ text = <<>> /\ turn' = turn + 1 /\ turn \in Nat
        /\ UNCHANGED <<text, partOf, transcript, repeated, cut, closed>>
    BY <1>1, Bounds DEF R!Answer, R!TypeOK, TurnsInv
  <2>2. /\ Entered' = Entered /\ Flushed' = Flushed
        /\ R!RangeOf(text') = {} /\ R!RangeOf(text) = {}
    BY <2>1, EmptyText DEF Entered, Flushed, R!RangeOf
  <2>3. \A p \in 1..Len(partOf) : partOf[p] <= turn' /\ partOf[p] # turn'
    <3> SUFFICES ASSUME NEW p \in 1..Len(partOf) PROVE partOf[p] <= turn' /\ partOf[p] # turn'
      OBVIOUS
    <3>1. partOf[p] \in 1..MaxTurns
      BY ElementOfSeq, Zenon DEF R!TypeOK
    <3>2. partOf[p] <= turn
      BY DEF TurnsInv
    <3> QED BY <2>1, <3>1, <3>2, Bounds
  <2>4. Flushed \subseteq 1..Len(partOf)
    BY PiecesPlaced
  <2>5. \A p \in Flushed' : partOf'[p] # turn'
    BY <2>1, <2>2, <2>3, <2>4
  <2>6. /\ ~answering' => text' = <<>>
        /\ \A p \in 1..Len(partOf') : partOf'[p] <= turn'
        /\ \A q \in R!RangeOf(text') : partOf'[q] = turn'
        /\ \A p \in Flushed', q \in R!RangeOf(text') : p < q
        /\ answering' => \A p \in Flushed' : partOf'[p] = turn' => turn' = cut' /\ closed' # "no"
    BY <2>1, <2>2, <2>3, <2>5
  <2>7. Increasing(text)' /\ \A i \in 1..Len(transcript') : OneResponse(transcript[i])'
    BY <2>1 DEF TurnsInv, Increasing, OneResponse
  <2>8. ASSUME NEW i \in 1..Len(transcript'), NEW j \in 1..Len(transcript'), i < j,
               NEW p \in R!RangeOf(transcript'[i]), NEW q \in R!RangeOf(transcript'[j])
        PROVE  p < q /\ Split(p, q)'
    <3>1. p < q /\ Split(p, q)
      BY <2>1, <2>8 DEF TurnsInv, R!RangeOf
    <3> QED BY <2>1, <3>1 DEF Split
  <2>9. /\ Entered' \cup repeated' \cup R!RangeOf(text') = 1..Len(partOf')
        /\ Entered' \cap (repeated' \cup R!RangeOf(text')) = {}
        /\ repeated' \cap R!RangeOf(text') = {}
    BY <2>1, <2>2 DEF TurnsInv
  <2> QED BY <2>6, <2>7, <2>8, <2>9 DEF TurnsInv, R!RangeOf
<1>2. CASE R!UserSaid
  <2>1. /\ transcript' = Append(transcript, <<>>) /\ <<>> \in Seq(1..MaxPieces)
        /\ UNCHANGED <<turn, answering, partOf, text, repeated, cut, closed>>
    BY <1>2, EmptySeq DEF R!UserSaid
  <2>2. /\ \A i \in 1..Len(transcript') :
             \/ i \in 1..Len(transcript) /\ transcript'[i] = transcript[i]
             \/ i = Len(transcript) + 1 /\ transcript'[i] = <<>>
        /\ Entered' = Entered /\ Flushed' = Flushed
    BY <2>1, EntryAppended, EmptyText DEF Flushed
  <2>3. ASSUME NEW i \in 1..Len(transcript'), NEW j \in 1..Len(transcript'), i < j,
               NEW p \in R!RangeOf(transcript'[i]), NEW q \in R!RangeOf(transcript'[j])
        PROVE  p < q /\ Split(p, q)'
    <3>1. i \in 1..Len(transcript) /\ transcript'[i] = transcript[i]
      BY <2>2, <2>3, EmptyText
    <3>2. j \in 1..Len(transcript) /\ transcript'[j] = transcript[j]
      BY <2>2, <2>3, EmptyText
    <3>3. p \in R!RangeOf(transcript[i]) /\ q \in R!RangeOf(transcript[j])
      BY <2>3, <3>1, <3>2
    <3>4. p < q /\ Split(p, q)
      BY <2>3, <3>1, <3>2, <3>3 DEF TurnsInv
    <3> QED BY <2>1, <3>4 DEF Split
  <2>4. ASSUME NEW i \in 1..Len(transcript'),
               NEW j \in 1..Len(transcript'[i]), NEW k \in 1..Len(transcript'[i]), j < k
        PROVE  /\ transcript'[i][j] < transcript'[i][k]
               /\ partOf'[transcript'[i][j]] = partOf'[transcript'[i][k]]
    <3>1. Len(<<>>) = 0
      BY EmptySeq
    <3>2. i \in 1..Len(transcript) /\ transcript'[i] = transcript[i]
      BY <2>2, <2>4, <3>1
    <3>3. OneResponse(transcript[i])
      BY <3>2 DEF TurnsInv
    <3> QED BY <2>1, <2>4, <3>2, <3>3 DEF OneResponse
  <2>5. R!RangeOf(text') = R!RangeOf(text)
    BY <2>1 DEF R!RangeOf
  <2>6. /\ Entered' \cup repeated' \cup R!RangeOf(text') = 1..Len(partOf')
        /\ Entered' \cap (repeated' \cup R!RangeOf(text')) = {}
        /\ repeated' \cap R!RangeOf(text') = {}
    BY <2>1, <2>2, <2>5 DEF TurnsInv
  <2>7. /\ \A q \in R!RangeOf(text') : partOf'[q] = turn'
        /\ \A p \in Flushed', q \in R!RangeOf(text') : p < q
        /\ answering' => \A p \in Flushed' : partOf'[p] = turn' => turn' = cut' /\ closed' # "no"
    BY <2>1, <2>2, <2>5 DEF TurnsInv
  <2>8. /\ ~answering' => text' = <<>>
        /\ \A p \in 1..Len(partOf') : partOf'[p] <= turn'
        /\ Increasing(text')
    BY <2>1 DEF TurnsInv, Increasing
  <2>9. Increasing(text)'
    BY <2>8 DEF Increasing
  <2> QED BY <2>3, <2>4, <2>6, <2>7, <2>8, <2>9 DEF TurnsInv, OneResponse, R!RangeOf
<1>3. ASSUME NEW repeats \in BOOLEAN, R!Answered(repeats)
      PROVE  TurnsInv'
  <2>1. /\ R!Flush(repeats) /\ ~answering'
        /\ UNCHANGED <<turn, partOf, cut, closed>>
    BY <1>3 DEF R!Answered
  <2> QED BY <2>1, FlushTurns
<1>4. ASSUME NEW repeats \in BOOLEAN, R!Finalize(repeats)
      PROVE  TurnsInv'
  <2>1. /\ R!Flush(repeats) /\ closed = "no" /\ closed' = "summary"
        /\ UNCHANGED <<turn, partOf, answering>> /\ (answering => cut' = turn)
    BY <1>4 DEF R!Finalize
  <2> QED BY <2>1, FlushTurns
<1>5. CASE UNCHANGED <<R!texts, closed>>
  BY <1>5, SameTurns
<1>6. CASE UNCHANGED realtime
  BY <1>5, <1>6 DEF realtime, R!texts
<1>7. CASE R!Summarised \/ R!Saved
  <2>1. UNCHANGED R!texts /\ closed # "no" /\ closed' # "no"
    BY <1>7 DEF R!Summarised, R!Saved
  <2> QED BY <2>1, SameTurns
<1>8. ASSUME R!Next, ~R!UserSaid, ~R!Answer, ~R!TextDelta, ~R!Summarised, ~R!Saved,
             ~\E repeats \in BOOLEAN : R!Answered(repeats) \/ R!Finalize(repeats)
      PROVE  UNCHANGED <<R!texts, closed>>
  BY <1>8 DEF R!Next, R!Open, R!Lose, R!Speaking, R!AudioDelta, R!PlayedOut, R!Start, R!Media,
              R!texts
<1> QED BY <1>1, <1>2, <1>3, <1>4, <1>5, <1>6, <1>7, <1>8, TextDeltaTurns, StepOfOne

LEMMA TurnsKept ==
  ASSUME TurnsInv
  PROVE  R!TurnsOnce
<1>1. \A i \in 1..Len(transcript) : R!RangeOf(transcript[i]) \subseteq Entered
  BY DEF Entered
<1>2. \A i \in 1..Len(transcript) :
        R!RangeOf(transcript[i]) \cap (repeated \cup R!RangeOf(text)) = {}
  BY <1>1 DEF TurnsInv
<1>3. /\ \A i, j \in 1..Len(transcript) : i < j =>
           \A p \in R!RangeOf(transcript[i]), q \in R!RangeOf(transcript[j]) :
             p < q /\ (partOf[p] = partOf[q] => partOf[p] = cut /\ closed # "no")
      /\ \A i \in 1..Len(transcript) : \A j, k \in 1..Len(transcript[i]) : j < k =>
           /\ transcript[i][j] < transcript[i][k]
           /\ partOf[transcript[i][j]] = partOf[transcript[i][k]]
  BY DEF TurnsInv, Split, OneResponse
<1>4. Entered \cup repeated \cup R!RangeOf(text) = 1..Len(partOf) /\ repeated \cap R!RangeOf(text) = {}
  BY DEF TurnsInv
<1>5. (UNION {R!RangeOf(transcript[i]) : i \in 1..Len(transcript)}) \cup repeated \cup R!RangeOf(text)
        = 1..Len(partOf)
  BY <1>4 DEF Entered
<1> QED BY <1>2, <1>3, <1>4, <1>5, Zenon DEF R!TurnsOnce

-----------------------------------------------------------------------------
(* The caller has the line.                                                 *)

\* Twilio plays only to a stream it has told of, and nothing while the caller speaks.
LineInv == (playout => stream) /\ R!CallerHasTheLine

LEMMA LineStep ==
  ASSUME R!TypeOK, LineInv, [Next]_vars
  PROVE  LineInv'
<1>1. ASSUME NEW yes \in BOOLEAN, R!Speaking(yes)
      PROVE  LineInv'
  BY <1>1 DEF R!Speaking, R!PlayoutAfterBargeIn, LineInv, R!CallerHasTheLine
<1>2. CASE R!AudioDelta
  BY <1>2 DEF R!AudioDelta, LineInv, R!CallerHasTheLine
<1>3. CASE R!PlayedOut \/ R!Saved
  BY <1>3 DEF R!PlayedOut, R!Saved, LineInv, R!CallerHasTheLine
<1>4. CASE R!Start
  BY <1>4 DEF R!Start, LineInv, R!CallerHasTheLine
<1>5. CASE UNCHANGED <<stream, userSpeaking, playout>>
  BY <1>5 DEF LineInv, R!CallerHasTheLine
<1>6. CASE UNCHANGED realtime
  BY <1>5, <1>6 DEF realtime
<1>7. ASSUME R!Next, ~R!AudioDelta, ~R!PlayedOut, ~R!Saved, ~R!Start,
             ~\E yes \in BOOLEAN : R!Speaking(yes)
      PROVE  UNCHANGED <<stream, userSpeaking, playout>>
  BY <1>7 DEF R!Next, R!Open, R!Lose, R!UserSaid, R!Answer, R!TextDelta, R!Answered, R!Media,
              R!Finalize, R!Summarised
<1> QED BY <1>1, <1>2, <1>3, <1>4, <1>5, <1>6, <1>7, StepOfOne

-----------------------------------------------------------------------------
(* The properties of the run.                                               *)

\* What a call relays keeps its order and is not repeated, by either engine: the words
\* of the caller, the caller's audio and the responses of the assistant.
THEOREM StreamKeepsOrder == Spec => []OrderKept
<1>1. Init => WordsInv /\ AudioInv /\ TurnsInv
  <2>1. ASSUME Init
        PROVE  /\ stt = <<>> /\ buffer = <<>> /\ said = <<>> /\ pending = FALSE
               /\ waiting = <<>> /\ relayed = <<>> /\ dropped = {} /\ frames = 0
               /\ openAi = "connecting" /\ text = <<>> /\ transcript = <<>>
               /\ partOf = <<>> /\ repeated = {} /\ answering = FALSE
    BY <2>1 DEF Init, P!Init, R!Init
  <2>2. Len(<<>>) = 0 /\ R!RangeOf(<<>>) = {} /\ 1..0 = {}
    BY EmptySeq DEF R!RangeOf
  <2> QED BY <2>1, <2>2 DEF WordsInv, AudioInv, TurnsInv, Entered, Flushed, Increasing,
                            Before, BeforeTasks, Heard
<1>2. TypeOK /\ WordsInv /\ AudioInv /\ TurnsInv /\ [Next]_vars
        => WordsInv' /\ AudioInv' /\ TurnsInv'
  BY WordsStep, AudioStep, TurnsStep DEF TypeOK
<1>3. TypeOK /\ WordsInv /\ AudioInv /\ TurnsInv => OrderKept
  BY WordsOrdered, AudioRelayed, TurnsKept DEF TypeOK, OrderKept
<1> QED BY <1>1, <1>2, <1>3, StreamTypeCorrect, PTL DEF Spec

\* Words that were transcribed always have a timer or the end of their utterance to
\* answer them, and text that is queued a synthesis that will take it.
THEOREM NothingLeftWaiting == Spec => []NobodyWaits
<1>1. Init => WaitInv
  BY DEF Init, P!Init, WaitInv, P!WordsAnswered, P!QueueServed
<1>2. TypeOK /\ WaitInv /\ [Next]_vars => WaitInv'
  BY WaitStep DEF TypeOK
<1>3. WaitInv => NobodyWaits
  BY DEF WaitInv, NobodyWaits
<1> QED BY <1>1, <1>2, <1>3, StreamTypeCorrect, PTL DEF Spec

\* Nothing that was to be said before a barge-in is sent after it, however far its
\* synthesis or its frames had come, and the realtime engine has nothing left to play
\* while the caller speaks.
THEOREM StaleNeverAired == Spec => NothingStaleAired
<1>1. Init => StaleInv
  <2>1. ASSUME Init PROVE queue = <<>> /\ synth = {} /\ sends = <<>>
    BY <2>1 DEF Init, P!Init
  <2>2. Len(<<>>) = 0
    BY EmptySeq
  <2> QED BY <2>1, <2>2 DEF StaleInv
<1>2. TypeOK /\ StaleInv /\ [Next]_vars => StaleInv'
  BY StaleStep DEF TypeOK
<1>3. TypeOK /\ StaleInv /\ [Next]_vars => [P!NothingStale]_vars
  BY NothingStaleStep DEF TypeOK
<1>4. Init => LineInv
  BY DEF Init, R!Init, LineInv, R!CallerHasTheLine
<1>5. TypeOK /\ LineInv /\ [Next]_vars => LineInv'
  BY LineStep DEF TypeOK
<1>6. LineInv => R!CallerHasTheLine
  BY DEF LineInv
<1> QED BY <1>1, <1>2, <1>3, <1>4, <1>5, <1>6, StreamTypeCorrect, PTL DEF Spec, NothingStaleAired
=============================================================================
