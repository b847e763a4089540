---------------------------- MODULE RealtimeVoice ----------------------------
(***************************************************************************)
(* One call through the realtime engine: a relay between Twilio's socket   *)
(* and OpenAI's.  Audio of the caller waits until the second socket is     *)
(* open; audio of the assistant is withheld while the caller speaks; the   *)
(* texts of both become the transcript, which is summarised when the call  *)
(* ends.                                                                   *)
(*                                                                         *)
(* Chunks of the caller's audio, and the pieces of text the responses are  *)
(* streamed in, are numbered in the order they come.                       *)
(***************************************************************************)
EXTENDS Naturals, Sequences

CONSTANTS
  MaxAudio,    \* bound of the model: chunks of the caller's audio
  MaxPending,  \* chunks that wait at most (500 in the code)
  MaxTurns,    \* bound of the model: responses of the assistant
  MaxPieces    \* bound of the model: pieces of text they are streamed in

RealtimeAssumption ==
  /\ MaxAudio \in Nat /\ MaxPending \in Nat \ {0}
  /\ MaxTurns \in Nat /\ MaxPieces \in Nat

VARIABLES
  openAi,     \* readyState of openAiWs
  stream,     \* streamSid is known
  frames,     \* chunks of the caller's audio so far
  waiting,    \* pendingAudio
  relayed,    \* history: chunks appended to OpenAI's input, in order
  dropped,    \* history: chunks given up
  speaking,   \* isUserSpeaking
  playout,    \* Twilio has audio of the assistant left to play
  turn,       \* responses of the assistant so far
  answering,  \* a response is being streamed
  partOf,     \* the response each piece of text so far belongs to
  text,       \* assistantBuffer: the pieces it holds
  transcript, \* its entries: the pieces of each, <<>> for what the caller said
  repeated,   \* history: the pieces dropped because their text repeats the last one
  cut,        \* history: the response the end of the call fell into, 0 if none
  ended       \* how far finalize is

audio == <<frames, waiting, relayed, dropped>>
texts == <<turn, answering, partOf, text, transcript, repeated, cut>>
vars  == <<openAi, stream, audio, speaking, playout, texts, ended>>

Init ==
  /\ openAi = "connecting" /\ stream = FALSE
  /\ frames = 0 /\ waiting = <<>> /\ relayed = <<>> /\ dropped = {}
  /\ speaking = FALSE /\ playout = FALSE
  /\ turn = 0 /\ answering = FALSE /\ partOf = <<>>
  /\ text = <<>> /\ transcript = <<>> /\ repeated = {} /\ cut = 0
  /\ ended = "no"

RangeOf(s) == {s[i] : i \in 1..Len(s)}

-----------------------------------------------------------------------------
(* The socket to OpenAI.                                                    *)

\* The session is configured, the opening asked for, and what waited is sent.
Open ==
  /\ openAi = "connecting"
  /\ openAi' = "open"
  /\ relayed' = relayed \o waiting
  /\ waiting' = <<>>
  /\ UNCHANGED <<stream, frames, dropped, speaking, playout, texts, ended>>

\* An error or a close is logged: the call goes on, and its audio waits for ever.
Lose ==
  /\ openAi \in {"connecting", "open"}
  /\ openAi' = "closed"
  /\ UNCHANGED <<stream, audio, speaking, playout, texts, ended>>

\* The caller starts to speak: Twilio is told to clear what it has left to play, once
\* its stream is known.  The mutation forgets to.
PlayoutAfterBargeInKept(yes) == playout
PlayoutAfterBargeIn(yes) == IF yes /\ stream THEN FALSE ELSE playout

Speaking(yes) ==
  /\ openAi = "open" /\ speaking # yes
  /\ speaking' = yes
  /\ playout' = PlayoutAfterBargeIn(yes)
  /\ UNCHANGED <<openAi, stream, audio, texts, ended>>

\* A response begins with the first event of it that comes.
Answer ==
  /\ openAi = "open" /\ ~answering /\ turn < MaxTurns
  /\ turn' = turn + 1
  /\ answering' = TRUE
  /\ UNCHANGED <<openAi, stream, audio, speaking, playout, partOf, text, transcript,
                 repeated, cut, ended>>

\* A piece of its text is appended, whether the call has ended or not.
TextDelta ==
  /\ openAi = "open" /\ answering /\ Len(partOf) < MaxPieces
  /\ partOf' = Append(partOf, turn)
  /\ text' = Append(text, Len(partOf) + 1)
  /\ UNCHANGED <<openAi, stream, audio, speaking, playout, turn, answering, transcript,
                 repeated, cut, ended>>

\* A piece of its audio is sent unless the caller speaks or Twilio's stream is unknown.
AudioDelta ==
  /\ openAi = "open" /\ answering /\ ~speaking
  /\ stream /\ ended # "done"
  /\ playout' = TRUE
  /\ UNCHANGED <<openAi, stream, audio, speaking, texts, ended>>

PlayedOut ==
  /\ playout
  /\ playout' = FALSE
  /\ UNCHANGED <<openAi, stream, audio, speaking, texts, ended>>

\* The transcription of what the caller said.
UserSaid ==
  /\ openAi = "open" /\ Len(transcript) < 2 * MaxTurns
  /\ transcript' = Append(transcript, <<>>)
  /\ UNCHANGED <<openAi, stream, audio, speaking, playout, turn, answering, partOf, text,
                 repeated, cut, ended>>

\* What the buffer holds after its text was taken.  The mutation forgets to empty it.
BufferAfterFlushKept == text
BufferAfterFlush == <<>>

\* flushAssistantBuffer: what the buffer holds becomes an entry, unless its text repeats
\* that of the last entry of the assistant (lastAssistantText).
Flush(repeats) ==
  /\ repeats => text # <<>> /\ \E i \in 1..Len(transcript) : transcript[i] # <<>>
  /\ text' = BufferAfterFlush
  /\ transcript' = IF text = <<>> \/ repeats THEN transcript ELSE Append(transcript, text)
  /\ repeated' = IF repeats THEN repeated \cup RangeOf(text) ELSE repeated

\* response.done
Answered(repeats) ==
  /\ openAi = "open" /\ answering
  /\ answering' = FALSE
  /\ Flush(repeats)
  /\ UNCHANGED <<openAi, stream, audio, speaking, playout, turn, partOf, cut, ended>>

-----------------------------------------------------------------------------
(* The socket to Twilio.                                                    *)

Start ==
  /\ ~stream /\ ended # "done"
  /\ stream' = TRUE
  /\ UNCHANGED <<openAi, audio, speaking, playout, texts, ended>>

\* Before the second socket is open, and after it is closed, the oldest chunk gives
\* way.  The mutation gives up none.
PushedUnbounded(a) == Append(waiting, a)
Pushed(a) == IF Len(waiting) < MaxPending THEN Append(waiting, a)
             ELSE Append(Tail(waiting), a)

Media ==
  /\ stream /\ ended # "done" /\ frames < MaxAudio
  /\ frames' = frames + 1
  /\ IF openAi = "open"
       THEN /\ relayed' = Append(relayed, frames + 1)
            /\ UNCHANGED <<waiting, dropped>>
       ELSE /\ waiting' = Pushed(frames + 1)
            /\ dropped' = IF Len(waiting) < MaxPending THEN dropped
                          ELSE dropped \cup {Head(waiting)}
            /\ UNCHANGED relayed
  /\ UNCHANGED <<openAi, stream, speaking, playout, texts, ended>>

\* finalize, once: the text so far is an entry, then the summary is asked for.  A
\* response that is under way goes on, and its rest is an entry of its own.
Finalize(repeats) ==
  /\ ended = "no"
  /\ ended' = "summary"
  /\ cut' = IF answering THEN turn ELSE 0
  /\ Flush(repeats)
  /\ UNCHANGED <<openAi, stream, audio, speaking, playout, turn, answering, partOf>>

\* With or without a summary the row is saved, then both sockets are closed.
Summarised ==
  /\ ended = "summary"
  /\ ended' = "save"
  /\ UNCHANGED <<openAi, stream, audio, speaking, playout, texts>>

Saved ==
  /\ ended = "save"
  /\ ended' = "done"
  /\ openAi' = IF openAi = "open" THEN "closed" ELSE openAi
  /\ playout' = FALSE
  /\ UNCHANGED <<stream, audio, speaking, texts>>

Next ==
  \/ Open \/ Lose \/ UserSaid \/ Answer \/ TextDelta \/ AudioDelta \/ PlayedOut
  \/ \E yes \in BOOLEAN : Speaking(yes) \/ Answered(yes) \/ Finalize(yes)
  \/ Start \/ Media
  \/ Summarised \/ Saved

Spec == Init /\ [][Next]_vars

-----------------------------------------------------------------------------
(* Properties.                                                              *)

TypeOK ==
  /\ openAi \in {"connecting", "open", "closed"}
  /\ stream \in BOOLEAN /\ speaking \in BOOLEAN /\ answering \in BOOLEAN
  /\ playout \in BOOLEAN
  /\ frames \in 0..MaxAudio /\ turn \in 0..MaxTurns
  /\ answering => turn # 0
  /\ waiting \in Seq(1..MaxAudio) /\ Len(waiting) <= MaxPending
  /\ relayed \in Seq(1..MaxAudio) /\ dropped \subseteq 1..MaxAudio
  /\ partOf \in Seq(1..MaxTurns) /\ Len(partOf) <= MaxPieces
  /\ text \in Seq(1..MaxPieces) /\ transcript \in Seq(Seq(1..MaxPieces))
  /\ repeated \subseteq 1..MaxPieces /\ cut \in 0..MaxTurns
  /\ ended \in {"no", "summary", "save", "done"}

\* What the caller says reaches OpenAI in the order it was said, without a gap but
\* for the oldest chunks, given up while the socket was not open.
SpeechRelayed ==
  /\ \A i, j \in 1..Len(relayed) : i < j => relayed[i] < relayed[j]
  /\ RangeOf(relayed) \cup RangeOf(waiting) \cup dropped = 1..frames
  /\ \A i \in dropped, j \in RangeOf(relayed) \cup RangeOf(waiting) : openAi # "closed" => i < j

\* Every piece of a response is at one place, the buffer, an entry or a repetition that
\* was dropped, and the entries have them in the order they came.  An entry is of one
\* response, and no response is in two, but for the one the end of the call fell into.
TurnsOnce ==
  /\ \A i, j \in 1..Len(transcript) : i < j =>
       \A p \in RangeOf(transcript[i]), q \in RangeOf(transcript[j]) :
         p < q /\ (partOf[p] = partOf[q] => partOf[p] = cut /\ ended # "no")
  /\ \A i \in 1..Len(transcript) : \A j, k \in 1..Len(transcript[i]) : j < k =>
       /\ transcript[i][j] < transcript[i][k]
       /\ partOf[transcript[i][j]] = partOf[transcript[i][k]]
  /\ (UNION {RangeOf(transcript[i]) : i \in 1..Len(transcript)})
       \cup repeated \cup RangeOf(text) = 1..Len(partOf)
  /\ \A i \in 1..Len(transcript) : RangeOf(transcript[i]) \cap (repeated \cup RangeOf(text)) = {}
  /\ repeated \cap RangeOf(text) = {}

\* The assistant is not heard while the caller speaks: what was sent is cleared, and
\* nothing more is sent.
CallerHasTheLine == speaking => ~playout
=============================================================================
