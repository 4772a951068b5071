---------------------------- MODULE Conversation ----------------------------
(***************************************************************************)
(* One conversation: the phone's VoiceCaptureController with the phase it  *)
(* shows, the two directions of the socket, and the handler of             *)
(* /ws/conversation, which reads in turns with the background reader that  *)
(* it starts for the time of a task.                                       *)
(***************************************************************************)
EXTENDS Naturals, Sequences, TaskFlags

CONSTANTS
  MaxUtterances,  \* bound: what the user says or types
  Typed,          \* which of them are typed
  MaxCancels      \* bound: the times the user presses cancel in the notification

ASSUME UtterancesAssumption == MaxUtterances \in Nat \ {0}

ASSUME TypedAssumption == Typed \subseteq 1 .. MaxUtterances

ASSUME CancelsAssumption == MaxCancels \in Nat

Utterance == 1 .. MaxUtterances

VARIABLES
  phase,         \* the phone: ConversationPhase
  mic,           \* the utterance being recorded, 0 for none
  streamed,      \* its audio has been sent
  speaking,      \* an answer is being spoken, and its callback waits
  said, cancels, \* the utterances begun, the cancels pressed
  hiding,        \* the overlay's service has been told to hide it, and has not yet
  link,          \* "up", "down", or "ended" by the phone
  up, down,      \* what is under way to the server and to the phone
  pc,            \* the server: where its handler is
  is_recording,
  audio_buffer,  \* the utterances whose audio is in it
  turn,          \* the utterance at work, if any, and what was heard
  reader,        \* the background reader runs
  progress,      \* the task at work, if any: "none", "planned" or "acted"
  fate,          \* history: what became of an utterance
  marks,         \* history: what happened to it while it was on its way or at work
  last           \* history: the last one sent

user == <<cancels, hiding>>

phone == <<phase, mic, streamed, speaking, said, user>>

server == <<pc, is_recording, audio_buffer, turn, reader, progress, task>>

history == <<fate, marks, last>>

vars == <<phone, link, up, down, server, history>>

Phases == {"IDLE", "LISTENING", "THINKING", "RESPONDING", "ERROR"}

Places == {"receive", "transcribe", "classify", "chat", "gate", "task", "stopping", "closed"}

Fates == {"unsaid", "recording", "withdrawn", "sent", "taken",
          "answered", "failed", "silent", "refused", "dropped", "lost"}

\* Its start was read by the background reader, the user has cancelled since it was
\* sent, the phone has carried it out itself.
Marks == {"muted", "cancelled", "local"}

Request == [type : {"start", "audio", "end_turn", "text_input", "cancel_task", "end_conversation"},
            u : 0 .. MaxUtterances]

Reply == [type : {"recording", "transcript", "response", "error", "goodbye"},
          u : 0 .. MaxUtterances, heard : SUBSET Utterance]

Turn == [u : 0 .. MaxUtterances, heard : SUBSET Utterance]

NoTurn == [u |-> 0, heard |-> {}]

TypeOK ==
  /\ phase \in Phases /\ mic \in 0 .. MaxUtterances
  /\ streamed \in BOOLEAN /\ speaking \in BOOLEAN
  /\ said \in 0 .. MaxUtterances /\ cancels \in 0 .. MaxCancels /\ hiding \in BOOLEAN
  /\ link \in {"up", "down", "ended"}
  /\ up \in Seq(Request) /\ down \in Seq(Reply)
  /\ pc \in Places /\ is_recording \in BOOLEAN /\ audio_buffer \subseteq Utterance
  /\ turn \in Turn /\ reader \in BOOLEAN /\ progress \in {"none", "planned", "acted"}
  /\ TaskTypeOK
  /\ fate \in [Utterance -> Fates] /\ last \in 0 .. MaxUtterances
  /\ marks \in [Utterance -> SUBSET Marks]

Init ==
  /\ phase = "IDLE" /\ mic = 0 /\ streamed = FALSE /\ speaking = FALSE
  /\ said = 0 /\ cancels = 0 /\ hiding = FALSE
  /\ link = "up" /\ up = <<>> /\ down = <<>>
  /\ pc = "receive" /\ is_recording = FALSE /\ audio_buffer = {}
  /\ turn = NoTurn /\ reader = FALSE /\ progress = "none" /\ task = NoTask
  /\ fate = [u \in Utterance |-> "unsaid"] /\ last = 0
  /\ marks = [u \in Utterance |-> {}]

-----------------------------------------------------------------------------
(* The phone *)

\* A socket that failed is kept, and takes what is sent without a word.
SendUp(type, u) ==
  up' = IF link = "up" THEN Append(up, [type |-> type, u |-> u]) ELSE up

Sent(u) == /\ fate' = [fate EXCEPT ![u] = IF link = "up" THEN "sent" ELSE "lost"]
           /\ last' = u

\* The microphone in IDLE; the wake word in any phase.
startCapture ==
  /\ link # "ended" /\ mic = 0 /\ said < MaxUtterances /\ said + 1 \notin Typed
  /\ said' = said + 1 /\ mic' = said + 1 /\ streamed' = FALSE
  /\ speaking' = FALSE            \* stop() forgets the callback
  /\ phase' = "LISTENING"
  /\ SendUp("start", said + 1)
  /\ fate' = [fate EXCEPT ![said + 1] = "recording"]
  /\ UNCHANGED <<user, link, down, server, marks, last>>

\* All of an utterance's audio counts as one message.
streamAudioWithVAD ==
  /\ link # "ended" /\ mic # 0 /\ ~streamed
  /\ streamed' = TRUE
  /\ SendUp("audio", mic)
  /\ UNCHANGED <<phase, mic, speaking, said, user, link, down, server, history>>

\* The microphone in LISTENING, or silence after speech.
stopCapture ==
  /\ link # "ended" /\ mic # 0
  /\ phase = "LISTENING" \/ streamed
  /\ mic' = 0 /\ streamed' = FALSE /\ phase' = "THINKING"
  /\ SendUp("end_turn", mic) /\ Sent(mic)
  /\ UNCHANGED <<speaking, said, user, link, down, server, marks>>

\* The overlay is dismissed in LISTENING: nothing is sent.
cancelCapture ==
  /\ link # "ended" /\ mic # 0 /\ phase = "LISTENING"
  /\ mic' = 0 /\ streamed' = FALSE /\ phase' = "IDLE" /\ hiding' = TRUE
  /\ fate' = [fate EXCEPT ![mic] = "withdrawn"]
  /\ UNCHANGED <<speaking, said, cancels, link, up, down, server, marks, last>>

Dismiss ==
  /\ link # "ended" /\ (phase = "LISTENING" => mic = 0)
  /\ phase' = IF phase = "ERROR" THEN phase ELSE "IDLE"
  /\ hiding' = TRUE
  /\ UNCHANGED <<mic, streamed, speaking, said, cancels, link, up, down, server, history>>

\* The service gets to it: whatever the controller is at, it is cleaned up, without a word
\* to the server but that the socket is closed.  What the overlay showed goes with it.
hideOverlay ==
  /\ hiding /\ hiding' = FALSE /\ link # "ended"
  /\ link' = "ended" /\ down' = <<>> /\ speaking' = FALSE
  /\ mic' = 0 /\ streamed' = FALSE /\ phase' = "IDLE"
  /\ fate' = IF mic = 0 THEN fate ELSE [fate EXCEPT ![mic] = "withdrawn"]
  /\ UNCHANGED <<said, cancels, up, server, marks, last>>

\* In any phase, also while recording.
sendTextCommand ==
  /\ link # "ended" /\ said + 1 \in Typed
  /\ said' = said + 1 /\ phase' = "THINKING"
  /\ SendUp("text_input", said + 1) /\ Sent(said + 1)
  /\ UNCHANGED <<mic, streamed, speaking, user, link, down, server, marks>>

Mark(S, mark) == marks' = [u \in Utterance |-> IF u \in S THEN marks[u] \cup {mark} ELSE marks[u]]

Pending == {u \in Utterance : fate[u] \in {"sent", "taken"}}

sendCancelTask ==
  /\ link # "ended" /\ cancels < MaxCancels
  /\ cancels' = cancels + 1
  /\ SendUp("cancel_task", 0) /\ Mark(Pending, "cancelled")
  /\ phase' = "IDLE"
  /\ UNCHANGED <<mic, streamed, speaking, said, hiding, link, down, server, fate, last>>

\* The conversation's own screen is closed, not the overlay: a recording is stopped, and
\* with it sent, before.
endConversation ==
  /\ link # "ended" /\ ~hiding /\ mic = 0
  /\ SendUp("end_conversation", 0)
  /\ link' = "ended" /\ down' = <<>> /\ speaking' = FALSE /\ phase' = "IDLE"
  /\ UNCHANGED <<mic, streamed, said, user, server, history>>

-----------------------------------------------------------------------------
(* The phone: handleWebSocketMessage *)

Message(type) == link = "up" /\ down # <<>> /\ Head(down).type = type /\ down' = Tail(down)

HandleRecording ==
  /\ Message("recording")
  /\ phase' = "LISTENING"
  /\ UNCHANGED <<mic, streamed, speaking, said, user, link, up, server, history>>

HandleTranscript ==
  /\ Message("transcript")
  /\ UNCHANGED <<phone, link, up, server, history>>

\* A command that the phone knows it carries out itself, and tells the server to
\* leave it.
Intercept ==
  /\ Message("transcript") /\ Head(down).heard # {}
  /\ SendUp("cancel_task", 0)
  /\ marks' = [u \in Utterance |->
                 IF u \notin Pending THEN marks[u]
                 ELSE marks[u] \cup {"cancelled"} \cup
                      (IF u \in Head(down).heard THEN {"local"} ELSE {})]
  /\ phase' = "IDLE"
  /\ UNCHANGED <<mic, streamed, speaking, said, user, link, server, fate, last>>

\* What is spoken already is cut short, and its callback never called.
HandleResponse ==
  /\ Message("response")
  /\ phase' = "RESPONDING" /\ speaking' = TRUE
  /\ UNCHANGED <<mic, streamed, said, user, link, up, server, history>>

SpeechEnds ==
  /\ speaking
  /\ speaking' = FALSE /\ phase' = "IDLE"
  /\ UNCHANGED <<mic, streamed, said, user, link, up, down, server, history>>

HandleError ==
  /\ Message("error")
  /\ phase' = "ERROR"
  /\ UNCHANGED <<mic, streamed, speaking, said, user, link, up, server, history>>

\* The connection fails: what was under way may have arrived in part.
onFailure ==
  /\ link = "up"
  /\ link' = "down" /\ down' = <<>> /\ phase' = "ERROR"
  /\ \E n \in 0 .. Len(up) :
       /\ up' = SubSeq(up, 1, n)
       /\ fate' = [u \in Utterance |->
                     IF fate[u] = "sent" /\ \A i \in 1 .. n :
                          ~(up[i].u = u /\ up[i].type \in {"end_turn", "text_input"})
                     THEN "lost" ELSE fate[u]]
  /\ UNCHANGED <<mic, streamed, speaking, said, user, server, marks, last>>

-----------------------------------------------------------------------------
(* The server: the loop of websocket_conversation *)

Receive(type) == pc = "receive" /\ up # <<>> /\ Head(up).type = type /\ up' = Tail(up)

SendDown(type, t) ==
  down' = IF link = "up"
          THEN Append(down, [type |-> type, u |-> t.u, heard |-> t.heard]) ELSE down

Take(u) == fate' = [fate EXCEPT ![u] = "taken"] /\ UNCHANGED marks

Settle(u, f) == fate' = [fate EXCEPT ![u] = f] /\ marks' = [marks EXCEPT ![u] = {}]

\* Mutant of ReceiveStart: the buffer is left as it is.
ReceiveStartUncleared ==
  /\ Receive("start")
  /\ is_recording' = TRUE
  /\ SendDown("recording", NoTurn)
  /\ UNCHANGED <<phone, link, pc, audio_buffer, turn, reader, progress, task, history>>

ReceiveStart ==
  /\ Receive("start")
  /\ is_recording' = TRUE /\ audio_buffer' = {}
  /\ SendDown("recording", NoTurn)
  /\ UNCHANGED <<phone, link, pc, turn, reader, progress, task, history>>

ReceiveAudio ==
  /\ Receive("audio")
  /\ audio_buffer' = IF is_recording THEN audio_buffer \cup {Head(up).u} ELSE audio_buffer
  /\ UNCHANGED <<phone, link, down, pc, is_recording, turn, reader, progress, task, history>>

\* Without audio the transcript is empty, and nothing follows it.
ReceiveEndTurn ==
  /\ Receive("end_turn")
  /\ is_recording' = FALSE /\ audio_buffer' = {}
  /\ IF audio_buffer = {}
     THEN /\ pc' = "receive" /\ UNCHANGED turn
          /\ Settle(Head(up).u, "silent") /\ SendDown("transcript", NoTurn)
     ELSE /\ pc' = "transcribe" /\ turn' = [u |-> Head(up).u, heard |-> audio_buffer]
          /\ Take(Head(up).u) /\ UNCHANGED down
  /\ UNCHANGED <<phone, link, reader, progress, task, last>>

\* What is typed is treated as what was said, from Classify on.
ReceiveText ==
  /\ Receive("text_input")
  /\ turn' = [u |-> Head(up).u, heard |-> {Head(up).u}]
  /\ pc' = "classify" /\ Take(Head(up).u)
  /\ UNCHANGED <<phone, link, down, is_recording, audio_buffer, reader, progress, task, last>>

\* The loop has no branch for it.
ReceiveCancel ==
  /\ Receive("cancel_task")
  /\ UNCHANGED <<phone, link, down, server, history>>

Lost == fate' = [u \in Utterance |-> IF u \in Pending THEN "lost" ELSE fate[u]]

ReceiveEnd ==
  /\ Receive("end_conversation")
  /\ pc' = "closed"
  /\ Lost
  /\ UNCHANGED <<phone, link, down, is_recording, audio_buffer, turn, reader, progress, task,
                 marks, last>>

\* Receiving, or a transcript that could not be sent, tells that the phone is gone.
Disconnect ==
  /\ pc \in {"receive", "transcribe"} /\ link # "up"
  /\ pc' = "closed"
  /\ Lost
  /\ UNCHANGED <<phone, link, up, down, is_recording, audio_buffer, turn, reader, progress, task,
                 marks, last>>

\* Nothing may be heard in the audio.
Transcribe ==
  /\ pc = "transcribe"
  /\ \/ /\ pc' = "classify" /\ UNCHANGED <<turn, fate, marks>>
        /\ SendDown("transcript", turn)
     \/ /\ pc' = "receive" /\ turn' = NoTurn /\ Settle(turn.u, "silent")
        /\ SendDown("transcript", NoTurn)
  /\ UNCHANGED <<phone, link, up, is_recording, audio_buffer, reader, progress, task, last>>

\* Mutant of Raise: the exception is logged and no more.
RaiseSilently ==
  /\ pc \in {"transcribe", "chat"}
  /\ pc' = "receive" /\ turn' = NoTurn
  /\ Settle(turn.u, "failed")
  /\ UNCHANGED <<phone, link, up, down, is_recording, audio_buffer, reader, progress, task, last>>

\* Speech recognition or the language model fails.
Raise ==
  /\ pc \in {"transcribe", "chat"}
  /\ pc' = "receive" /\ turn' = NoTurn
  /\ Settle(turn.u, "failed") /\ SendDown("error", turn)
  /\ UNCHANGED <<phone, link, up, is_recording, audio_buffer, reader, progress, task, last>>

Classify ==
  /\ pc = "classify"
  /\ pc' \in {"chat", "gate"}
  /\ UNCHANGED <<phone, link, up, down, is_recording, audio_buffer, turn, reader, progress, task, history>>

Respond ==
  /\ pc' = "receive" /\ turn' = NoTurn
  /\ Settle(turn.u, "answered") /\ SendDown("response", turn)
  /\ UNCHANGED <<phone, link, up, is_recording, audio_buffer, reader, progress, task, last>>

Chat == pc = "chat" /\ Respond

\* The reader is waited for first.
RespondToTask == pc = "stopping" /\ ~reader /\ Respond

\* Without permission to capture the screen the turn ends without an answer.
Refuse ==
  /\ pc = "gate"
  /\ pc' = "receive" /\ turn' = NoTurn /\ Settle(turn.u, "refused")
  /\ UNCHANGED <<phone, link, up, down, is_recording, audio_buffer, reader, progress, task, last>>

BeginTask ==
  /\ pc = "gate"
  /\ pc' = "task" /\ reader' = TRUE /\ progress' = "none"
  /\ UNCHANGED <<phone, link, up, down, is_recording, audio_buffer, turn, task, history>>

-----------------------------------------------------------------------------
(* The server: a task, and background_websocket_reader *)

\* The first plan, and every replan.
Plan ==
  /\ pc = "task"
  /\ progress' = IF progress = "none" THEN "planned" ELSE progress
  /\ start_task
  /\ UNCHANGED <<phone, link, up, down, pc, is_recording, audio_buffer, turn, reader, history>>

Act ==
  /\ pc = "task" /\ progress = "planned" /\ ~is_cancelled
  /\ progress' = "acted"
  /\ UNCHANGED <<phone, link, up, down, pc, is_recording, audio_buffer, turn, reader, task, history>>

EndTask ==
  /\ pc = "task"
  /\ pc' = "stopping" /\ progress' = "none"
  /\ \/ progress # "none" /\ ~is_cancelled /\ finish_task
     \/ UNCHANGED task
  /\ UNCHANGED <<phone, link, up, down, is_recording, audio_buffer, turn, reader, history>>

\* While it runs the loop does not read, and what it has no branch for is gone.  The
\* stop event is looked at after every message.
Reads(types) ==
  /\ reader /\ up # <<>> /\ Head(up).type \in types
  /\ up' = Tail(up) /\ reader' = (pc = "task")
  /\ UNCHANGED <<phone, link, down, pc, is_recording, audio_buffer, turn, progress>>

ReadCancel == Reads({"cancel_task"}) /\ abort_task /\ UNCHANGED history

ReadUtterance ==
  Reads({"end_turn", "text_input"}) /\ Settle(Head(up).u, "dropped") /\ UNCHANGED <<task, last>>

ReadStart == Reads({"start"}) /\ Mark({Head(up).u}, "muted") /\ UNCHANGED <<task, fate, last>>

ReadOther == Reads({"audio", "end_conversation"}) /\ UNCHANGED <<task, history>>

\* Mutant of ReaderStops: it waits for the next message, without a timeout.
ReaderStopsAfterMessage ==
  /\ reader /\ pc = "stopping" /\ up # <<>>
  /\ reader' = FALSE /\ up' = Tail(up)
  /\ UNCHANGED <<phone, link, down, pc, is_recording, audio_buffer, turn, progress, task, history>>

ReaderStops ==
  /\ reader /\ pc = "stopping"
  /\ reader' = FALSE
  /\ UNCHANGED <<phone, link, up, down, pc, is_recording, audio_buffer, turn, progress, task, history>>

-----------------------------------------------------------------------------

User ==
  \/ startCapture \/ streamAudioWithVAD \/ stopCapture \/ cancelCapture \/ Dismiss
  \/ sendTextCommand \/ sendCancelTask \/ endConversation \/ hideOverlay

Handle ==
  HandleRecording \/ HandleTranscript \/ Intercept \/ HandleResponse \/ HandleError \/ SpeechEnds

\* What the handler does next, but for planning once more.
Serve ==
  \/ ReceiveStart \/ ReceiveAudio \/ ReceiveEndTurn \/ ReceiveText \/ ReceiveCancel
  \/ ReceiveEnd \/ Disconnect
  \/ Transcribe \/ Raise \/ Classify \/ Chat \/ RespondToTask \/ Refuse \/ BeginTask
  \/ EndTask \/ ReadCancel \/ ReadUtterance \/ ReadStart \/ ReadOther \/ ReaderStops

Next == User \/ Handle \/ onFailure \/ Serve \/ Plan \/ Act

Spec == Init /\ [][Next]_vars

\* The calls of the handler have timeouts, and a task ends; nothing is assumed of
\* the user or the link.
FairSpec == Spec /\ WF_vars(Serve)

(***************************************************************************)
(* Properties                                                              *)
(***************************************************************************)

\* The phone shows that it is waiting for the server only while an answer can
\* still come, but for four ways in which the server ends a turn in silence: it
\* heard nothing, the user gave no permission, the background reader read the
\* message, or the connection was gone.
ThinkingIsExplained ==
  phase = "THINKING" =>
    \/ fate[last] \in {"sent", "taken", "silent", "refused", "dropped", "lost"}
    \/ /\ fate[last] \in {"answered", "failed"}
       /\ \E i \in DOMAIN down : down[i].u = last /\ down[i].type \in {"response", "error"}

\* A turn holds audio of another utterance, one withdrawn for instance, only if its
\* own start was read by the background reader.
OwnAudio == turn.heard \ {turn.u} # {} => "muted" \in marks[turn.u]

\* A task is only ever cancelled by a cancel sent after its utterance was.
CancelsItsOwn == pc = "task" /\ progress # "none" /\ is_cancelled => "cancelled" \in marks[turn.u]

\* Each turn works with its own audio and is stopped by its own cancel.
EachItsOwn == OwnAudio /\ CancelsItsOwn

\* The server is done with every utterance some time, whatever comes meanwhile.
EveryUtteranceIsSettled ==
  \A u \in Utterance : fate[u] = "sent" ~> fate[u] \notin {"sent", "taken"}

\* VoiceCaptureController.kt:568-569 on commands that the phone carries out at once:
\* cancel_task is sent so that the server leaves them.
CarriedOutOnce == progress = "acted" => \A u \in turn.heard : "local" \notin marks[u]
=============================================================================
