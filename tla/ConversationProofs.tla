------------------------- MODULE ConversationProofs -------------------------
(***************************************************************************)
(* Proofs about Conversation, for any number of utterances, typed or       *)
(* spoken, and of cancels: types, that a phone that waits for the server   *)
(* has somebody to wait for, and that each turn works with its own audio   *)
(* and is stopped by its own cancel.  What is inductive is what can be     *)
(* said of the messages that are still under way: which audio will be in   *)
(* the buffer when an end_turn is read, and which utterances were sent     *)
(* before a cancel was.                                                    *)
(***************************************************************************)
EXTENDS Conversation, TLAPS

USE DEF user

\* The utterance of e waits for the server to read e.
Ends(e) == e.type \in {"end_turn", "text_input"}

\* Where the handler works on a turn.
Busy == {"transcribe", "classify", "chat", "gate", "task", "stopping"}

\* Whatever is under way in s but a cancel and the end is an utterance's.
Addressed(s) ==
  \A i \in DOMAIN s : s[i].type \notin {"cancel_task", "end_conversation"} => s[i].u \in Utterance

\* The utterances that end in s are sent by f, and each of them ends once.
Awaited(s, f) == \A i \in DOMAIN s : Ends(s[i]) => f[s[i].u] = "sent"

Once(s) == \A i, j \in DOMAIN s : Ends(s[i]) /\ Ends(s[j]) /\ s[i].u = s[j].u => i = j

\* Between k and n there is no audio in s but that of u.
Only(s, k, n, u) == \A i \in DOMAIN s : k < i /\ i < n /\ s[i].type = "audio" => s[i].u = u

\* Nothing but u's audio will be in the buffer, now b, when message n of s is read: since
\* u's start, if that is in s, or since now; or u's start was muted.
Clean(s, b, m, u, n) ==
  \/ \E k \in DOMAIN s : k < n /\ s[k].type = "start" /\ s[k].u = u /\ Only(s, k, n, u)
  \/ "muted" \in m[u]
  \/ b \subseteq {u} /\ Only(s, 0, n, u)

Own(s, b, m) == \A i \in DOMAIN s : s[i].type = "end_turn" => Clean(s, b, m, s[i].u, i)

\* A cancel in s was sent after every utterance that ends before it.
Marked(s, m) ==
  \A i, j \in DOMAIN s :
    Ends(s[i]) /\ s[j].type = "cancel_task" /\ i < j => "cancelled" \in m[s[i].u]

Stops(s) == \E i \in DOMAIN s : s[i].type = "cancel_task"

\* What the phone knows of its utterances.
Begun ==
  /\ mic # 0 => fate[mic] = "recording"
  /\ \A u \in Utterance : u > said => fate[u] = "unsaid"

\* What is on its way to a handler that reads on.
OnItsWay ==
  pc # "closed" =>
    /\ Awaited(up, fate) /\ Once(up) /\ Own(up, audio_buffer, marks) /\ Marked(up, marks)
    /\ mic # 0 /\ link = "up" => Clean(up, audio_buffer, marks, mic, Len(up) + 1)

\* What the handler works on.
AtWork ==
  /\ pc \in Busy => /\ turn.u \in Utterance /\ fate[turn.u] = "taken"
                    /\ Stops(up) => "cancelled" \in marks[turn.u]
  /\ pc = "receive" => turn = NoTurn
  /\ turn # NoTurn => turn.u \in Utterance
  /\ reader => pc \in {"task", "stopping"}

\* A phone that waits has sent something, in vain when the connection was down.
Waits == phase = "THINKING" => last \in Utterance /\ (link # "up" => fate[last] = "lost")

Core == /\ Addressed(up) /\ Begun /\ OnItsWay /\ AtWork /\ Waits
        /\ ThinkingIsExplained /\ EachItsOwn

Inv == TypeOK /\ Core

-----------------------------------------------------------------------------
(* Types *)

LEMMA Numbers ==
  /\ MaxUtterances \in Nat /\ MaxCancels \in Nat /\ 0 \in 0 .. MaxUtterances
  /\ Utterance \subseteq 0 .. MaxUtterances /\ Typed \subseteq Utterance
  /\ \A u \in Utterance : u \in Nat /\ u # 0
  /\ \A u \in 0 .. MaxUtterances : u # 0 => u \in Utterance
BY UtterancesAssumption, TypedAssumption, CancelsAssumption DEF Utterance

LEMMA UpTypes ==
  ASSUME TypeOK, NEW u \in 0 .. MaxUtterances,
         NEW type \in {"start", "audio", "end_turn", "text_input", "cancel_task",
                       "end_conversation"},
         SendUp(type, u)
  PROVE  up' \in Seq(Request)
<1> DEFINE e == [type |-> type, u |-> u]
<1>1. e \in Request
  BY DEF Request
<1>2. up \in Seq(Request)
  BY DEF TypeOK
<1>3. up' = IF link = "up" THEN Append(up, e) ELSE up
  BY DEF SendUp
<1> HIDE DEF e
<1> QED
  BY <1>1, <1>2, <1>3

LEMMA DownTypes ==
  ASSUME TypeOK, NEW t \in Turn,
         NEW type \in {"recording", "transcript", "response", "error", "goodbye"},
         SendDown(type, t)
  PROVE  down' \in Seq(Reply)
<1> DEFINE e == [type |-> type, u |-> t.u, heard |-> t.heard]
<1>1. e \in Reply
  BY DEF Reply, Turn
<1>2. down \in Seq(Reply)
  BY DEF TypeOK
<1>3. down' = IF link = "up" THEN Append(down, e) ELSE down
  BY DEF SendDown
<1> HIDE DEF e
<1> QED
  BY <1>1, <1>2, <1>3

LEMMA NoTurnTypes == NoTurn \in Turn /\ NoTurn.u = 0 /\ NoTurn.heard = {}
BY Numbers DEF NoTurn, Turn

LEMMA MarkTypes ==
  ASSUME TypeOK, NEW S, NEW mark \in Marks, Mark(S, mark)
  PROVE  marks' \in [Utterance -> SUBSET Marks]
BY DEF TypeOK, Mark

LEMMA SettleTypes ==
  ASSUME TypeOK, NEW u, NEW f \in Fates, Settle(u, f)
  PROVE  fate' \in [Utterance -> Fates] /\ marks' \in [Utterance -> SUBSET Marks]
BY DEF TypeOK, Settle

LEMMA TakeTypes ==
  ASSUME TypeOK, NEW u, Take(u)
  PROVE  fate' \in [Utterance -> Fates] /\ marks' \in [Utterance -> SUBSET Marks]
BY DEF TypeOK, Take, Fates

LEMMA LostTypes ==
  ASSUME TypeOK, Lost
  PROVE  fate' \in [Utterance -> Fates]
BY DEF TypeOK, Lost, Fates

LEMMA SentTypes ==
  ASSUME TypeOK, NEW u \in 0 .. MaxUtterances, Sent(u)
  PROVE  fate' \in [Utterance -> Fates] /\ last' \in 0 .. MaxUtterances
BY DEF TypeOK, Sent, Fates

LEMMA UserTypes ==
  ASSUME TypeOK, User
  PROVE  TypeOK'
<1>1. UNCHANGED server
  BY DEF User, startCapture, streamAudioWithVAD, stopCapture, cancelCapture, Dismiss,
         sendTextCommand, sendCancelTask, endConversation, hideOverlay
<1>2. /\ pc' \in Places /\ is_recording' \in BOOLEAN /\ audio_buffer' \subseteq Utterance
      /\ turn' \in Turn /\ reader' \in BOOLEAN /\ progress' \in {"none", "planned", "acted"}
      /\ TaskTypeOK'
  BY <1>1 DEF server, TypeOK, TaskTypeOK
<1>3. CASE startCapture
  <2>1. said + 1 \in 0 .. MaxUtterances
    BY <1>3, Numbers DEF startCapture, TypeOK
  <2>2. up' \in Seq(Request)
    BY <1>3, <2>1, UpTypes DEF startCapture
  <2>3. fate' \in [Utterance -> Fates]
    BY <1>3 DEF startCapture, TypeOK, Fates
  <2> QED
    BY <1>2, <1>3, <2>1, <2>2, <2>3 DEF startCapture, TypeOK, Phases
<1>4. CASE streamAudioWithVAD
  <2>1. up' \in Seq(Request)
    BY <1>4, UpTypes DEF streamAudioWithVAD, TypeOK
  <2> QED
    BY <1>2, <1>4, <2>1 DEF streamAudioWithVAD, TypeOK, history
<1>5. CASE stopCapture
  <2>1. up' \in Seq(Request)
    BY <1>5, UpTypes DEF stopCapture, TypeOK
  <2>2. fate' \in [Utterance -> Fates] /\ last' \in 0 .. MaxUtterances
    BY <1>5, SentTypes DEF stopCapture, TypeOK
  <2> QED
    BY <1>2, <1>5, <2>1, <2>2, Numbers DEF stopCapture, TypeOK, Phases
<1>6. CASE cancelCapture
  <2>1. fate' \in [Utterance -> Fates]
    BY <1>6 DEF cancelCapture, TypeOK, Fates
  <2> QED
    BY <1>2, <1>6, <2>1, Numbers DEF cancelCapture, TypeOK, Phases
<1>7. CASE Dismiss
  BY <1>2, <1>7 DEF Dismiss, TypeOK, Phases, history
<1>8. CASE sendTextCommand
  <2>1. said + 1 \in 0 .. MaxUtterances
    BY <1>8, Numbers DEF sendTextCommand
  <2>2. up' \in Seq(Request)
    BY <1>8, <2>1, UpTypes DEF sendTextCommand
  <2>3. fate' \in [Utterance -> Fates] /\ last' \in 0 .. MaxUtterances
    BY <1>8, <2>1, SentTypes DEF sendTextCommand
  <2> QED
    BY <1>2, <1>8, <2>1, <2>2, <2>3 DEF sendTextCommand, TypeOK, Phases
<1>9. CASE sendCancelTask
  <2>1. up' \in Seq(Request)
    BY <1>9, UpTypes, Numbers DEF sendCancelTask
  <2>2. marks' \in [Utterance -> SUBSET Marks]
    BY <1>9, MarkTypes DEF sendCancelTask, Marks
  <2>3. cancels' \in 0 .. MaxCancels
    BY <1>9, Numbers DEF sendCancelTask, TypeOK
  <2> QED
    BY <1>2, <1>9, <2>1, <2>2, <2>3 DEF sendCancelTask, TypeOK, Phases
<1>10. CASE endConversation
  <2>1. up' \in Seq(Request)
    BY <1>10, UpTypes, Numbers DEF endConversation
  <2> QED
    <3>1. link' = "ended" /\ down' = <<>> /\ speaking' = FALSE /\ phase' = "IDLE"
      BY <1>10 DEF endConversation
    <3>2. UNCHANGED <<mic, streamed, said, user>> /\ UNCHANGED history
      BY <1>10 DEF endConversation
    <3>3. down' \in Seq(Reply)
      BY <3>1
    <3> QED
      BY <1>2, <2>1, <3>1, <3>2, <3>3 DEF TypeOK, history, Phases
<1>11. CASE hideOverlay
  <2>1. /\ link' = "ended" /\ down' = <<>> /\ speaking' = FALSE /\ phase' = "IDLE"
        /\ mic' = 0 /\ streamed' = FALSE /\ hiding' = FALSE
        /\ UNCHANGED <<said, cancels, up, marks, last>>
    BY <1>11 DEF hideOverlay
  <2>2. down' \in Seq(Reply)
    BY <2>1
  <2>3. fate' \in [Utterance -> Fates]
    BY <1>11 DEF hideOverlay, TypeOK, Fates
  <2> QED
    BY <1>2, <2>1, <2>2, <2>3, Numbers DEF TypeOK, Phases
<1> QED
  BY <1>3, <1>4, <1>5, <1>6, <1>7, <1>8, <1>9, <1>10, <1>11 DEF User

LEMMA HandleTypes ==
  ASSUME TypeOK, Handle \/ onFailure
  PROVE  TypeOK'
<1>1. /\ UNCHANGED <<mic, streamed, said, user, last>> /\ UNCHANGED server
  BY DEF Handle, HandleRecording, HandleTranscript, Intercept, HandleResponse, HandleError,
         SpeechEnds, onFailure, phone, history
<1>2. /\ pc' \in Places /\ is_recording' \in BOOLEAN /\ audio_buffer' \subseteq Utterance
      /\ turn' \in Turn /\ reader' \in BOOLEAN /\ progress' \in {"none", "planned", "acted"}
      /\ TaskTypeOK'
  BY <1>1 DEF server, TypeOK, TaskTypeOK
<1>3. phase' \in Phases
  <2>1. \/ phase' = phase \/ phase' = "LISTENING" \/ phase' = "RESPONDING"
        \/ phase' = "IDLE" \/ phase' = "ERROR"
    BY DEF Handle, HandleRecording, HandleTranscript, Intercept, HandleResponse, HandleError,
           SpeechEnds, onFailure, phone
  <2> QED
    BY <2>1 DEF Phases, TypeOK
<1>4. down' \in Seq(Reply)
  <2>1. UNCHANGED down \/ down' = <<>> \/ (down # <<>> /\ down' = Tail(down))
    BY DEF Handle, HandleRecording, HandleTranscript, Intercept, HandleResponse, HandleError,
           SpeechEnds, onFailure, Message
  <2>2. <<>> \in Seq(Reply) /\ down \in Seq(Reply) /\ (down # <<>> => Tail(down) \in Seq(Reply))
    BY DEF TypeOK
  <2> QED
    BY <2>1, <2>2
<1>5. speaking' \in BOOLEAN /\ link' \in {"up", "down", "ended"}
  BY DEF Handle, HandleRecording, HandleTranscript, Intercept, HandleResponse, HandleError,
         SpeechEnds, onFailure, phone, TypeOK
<1>6. up' \in Seq(Request)
  <2>1. CASE Intercept
    BY <2>1, UpTypes, Numbers DEF Intercept
  <2>2. CASE onFailure
    BY <2>2 DEF onFailure, TypeOK
  <2> QED
    BY <2>1, <2>2 DEF Handle, HandleRecording, HandleTranscript, HandleResponse, HandleError,
                      SpeechEnds, TypeOK
<1>7. marks' \in [Utterance -> SUBSET Marks]
  <2>1. CASE Intercept
    BY <2>1 DEF Intercept, TypeOK, Marks
  <2>2. CASE ~Intercept
    BY <2>2 DEF Handle, HandleRecording, HandleTranscript, HandleResponse, HandleError,
                SpeechEnds, onFailure, history, TypeOK
  <2> QED
    BY <2>1, <2>2
<1>8. fate' \in [Utterance -> Fates]
  <2>1. CASE onFailure
    <3>1. PICK n : fate' = [u \in Utterance |->
                     IF fate[u] = "sent" /\ \A i \in 1 .. n :
                          ~(up[i].u = u /\ up[i].type \in {"end_turn", "text_input"})
                     THEN "lost" ELSE fate[u]]
      BY <2>1 DEF onFailure
    <3> QED
      BY <3>1 DEF TypeOK, Fates
  <2>2. CASE ~onFailure
    BY <2>2 DEF Handle, HandleRecording, HandleTranscript, Intercept, HandleResponse,
                HandleError, SpeechEnds, history, TypeOK
  <2> QED
    BY <2>1, <2>2
<1> QED
  BY <1>1, <1>2, <1>3, <1>4, <1>5, <1>6, <1>7, <1>8 DEF TypeOK

\* Whatever the server does.
Server == Serve \/ Plan \/ Act

LEMMA ServerLeaves ==
  ASSUME Server
  PROVE  UNCHANGED <<phone, link, last>>
BY DEF Server, Serve, Plan, Act, ReceiveStart, ReceiveAudio, ReceiveEndTurn, ReceiveText,
       ReceiveCancel, ReceiveEnd, Disconnect, Transcribe, Raise, Classify, Chat, RespondToTask,
       Refuse, BeginTask, EndTask, ReadCancel, ReadUtterance, ReadStart, ReadOther, ReaderStops,
       Respond, Reads, history

\* What reads the next message, and what does not.
Receives == ReceiveStart \/ ReceiveAudio \/ ReceiveEndTurn \/ ReceiveText \/ ReceiveCancel
            \/ ReceiveEnd

BackgroundReads == ReadCancel \/ ReadUtterance \/ ReadStart \/ ReadOther

LEMMA ServerReads ==
  ASSUME TypeOK, Server
  PROVE  /\ UNCHANGED up \/ (up # <<>> /\ up' = Tail(up))
         /\ up # <<>> => Head(up) \in Request
         /\ Receives \/ BackgroundReads \/ UNCHANGED up
BY DEF Server, Serve, Plan, Act, ReceiveStart, ReceiveAudio, ReceiveEndTurn, ReceiveText,
       ReceiveCancel, ReceiveEnd, Disconnect, Transcribe, Raise, Classify, Chat, RespondToTask,
       Refuse, BeginTask, EndTask, ReadCancel, ReadUtterance, ReadStart, ReadOther, ReaderStops,
       Respond, Reads, Receive, Receives, BackgroundReads, TypeOK

LEMMA ServerTypes ==
  ASSUME TypeOK, Addressed(up), Server
  PROVE  TypeOK'
<1>1. UNCHANGED <<phone, link, last>>
  BY ServerLeaves
<1>2. up' \in Seq(Request)
  <2>1. up \in Seq(Request) /\ (up # <<>> => Tail(up) \in Seq(Request))
    BY DEF TypeOK
  <2> QED
    BY <2>1, ServerReads
<1>3. pc' \in Places
  BY DEF Server, Serve, Plan, Act, ReceiveStart, ReceiveAudio, ReceiveEndTurn, ReceiveText,
         ReceiveCancel, ReceiveEnd, Disconnect, Transcribe, Raise, Classify, Chat, RespondToTask,
         Refuse, BeginTask, EndTask, ReadCancel, ReadUtterance, ReadStart, ReadOther, ReaderStops,
         Respond, Reads, server, TypeOK, Places
<1>4. is_recording' \in BOOLEAN /\ reader' \in BOOLEAN
  BY DEF Server, Serve, Plan, Act, ReceiveStart, ReceiveAudio, ReceiveEndTurn, ReceiveText,
         ReceiveCancel, ReceiveEnd, Disconnect, Transcribe, Raise, Classify, Chat, RespondToTask,
         Refuse, BeginTask, EndTask, ReadCancel, ReadUtterance, ReadStart, ReadOther, ReaderStops,
         Respond, Reads, server, TypeOK
<1>5. progress' \in {"none", "planned", "acted"}
  BY DEF Server, Serve, Plan, Act, ReceiveStart, ReceiveAudio, ReceiveEndTurn, ReceiveText,
         ReceiveCancel, ReceiveEnd, Disconnect, Transcribe, Raise, Classify, Chat, RespondToTask,
         Refuse, BeginTask, EndTask, ReadCancel, ReadUtterance, ReadStart, ReadOther, ReaderStops,
         Respond, Reads, server, TypeOK
<1>6. TaskTypeOK'
  <2>1. task' = task \/ start_task \/ finish_task \/ abort_task
    BY DEF Server, Serve, Plan, Act, ReceiveStart, ReceiveAudio, ReceiveEndTurn, ReceiveText,
           ReceiveCancel, ReceiveEnd, Disconnect, Transcribe, Raise, Classify, Chat,
           RespondToTask, Refuse, BeginTask, EndTask, ReadCancel, ReadUtterance, ReadStart,
           ReadOther, ReaderStops, Respond, Reads, server
  <2>2. task \in TaskState
    BY DEF TypeOK, TaskTypeOK
  <2>3. CASE start_task
    BY <2>3 DEF TaskTypeOK, TaskState, NewTask, start_task
  <2>4. CASE finish_task
    BY <2>2, <2>4 DEF TaskTypeOK, TaskState, finish_task
  <2>5. CASE abort_task
    BY <2>2, <2>5 DEF TaskTypeOK, TaskState, abort_task
  <2> QED
    BY <2>1, <2>2, <2>3, <2>4, <2>5 DEF TaskTypeOK
<1>7. up # <<>> /\ Head(up).type \in {"audio", "end_turn", "text_input"} => Head(up).u \in Utterance
  <2>1. up # <<>> => 1 \in DOMAIN up /\ up[1] = Head(up)
    BY DEF TypeOK
  <2> QED
    BY <2>1 DEF Addressed
<1>8. audio_buffer' \subseteq Utterance
  <2>1. CASE ReceiveAudio
    BY <1>7, <2>1 DEF ReceiveAudio, Receive, TypeOK
  <2>2. ~ReceiveAudio => audio_buffer' = audio_buffer \/ audio_buffer' = {}
    BY DEF Server, Serve, Plan, Act, ReceiveStart, ReceiveEndTurn, ReceiveText,
           ReceiveCancel, ReceiveEnd, Disconnect, Transcribe, Raise, Classify, Chat,
           RespondToTask, Refuse, BeginTask, EndTask, ReadCancel, ReadUtterance, ReadStart,
           ReadOther, ReaderStops, Respond, Reads, server
  <2> QED
    BY <2>1, <2>2 DEF TypeOK
<1>9. turn' \in Turn
  <2>1. CASE ReceiveEndTurn
    <3>1. \/ UNCHANGED turn
          \/ turn' = [u |-> Head(up).u, heard |-> audio_buffer]
      BY <2>1 DEF ReceiveEndTurn
    <3>2. Head(up).u \in 0 .. MaxUtterances /\ audio_buffer \subseteq Utterance
      BY <1>7, <2>1, Numbers DEF ReceiveEndTurn, Receive, TypeOK
    <3> QED
      BY <3>1, <3>2 DEF TypeOK, Turn
  <2>2. CASE ReceiveText
    BY <1>7, <2>2, Numbers DEF ReceiveText, Receive, TypeOK, Turn
  <2>3. ~ReceiveEndTurn /\ ~ReceiveText => turn' = turn \/ turn' = NoTurn
    BY DEF Server, Serve, Plan, Act, ReceiveStart, ReceiveAudio,
           ReceiveCancel, ReceiveEnd, Disconnect, Transcribe, Raise, Classify, Chat,
           RespondToTask, Refuse, BeginTask, EndTask, ReadCancel, ReadUtterance, ReadStart,
           ReadOther, ReaderStops, Respond, Reads, server
  <2> QED
    BY <2>1, <2>2, <2>3, NoTurnTypes DEF TypeOK
<1>10. down' \in Seq(Reply)
  <2>1. \/ UNCHANGED down
        \/ \E type \in {"recording", "transcript", "response", "error"}, t \in {turn, NoTurn} :
             SendDown(type, t)
    BY DEF Server, Serve, Plan, Act, ReceiveStart, ReceiveAudio, ReceiveEndTurn, ReceiveText,
           ReceiveCancel, ReceiveEnd, Disconnect, Transcribe, Raise, Classify, Chat,
           RespondToTask, Refuse, BeginTask, EndTask, ReadCancel, ReadUtterance, ReadStart,
           ReadOther, ReaderStops, Respond, Reads
  <2> QED
    BY <2>1, DownTypes, NoTurnTypes DEF TypeOK
<1>11. fate' \in [Utterance -> Fates] /\ marks' \in [Utterance -> SUBSET Marks]
  <2>1. \/ UNCHANGED <<fate, marks>>
        \/ \E u \in {Head(up).u, turn.u}, f \in Fates : Settle(u, f)
        \/ Take(Head(up).u)
        \/ Lost /\ UNCHANGED marks
        \/ Mark({Head(up).u}, "muted") /\ UNCHANGED fate
    BY DEF Server, Serve, Plan, Act, ReceiveStart, ReceiveAudio, ReceiveEndTurn, ReceiveText,
           ReceiveCancel, ReceiveEnd, Disconnect, Transcribe, Raise, Classify, Chat,
           RespondToTask, Refuse, BeginTask, EndTask, ReadCancel, ReadUtterance, ReadStart,
           ReadOther, ReaderStops, Respond, Reads, history, Fates
  <2>2. "muted" \in Marks
    BY DEF Marks
  <2> QED
    BY <2>1, <2>2, SettleTypes, TakeTypes, LostTypes, MarkTypes DEF TypeOK
<1> QED
  BY <1>1, <1>2, <1>3, <1>4, <1>5, <1>6, <1>8, <1>9, <1>10, <1>11 DEF TypeOK, phone

LEMMA TypeStep ==
  ASSUME TypeOK, Addressed(up), [Next]_vars
  PROVE  TypeOK'
<1>1. CASE UNCHANGED vars
  BY <1>1 DEF vars, TypeOK, TaskTypeOK, phone, server, history
<1> QED
  BY <1>1, UserTypes, HandleTypes, ServerTypes DEF Next, Server

-----------------------------------------------------------------------------
(* What is under way *)

\* The messages of s, which were sent to a handler that reads on.
Way(s, f, b, m) == Awaited(s, f) /\ Once(s) /\ Own(s, b, m) /\ Marked(s, m)

LEMMA Posting ==
  ASSUME NEW s \in Seq(Request), NEW e \in Request, NEW t, t = Append(s, e)
  PROVE  /\ t \in Seq(Request) /\ Len(t) = Len(s) + 1 /\ Len(s) \in Nat
         /\ DOMAIN s = 1 .. Len(s)
         /\ \A i \in DOMAIN s : i \in DOMAIN t /\ t[i] = s[i] /\ i \in Nat /\ i < Len(t)
         /\ \A i \in DOMAIN t : i \in Nat /\ (i \in DOMAIN s \/ (i = Len(t) /\ t[i] = e))
         /\ Len(t) \in DOMAIN t /\ t[Len(t)] = e
OBVIOUS

LEMMA Popping ==
  ASSUME NEW s \in Seq(Request), s # <<>>, NEW t, t = Tail(s)
  PROVE  /\ t \in Seq(Request) /\ Len(s) = Len(t) + 1 /\ Len(t) \in Nat
         /\ 1 \in DOMAIN s /\ s[1] = Head(s) /\ Head(s) \in Request
         /\ \A i \in DOMAIN t : i \in Nat /\ i > 0 /\ i + 1 \in DOMAIN s /\ t[i] = s[i + 1]
         /\ \A i \in DOMAIN s : /\ i \in Nat /\ i > 0
                                /\ i # 1 => i - 1 \in DOMAIN t /\ t[i - 1] = s[i]
OBVIOUS

LEMMA AddressedPost ==
  ASSUME NEW s \in Seq(Request), NEW e \in Request, NEW t, t = Append(s, e), Addressed(s),
         e.type \notin {"cancel_task", "end_conversation"} => e.u \in Utterance
  PROVE  Addressed(t)
BY Posting DEF Addressed

\* What was known stays so.
LEMMA WayKept ==
  ASSUME NEW s, NEW f, NEW b, NEW m, NEW f2, NEW m2, Way(s, f, b, m),
         \A i \in DOMAIN s : Ends(s[i]) => f2[s[i].u] = "sent" /\ m[s[i].u] \subseteq m2[s[i].u]
  PROVE  Way(s, f2, b, m2)
<1>1. Awaited(s, f2)
  BY DEF Awaited
<1>2. Own(s, b, m2)
  BY DEF Way, Own, Clean, Ends
<1>3. Marked(s, m2)
  BY DEF Way, Marked
<1> QED
  BY <1>1, <1>2, <1>3 DEF Way

LEMMA CleanKept ==
  ASSUME NEW s, NEW b, NEW m, NEW m2, NEW u, NEW n, Clean(s, b, m, u, n), m[u] \subseteq m2[u]
  PROVE  Clean(s, b, m2, u, n)
BY DEF Clean

\* A message is sent: what was clean stays so, ...
LEMMA CleanPost ==
  ASSUME NEW s \in Seq(Request), NEW e \in Request, NEW t, t = Append(s, e),
         NEW b, NEW m, NEW u, NEW n \in Nat, n <= Len(s) + 1, Clean(s, b, m, u, n)
  PROVE  Clean(t, b, m, u, n)
<1>1. /\ Len(t) = Len(s) + 1 /\ Len(s) \in Nat
      /\ \A i \in DOMAIN s : i \in DOMAIN t /\ t[i] = s[i]
      /\ \A i \in DOMAIN t : i \in DOMAIN s \/ i = Len(t)
  BY Posting
<1>2. ASSUME NEW k, Only(s, k, n, u) PROVE Only(t, k, n, u)
  BY <1>1, <1>2 DEF Only
<1> QED
  BY <1>1, <1>2 DEF Clean

\* ... and also after it unless it is another's audio.
LEMMA CleanBeyond ==
  ASSUME NEW s \in Seq(Request), NEW e \in Request, NEW t, t = Append(s, e),
         NEW b, NEW m, NEW u, Clean(s, b, m, u, Len(s) + 1), e.type = "audio" => e.u = u
  PROVE  Clean(t, b, m, u, Len(t) + 1)
<1>1. /\ Len(t) = Len(s) + 1 /\ Len(s) \in Nat
      /\ \A i \in DOMAIN s : i \in DOMAIN t /\ t[i] = s[i] /\ i \in Nat /\ i < Len(t)
      /\ \A i \in DOMAIN t : i \in DOMAIN s \/ (i = Len(t) /\ t[i] = e)
  BY Posting
<1>2. ASSUME NEW k, Only(s, k, Len(s) + 1, u) PROVE Only(t, k, Len(t) + 1, u)
  BY <1>1, <1>2 DEF Only
<1> QED
  BY <1>1, <1>2 DEF Clean

\* After its own start an utterance is clean.
LEMMA CleanStart ==
  ASSUME NEW s \in Seq(Request), NEW e \in Request, NEW t, t = Append(s, e), e.type = "start",
         NEW b, NEW m
  PROVE  Clean(t, b, m, e.u, Len(t) + 1)
<1>1. /\ Len(t) = Len(s) + 1 /\ Len(s) \in Nat /\ Len(t) \in DOMAIN t /\ t[Len(t)] = e
      /\ \A i \in DOMAIN t : i \in Nat
  BY Posting
<1>2. Only(t, Len(t), Len(t) + 1, e.u)
  BY <1>1 DEF Only
<1> QED
  BY <1>1, <1>2 DEF Clean

LEMMA WayPost ==
  ASSUME NEW s \in Seq(Request), NEW e \in Request, NEW t, t = Append(s, e),
         NEW f, NEW b, NEW m, Way(s, f, b, m),
         Ends(e) => /\ f[e.u] = "sent"
                    /\ \A i \in DOMAIN s : Ends(s[i]) => s[i].u # e.u,
         e.type = "end_turn" => Clean(s, b, m, e.u, Len(s) + 1),
         e.type = "cancel_task" => \A i \in DOMAIN s : Ends(s[i]) => "cancelled" \in m[s[i].u]
  PROVE  Way(t, f, b, m)
<1>1. /\ Len(t) = Len(s) + 1 /\ Len(s) \in Nat
      /\ \A i \in DOMAIN s : i \in DOMAIN t /\ t[i] = s[i] /\ i \in Nat /\ i < Len(t)
      /\ \A i \in DOMAIN t : i \in Nat /\ (i \in DOMAIN s \/ (i = Len(t) /\ t[i] = e))
  BY Posting
<1>2. Awaited(t, f)
  BY <1>1 DEF Way, Awaited
<1>3. Once(t)
  BY <1>1 DEF Way, Once
<1>4. Own(t, b, m)
  <2> SUFFICES ASSUME NEW i \in DOMAIN t, t[i].type = "end_turn"
               PROVE  Clean(t, b, m, t[i].u, i)
    BY DEF Own
  <2>1. i \in Nat /\ i <= Len(s) + 1 /\ Clean(s, b, m, t[i].u, i)
    BY <1>1 DEF Way, Own
  <2> QED
    BY <2>1, CleanPost
<1>5. Marked(t, m)
  <2> SUFFICES ASSUME NEW i \in DOMAIN t, NEW j \in DOMAIN t,
                      Ends(t[i]), t[j].type = "cancel_task", i < j
               PROVE  "cancelled" \in m[t[i].u]
    BY DEF Marked
  <2>1. i \in DOMAIN s /\ t[i] = s[i]
    BY <1>1
  <2> QED
    BY <1>1, <2>1 DEF Way, Marked
<1> QED
  BY <1>2, <1>3, <1>4, <1>5 DEF Way

\* The first message is read: the buffer, now b2, holds what it held and its audio, and
\* nothing when it was a start that was not muted.
LEMMA CleanRead ==
  ASSUME NEW s \in Seq(Request), s # <<>>, NEW t, t = Tail(s), NEW b, NEW b2, NEW m, NEW m2,
         NEW u, NEW n \in Nat, n > 0, Clean(s, b, m, u, n + 1), m[u] \subseteq m2[u],
         \A v \in b2 : v \in b \/ (Head(s).type = "audio" /\ v = Head(s).u),
         Head(s).type = "start" /\ Head(s).u = u => b2 = {} \/ "muted" \in m2[u]
  PROVE  Clean(t, b2, m2, u, n)
<1>1. /\ 1 \in DOMAIN s /\ s[1] = Head(s)
      /\ \A i \in DOMAIN t : i \in Nat /\ i > 0 /\ i + 1 \in DOMAIN s /\ t[i] = s[i + 1]
      /\ \A i \in DOMAIN s : /\ i \in Nat /\ i > 0
                             /\ i # 1 => i - 1 \in DOMAIN t /\ t[i - 1] = s[i]
  BY Popping
<1>2. CASE "muted" \in m[u]
  BY <1>2 DEF Clean
<1>3. CASE b \subseteq {u} /\ Only(s, 0, n + 1, u)
  <2>1. b2 \subseteq {u}
    BY <1>1, <1>3 DEF Only
  <2>2. Only(t, 0, n, u)
    <3> SUFFICES ASSUME NEW i \in DOMAIN t, i < n, t[i].type = "audio" PROVE t[i].u = u
      BY DEF Only
    <3>1. i + 1 \in DOMAIN s /\ 0 < i + 1 /\ i + 1 < n + 1 /\ s[i + 1] = t[i]
      BY <1>1
    <3> QED
      BY <1>3, <3>1 DEF Only
  <2> QED
    BY <2>1, <2>2 DEF Clean
<1>4. ASSUME NEW k \in DOMAIN s, k < n + 1, s[k].type = "start", s[k].u = u,
             Only(s, k, n + 1, u)
      PROVE  Clean(t, b2, m2, u, n)
  <2>1. Only(t, k - 1, n, u)
    <3> SUFFICES ASSUME NEW i \in DOMAIN t, k - 1 < i, i < n, t[i].type = "audio"
                 PROVE  t[i].u = u
      BY DEF Only
    <3>1. i + 1 \in DOMAIN s /\ k < i + 1 /\ i + 1 < n + 1 /\ s[i + 1] = t[i]
      BY <1>1
    <3> QED
      BY <1>4, <3>1 DEF Only
  <2>2. CASE k = 1
    <3>1. Only(t, 0, n, u)
      BY <2>1, <2>2
    <3>2. b2 = {} \/ "muted" \in m2[u]
      BY <1>1, <1>4, <2>2
    <3> QED
      BY <3>1, <3>2 DEF Clean
  <2>3. CASE k # 1
    <3>1. k - 1 \in DOMAIN t /\ k - 1 < n /\ t[k - 1] = s[k]
      BY <1>1, <1>4, <2>3
    <3> QED
      BY <1>4, <2>1, <3>1 DEF Clean
  <2> QED
    BY <2>2, <2>3
<1> QED
  BY <1>2, <1>3, <1>4 DEF Clean

\* Of an utterance that ends in s, and that the first message is not the end of, nothing is
\* forgotten.
Kept(s, f2, m, m2) ==
  \A i \in DOMAIN s : Ends(s[i]) /\ (Ends(Head(s)) => s[i].u # Head(s).u)
                        => f2[s[i].u] = "sent" /\ m[s[i].u] \subseteq m2[s[i].u]

\* What e does to the buffer.
Fed(e, b, b2, m2) ==
  /\ \A v \in b2 : v \in b \/ (e.type = "audio" /\ v = e.u)
  /\ e.type = "start" => b2 = {} \/ "muted" \in m2[e.u]

LEMMA WayRead ==
  ASSUME NEW s \in Seq(Request), s # <<>>, NEW t, t = Tail(s),
         NEW f, NEW b, NEW m, NEW f2, NEW b2, NEW m2, Way(s, f, b, m),
         Kept(s, f2, m, m2), Fed(Head(s), b, b2, m2)
  PROVE  Way(t, f2, b2, m2)
<1>1. /\ 1 \in DOMAIN s /\ s[1] = Head(s)
      /\ \A i \in DOMAIN t : i \in Nat /\ i > 0 /\ i + 1 \in DOMAIN s /\ t[i] = s[i + 1]
                             /\ i + 1 # 1
  BY Popping
<1>2. ASSUME NEW i \in DOMAIN t, Ends(t[i])
      PROVE  f2[t[i].u] = "sent" /\ m[t[i].u] \subseteq m2[t[i].u]
  BY <1>1, <1>2 DEF Way, Once, Kept
<1>3. Awaited(t, f2)
  BY <1>2 DEF Awaited
<1>4. Once(t)
  <2> SUFFICES ASSUME NEW i \in DOMAIN t, NEW j \in DOMAIN t, Ends(t[i]), Ends(t[j]),
                      t[i].u = t[j].u
               PROVE  i = j
    BY DEF Once
  <2>1. i + 1 = j + 1
    BY <1>1 DEF Way, Once
  <2> QED
    BY <1>1, <2>1
<1>5. Own(t, b2, m2)
  <2> SUFFICES ASSUME NEW i \in DOMAIN t, t[i].type = "end_turn"
               PROVE  Clean(t, b2, m2, t[i].u, i)
    BY DEF Own
  <2>1. Clean(s, b, m, t[i].u, i + 1) /\ i \in Nat /\ i > 0
    BY <1>1 DEF Way, Own
  <2>2. m[t[i].u] \subseteq m2[t[i].u]
    BY <1>2 DEF Ends
  <2> DEFINE u == t[i].u
  <2>3. /\ \A v \in b2 : v \in b \/ (Head(s).type = "audio" /\ v = Head(s).u)
        /\ Head(s).type = "start" /\ Head(s).u = u => b2 = {} \/ "muted" \in m2[u]
    BY DEF Fed
  <2> HIDE DEF u
  <2>4. Clean(s, b, m, u, i + 1) /\ m[u] \subseteq m2[u]
    BY <2>1, <2>2 DEF u
  <2>5. Clean(t, b2, m2, u, i)
    BY <2>1, <2>3, <2>4, CleanRead
  <2> QED
    BY <2>5 DEF u
<1>6. Marked(t, m2)
  <2> SUFFICES ASSUME NEW i \in DOMAIN t, NEW j \in DOMAIN t,
                      Ends(t[i]), t[j].type = "cancel_task", i < j
               PROVE  "cancelled" \in m2[t[i].u]
    BY DEF Marked
  <2>1. i + 1 < j + 1 /\ i + 1 \in DOMAIN s /\ j + 1 \in DOMAIN s
        /\ t[i] = s[i + 1] /\ t[j] = s[j + 1]
    BY <1>1
  <2>2. "cancelled" \in m[t[i].u]
    BY <2>1 DEF Way, Marked
  <2> QED
    BY <1>2, <2>2
<1> QED
  BY <1>3, <1>4, <1>5, <1>6 DEF Way

\* The connection fails: the first n messages arrive.
LEMMA Cutting ==
  ASSUME NEW s \in Seq(Request), NEW n \in 0 .. Len(s), NEW t, t = SubSeq(s, 1, n)
  PROVE  /\ t \in Seq(Request) /\ DOMAIN t = 1 .. n
         /\ \A i \in DOMAIN t : i \in Nat /\ i <= n /\ i \in DOMAIN s /\ t[i] = s[i]
OBVIOUS

LEMMA WayCut ==
  ASSUME NEW s \in Seq(Request), NEW n \in 0 .. Len(s), NEW t, t = SubSeq(s, 1, n),
         NEW f, NEW b, NEW m, NEW f2, Way(s, f, b, m),
         \A i \in DOMAIN t : Ends(s[i]) => f2[s[i].u] = "sent"
  PROVE  Way(t, f2, b, m)
<1>1. \A i \in DOMAIN t : i \in Nat /\ i <= n /\ i \in DOMAIN s /\ t[i] = s[i]
  BY Cutting
<1>2. Awaited(t, f2) /\ Once(t) /\ Marked(t, m)
  BY <1>1 DEF Way, Awaited, Once, Marked
<1>3. Own(t, b, m)
  <2> SUFFICES ASSUME NEW i \in DOMAIN t, t[i].type = "end_turn"
               PROVE  Clean(t, b, m, t[i].u, i)
    BY DEF Own
  <2>1. Clean(s, b, m, t[i].u, i)
    BY <1>1 DEF Way, Own
  <2>2. ASSUME NEW k, Only(s, k, i, t[i].u) PROVE Only(t, k, i, t[i].u)
    BY <1>1, <2>2 DEF Only
  <2>3. \A k \in DOMAIN s : k < i => k \in DOMAIN t /\ t[k] = s[k]
    BY Cutting
  <2> QED
    BY <2>1, <2>2, <2>3 DEF Clean
<1> QED
  BY <1>2, <1>3 DEF Way

-----------------------------------------------------------------------------
(* What the phone sends *)

LEMMA Opening ==
  ASSUME Inv
  PROVE  /\ up \in Seq(Request) /\ fate \in [Utterance -> Fates]
         /\ marks \in [Utterance -> SUBSET Marks] /\ turn \in Turn
         /\ mic \in 0 .. MaxUtterances /\ said \in 0 .. MaxUtterances /\ Addressed(up)
         /\ mic # 0 => mic \in Utterance /\ fate[mic] = "recording"
         /\ \A u \in Utterance : u > said => fate[u] = "unsaid"
         /\ pc # "closed" => /\ Way(up, fate, audio_buffer, marks)
                             /\ mic # 0 /\ link = "up" =>
                                  Clean(up, audio_buffer, marks, mic, Len(up) + 1)
         /\ pc # "closed" => \A i \in DOMAIN up : Ends(up[i]) => /\ up[i].u \in Utterance
                                                                /\ fate[up[i].u] = "sent"
         /\ \A i \in DOMAIN up : Ends(up[i]) => up[i].u \in Utterance
<1>1. \A i \in DOMAIN up : Ends(up[i]) => up[i].u \in Utterance
  BY DEF Inv, Core, Addressed, Ends
<1>2. TypeOK /\ Addressed(up) /\ Begun /\ OnItsWay
  BY DEF Inv, Core
<1> QED
  BY <1>1, <1>2, Numbers DEF TypeOK, Begun, OnItsWay, Way, Awaited

LEMMA SendsAddressed ==
  ASSUME Inv, NEW u \in 0 .. MaxUtterances,
         NEW type \in {"start", "audio", "end_turn", "text_input", "cancel_task",
                       "end_conversation"},
         SendUp(type, u), type \notin {"cancel_task", "end_conversation"} => u \in Utterance
  PROVE  Addressed(up')
<1> DEFINE e == [type |-> type, u |-> u]
           t == Append(up, e)
<1>1. e \in Request /\ e.type = type /\ e.u = u
  BY DEF Request
<1>2. up' = (IF link = "up" THEN t ELSE up) /\ t = Append(up, e)
  BY DEF SendUp
<1> HIDE DEF e, t
<1>3. Addressed(t)
  BY <1>1, <1>2, Opening, AddressedPost
<1> QED
  BY <1>2, <1>3, Opening

LEMMA SendsWay ==
  ASSUME Inv, UNCHANGED audio_buffer, NEW u \in 0 .. MaxUtterances,
         NEW type \in {"start", "audio", "end_turn", "text_input", "cancel_task",
                       "end_conversation"},
         SendUp(type, u),
         Way(up, fate', audio_buffer, marks'),
         type \in {"end_turn", "text_input"} /\ link = "up" =>
           fate'[u] = "sent" /\ \A i \in DOMAIN up : Ends(up[i]) => up[i].u # u,
         type = "end_turn" /\ link = "up" =>
           Clean(up, audio_buffer, marks', u, Len(up) + 1),
         type = "cancel_task" =>
           \A i \in DOMAIN up : Ends(up[i]) => "cancelled" \in marks'[up[i].u]
  PROVE  /\ Way(up', fate', audio_buffer', marks')
         /\ link = "up" =>
              /\ \A v : Clean(up, audio_buffer, marks', v, Len(up) + 1)
                        /\ (type = "audio" => u = v)
                          => Clean(up', audio_buffer', marks', v, Len(up') + 1)
              /\ type = "start" => Clean(up', audio_buffer', marks', u, Len(up') + 1)
<1> DEFINE e == [type |-> type, u |-> u]
           t == Append(up, e)
<1>1. e \in Request /\ e.type = type /\ e.u = u
  BY DEF Request
<1>2. up' = (IF link = "up" THEN t ELSE up) /\ t = Append(up, e)
  BY DEF SendUp
<1>3. up \in Seq(Request)
  BY Opening
<1> HIDE DEF e, t
<1>4. CASE link = "up"
  <2>1. Way(t, fate', audio_buffer, marks')
    BY <1>1, <1>2, <1>3, <1>4, WayPost DEF Ends
  <2>2. ASSUME NEW v, Clean(up, audio_buffer, marks', v, Len(up) + 1), type = "audio" => u = v
        PROVE  Clean(t, audio_buffer, marks', v, Len(t) + 1)
    BY <1>1, <1>2, <1>3, <2>2, CleanBeyond
  <2>3. type = "start" => Clean(t, audio_buffer, marks', u, Len(t) + 1)
    BY <1>1, <1>2, <1>3, CleanStart
  <2>4. up' = t
    BY <1>2, <1>4
  <2> QED
    BY <2>1, <2>2, <2>3, <2>4
<1>5. CASE link # "up"
  BY <1>2, <1>5
<1> QED
  BY <1>4, <1>5

\* Nothing is known less of the messages for what the phone does to its own utterances.
LEMMA PhoneKeeps ==
  ASSUME Inv, pc # "closed",
         \A v \in Utterance : /\ fate[v] = "sent" => fate'[v] = "sent"
                              /\ marks[v] \subseteq marks'[v]
  PROVE  /\ Way(up, fate', audio_buffer, marks')
         /\ mic # 0 /\ link = "up" => Clean(up, audio_buffer, marks', mic, Len(up) + 1)
<1>1. Way(up, fate', audio_buffer, marks')
  BY Opening, WayKept
<1>2. mic # 0 /\ link = "up" => Clean(up, audio_buffer, marks', mic, Len(up) + 1)
  BY Opening, CleanKept
<1> QED
  BY <1>1, <1>2

\* What the phone does to what became of an utterance, and to what happened to it.
LEMMA PhoneFates ==
  ASSUME Inv, User \/ Handle, NEW v \in Utterance
  PROVE  /\ fate[v] \in {"sent", "taken"} => fate'[v] = fate[v]
         /\ marks[v] \subseteq marks'[v]
         /\ sendCancelTask \/ Intercept =>
              (fate[v] \in {"sent", "taken"} => "cancelled" \in marks'[v])
<1>1. /\ fate \in [Utterance -> Fates] /\ marks \in [Utterance -> SUBSET Marks]
      /\ mic # 0 => mic \in Utterance /\ fate[mic] = "recording"
      /\ \A u \in Utterance : u > said => fate[u] = "unsaid"
      /\ said \in 0 .. MaxUtterances
  BY Opening
<1>2. said + 1 \in Utterance => fate[said + 1] = "unsaid"
  BY <1>1, Numbers
<1>3. startCapture => said + 1 \in Utterance
  BY <1>1, Numbers DEF startCapture, Utterance
<1>4. sendTextCommand => said + 1 \in Utterance
  BY Numbers DEF sendTextCommand
<1>5. \/ UNCHANGED fate
      \/ \E x : fate' = [fate EXCEPT ![mic] = x] /\ mic # 0
      \/ \E x : fate' = [fate EXCEPT ![said + 1] = x] /\ said + 1 \in Utterance
  BY <1>3, <1>4 DEF User, Handle, startCapture, streamAudioWithVAD, stopCapture, cancelCapture,
       Dismiss, sendTextCommand, sendCancelTask, endConversation, hideOverlay, HandleRecording,
       HandleTranscript, Intercept, HandleResponse, HandleError, SpeechEnds, Sent, history
<1>6. fate[v] \in {"sent", "taken"} => fate'[v] = fate[v]
  BY <1>1, <1>2, <1>5
<1>7. CASE sendCancelTask
  <2>1. marks' = [u \in Utterance |-> IF u \in Pending THEN marks[u] \cup {"cancelled"}
                                                       ELSE marks[u]]
    BY <1>7 DEF sendCancelTask, Mark
  <2> QED
    BY <1>6, <2>1 DEF Pending
<1>8. CASE Intercept
  <2>1. marks' = [u \in Utterance |->
                    IF u \notin Pending THEN marks[u]
                    ELSE marks[u] \cup {"cancelled"} \cup
                         (IF u \in Head(down).heard THEN {"local"} ELSE {})]
    BY <1>8 DEF Intercept
  <2> QED
    BY <1>6, <2>1 DEF Pending
<1>9. CASE ~sendCancelTask /\ ~Intercept
  <2>1. UNCHANGED marks
    BY <1>9 DEF User, Handle, startCapture, streamAudioWithVAD, stopCapture, cancelCapture,
         Dismiss, sendTextCommand, endConversation, hideOverlay, HandleRecording,
         HandleTranscript, HandleResponse, HandleError, SpeechEnds, history
  <2> QED
    BY <1>6, <1>9, <2>1
<1> QED
  BY <1>7, <1>8, <1>9

-----------------------------------------------------------------------------
(* The phone's steps *)

LEMMA PhoneLeaves ==
  ASSUME User \/ Handle
  PROVE  UNCHANGED <<pc, audio_buffer, turn, reader, progress, task>>
BY DEF User, Handle, startCapture, streamAudioWithVAD, stopCapture, cancelCapture,
       Dismiss, sendTextCommand, sendCancelTask, endConversation, hideOverlay, HandleRecording,
       HandleTranscript, Intercept, HandleResponse, HandleError, SpeechEnds, server

LEMMA PhoneAddressed ==
  ASSUME Inv, User \/ Handle
  PROVE  Addressed(up')
<1>1. CASE startCapture
  <2>1. said + 1 \in Utterance
    BY <1>1, Opening, Numbers DEF startCapture, Utterance
  <2> QED
    BY <1>1, <2>1, Numbers, SendsAddressed DEF startCapture
<1>2. CASE streamAudioWithVAD
  BY <1>2, Opening, SendsAddressed DEF streamAudioWithVAD
<1>3. CASE stopCapture
  BY <1>3, Opening, SendsAddressed DEF stopCapture
<1>4. CASE sendTextCommand
  <2>1. said + 1 \in Utterance
    BY <1>4, Numbers DEF sendTextCommand
  <2> QED
    BY <1>4, <2>1, Numbers, SendsAddressed DEF sendTextCommand
<1>5. CASE sendCancelTask \/ Intercept
  BY <1>5, Numbers, SendsAddressed DEF sendCancelTask, Intercept
<1>6. CASE endConversation
  BY <1>6, Numbers, SendsAddressed DEF endConversation
<1>7. cancelCapture \/ Dismiss \/ hideOverlay \/ HandleRecording \/ HandleTranscript
      \/ HandleResponse \/ HandleError \/ SpeechEnds => UNCHANGED up
  BY DEF cancelCapture, Dismiss, hideOverlay, HandleRecording, HandleTranscript, HandleResponse,
         HandleError, SpeechEnds
<1> QED
  BY <1>1, <1>2, <1>3, <1>4, <1>5, <1>6, <1>7, Opening DEF User, Handle

LEMMA PhoneBegun ==
  ASSUME Inv, User \/ Handle
  PROVE  Begun'
<1>1. /\ fate \in [Utterance -> Fates]
      /\ mic # 0 => mic \in Utterance /\ fate[mic] = "recording"
      /\ \A u \in Utterance : u > said => fate[u] = "unsaid"
      /\ said \in 0 .. MaxUtterances /\ mic \in 0 .. MaxUtterances
  BY Opening
<1>2. mic # 0 => mic <= said
  BY <1>1, Numbers
<1>3. CASE startCapture
  <2>1. /\ said' = said + 1 /\ mic' = said + 1 /\ fate' = [fate EXCEPT ![said + 1] = "recording"]
        /\ said + 1 \in Utterance
    BY <1>1, <1>3, Numbers DEF startCapture, Utterance
  <2>2. \A u \in Utterance : u > said + 1 => u # said + 1 /\ u > said
    BY <1>1, Numbers
  <2> QED
    BY <1>1, <2>1, <2>2 DEF Begun
<1>4. CASE stopCapture \/ cancelCapture
  <2>1. /\ mic # 0 /\ mic' = 0 /\ UNCHANGED said
        /\ \E x : fate' = [fate EXCEPT ![mic] = x]
    BY <1>4 DEF stopCapture, cancelCapture, Sent
  <2>2. \A u \in Utterance : u > said => u # mic
    BY <1>1, <1>2, <2>1, Numbers
  <2> QED
    BY <1>1, <2>1, <2>2 DEF Begun
<1>5. CASE sendTextCommand
  <2>1. /\ said' = said + 1 /\ UNCHANGED mic /\ said + 1 \in Utterance
        /\ \E x : fate' = [fate EXCEPT ![said + 1] = x]
    BY <1>5, Numbers DEF sendTextCommand, Sent
  <2>2. \A u \in Utterance : u > said + 1 => u # said + 1 /\ u > said
    BY <1>1, Numbers
  <2>3. mic # 0 => mic # said + 1
    BY <1>1, <1>2
  <2> QED
    BY <1>1, <2>1, <2>2, <2>3 DEF Begun
<1>6. streamAudioWithVAD \/ Dismiss \/ sendCancelTask \/ endConversation \/ Handle
        => UNCHANGED <<mic, said, fate>>
  BY DEF streamAudioWithVAD, Dismiss, sendCancelTask, endConversation, Handle, HandleRecording,
         HandleTranscript, Intercept, HandleResponse, HandleError, SpeechEnds, history, phone
<1>7. CASE hideOverlay
  <2>1. /\ mic' = 0 /\ UNCHANGED said
        /\ fate' = IF mic = 0 THEN fate ELSE [fate EXCEPT ![mic] = "withdrawn"]
    BY <1>7 DEF hideOverlay
  <2>2. mic # 0 => \A u \in Utterance : u > said => u # mic
    BY <1>1, <1>2, Numbers
  <2> QED
    BY <1>1, <2>1, <2>2 DEF Begun
<1> QED
  BY <1>1, <1>3, <1>4, <1>5, <1>6, <1>7 DEF User, Begun

LEMMA PhoneOnItsWay ==
  ASSUME Inv, User \/ Handle
  PROVE  OnItsWay'
<1> SUFFICES ASSUME pc # "closed"
             PROVE  /\ Way(up', fate', audio_buffer', marks')
                    /\ mic' # 0 /\ link' = "up" =>
                         Clean(up', audio_buffer', marks', mic', Len(up') + 1)
  BY PhoneLeaves DEF OnItsWay, Way
<1>1. UNCHANGED audio_buffer
  BY PhoneLeaves
<1>2. /\ Way(up, fate', audio_buffer, marks')
      /\ mic # 0 /\ link = "up" => Clean(up, audio_buffer, marks', mic, Len(up) + 1)
  BY PhoneFates, PhoneKeeps
<1>3. /\ fate \in [Utterance -> Fates]
      /\ mic # 0 => mic \in Utterance /\ fate[mic] = "recording"
      /\ \A u \in Utterance : u > said => fate[u] = "unsaid"
      /\ said \in 0 .. MaxUtterances /\ mic \in 0 .. MaxUtterances
      /\ \A i \in DOMAIN up : Ends(up[i]) => up[i].u \in Utterance /\ fate[up[i].u] = "sent"
      /\ mic # 0 /\ link = "up" => Clean(up, audio_buffer, marks, mic, Len(up) + 1)
  BY Opening
<1>4. CASE startCapture
  <2>1. said + 1 \in 0 .. MaxUtterances /\ SendUp("start", said + 1) /\ mic' = said + 1
        /\ UNCHANGED link
    BY <1>3, <1>4, Numbers DEF startCapture
  <2> QED
    BY <1>1, <1>2, <2>1, SendsWay
<1>5. CASE streamAudioWithVAD
  <2>1. SendUp("audio", mic) /\ UNCHANGED <<mic, link>> /\ mic # 0
    BY <1>5 DEF streamAudioWithVAD
  <2> QED
    BY <1>1, <1>2, <1>3, <2>1, SendsWay
<1>6. CASE stopCapture
  <2>1. SendUp("end_turn", mic) /\ mic' = 0 /\ mic # 0 /\ Sent(mic)
    BY <1>6 DEF stopCapture
  <2>2. link = "up" => fate'[mic] = "sent"
    BY <1>3, <2>1 DEF Sent
  <2>3. \A i \in DOMAIN up : Ends(up[i]) => up[i].u # mic
    BY <1>3, <2>1
  <2>4. Way(up', fate', audio_buffer', marks')
    BY <1>1, <1>2, <1>3, <2>1, <2>2, <2>3, SendsWay
  <2> QED
    BY <2>1, <2>4
<1>7. CASE sendTextCommand
  <2>1. SendUp("text_input", said + 1) /\ UNCHANGED <<mic, link>> /\ Sent(said + 1)
        /\ said + 1 \in Utterance /\ said + 1 \in 0 .. MaxUtterances
    BY <1>7, Numbers DEF sendTextCommand
  <2>2. link = "up" => fate'[said + 1] = "sent"
    BY <1>3, <2>1 DEF Sent
  <2>3. fate[said + 1] = "unsaid"
    BY <1>3, <2>1
  <2>4. \A i \in DOMAIN up : Ends(up[i]) => up[i].u # said + 1
    BY <1>3, <2>3
  <2> QED
    BY <1>1, <1>2, <2>1, <2>2, <2>4, SendsWay
<1>8. CASE sendCancelTask \/ Intercept
  <2>1. SendUp("cancel_task", 0) /\ UNCHANGED <<mic, link>>
    BY <1>8 DEF sendCancelTask, Intercept
  <2>2. \A i \in DOMAIN up : Ends(up[i]) => "cancelled" \in marks'[up[i].u]
    BY <1>3, <1>8, PhoneFates
  <2> QED
    BY <1>1, <1>2, <2>1, <2>2, Numbers, SendsWay
<1>9. CASE endConversation
  <2>1. SendUp("end_conversation", 0) /\ UNCHANGED mic /\ mic = 0
    BY <1>9 DEF endConversation
  <2>2. Way(up', fate', audio_buffer', marks')
    BY <1>1, <1>2, <2>1, Numbers, SendsWay
  <2> QED
    BY <2>1, <2>2
<1>10. CASE cancelCapture \/ hideOverlay
  <2>1. mic' = 0 /\ UNCHANGED up
    BY <1>10 DEF cancelCapture, hideOverlay
  <2> QED
    BY <1>1, <1>2, <2>1
<1>11. CASE Dismiss \/ HandleRecording \/ HandleTranscript \/ HandleResponse \/ HandleError
            \/ SpeechEnds
  <2>1. UNCHANGED <<up, mic, link>>
    BY <1>11 DEF Dismiss, HandleRecording, HandleTranscript, HandleResponse, HandleError,
                 SpeechEnds, phone
  <2> QED
    BY <1>1, <1>2, <2>1
<1> QED
  BY <1>4, <1>5, <1>6, <1>7, <1>8, <1>9, <1>10, <1>11 DEF User, Handle

\* A cancel gets under way only as its utterances are marked.
LEMMA SendsStop ==
  ASSUME Inv, NEW u \in 0 .. MaxUtterances,
         NEW type \in {"start", "audio", "end_turn", "text_input", "end_conversation"},
         SendUp(type, u), Stops(up')
  PROVE  Stops(up)
<1> DEFINE e == [type |-> type, u |-> u]
           t == Append(up, e)
<1>1. e \in Request /\ e.type # "cancel_task"
  BY DEF Request
<1>2. up' = (IF link = "up" THEN t ELSE up) /\ t = Append(up, e)
  BY DEF SendUp
<1> HIDE DEF e, t
<1>3. \A i \in DOMAIN t : (i \in DOMAIN up /\ t[i] = up[i]) \/ t[i] = e
  BY <1>1, <1>2, Opening, Posting
<1>4. Stops(t) => Stops(up)
  BY <1>1, <1>3 DEF Stops
<1> QED
  BY <1>2, <1>4

LEMMA PhoneStops ==
  ASSUME Inv, User \/ Handle, Stops(up')
  PROVE  Stops(up) \/ sendCancelTask \/ Intercept
<1>1. CASE startCapture
  <2>1. said + 1 \in 0 .. MaxUtterances
    BY <1>1, Opening, Numbers DEF startCapture, Utterance
  <2> QED
    BY <1>1, <2>1, SendsStop DEF startCapture
<1>2. CASE streamAudioWithVAD
  BY <1>2, Opening, SendsStop DEF streamAudioWithVAD
<1>3. CASE stopCapture
  BY <1>3, Opening, SendsStop DEF stopCapture
<1>4. CASE sendTextCommand
  <2>1. said + 1 \in 0 .. MaxUtterances
    BY <1>4, Numbers DEF sendTextCommand
  <2> QED
    BY <1>4, <2>1, SendsStop DEF sendTextCommand
<1>5. CASE endConversation
  BY <1>5, Numbers, SendsStop DEF endConversation
<1>6. cancelCapture \/ Dismiss \/ hideOverlay \/ HandleRecording \/ HandleTranscript
      \/ HandleResponse \/ HandleError \/ SpeechEnds => UNCHANGED up
  BY DEF cancelCapture, Dismiss, hideOverlay, HandleRecording, HandleTranscript, HandleResponse,
         HandleError, SpeechEnds
<1> QED
  BY <1>1, <1>2, <1>3, <1>4, <1>5, <1>6 DEF User, Handle

\* The turn at work stays at work, with what was marked.
LEMMA TurnKept ==
  ASSUME Inv, UNCHANGED <<pc, turn, reader, progress, task>>,
         \A v \in Utterance : /\ fate[v] = "taken" => fate'[v] = "taken"
                              /\ marks[v] \subseteq marks'[v]
                              /\ Stops(up') /\ fate[v] = "taken" =>
                                   Stops(up) \/ "cancelled" \in marks'[v]
  PROVE  AtWork' /\ EachItsOwn'
<1>1. AtWork /\ OwnAudio /\ CancelsItsOwn
  BY DEF Inv, Core, EachItsOwn
<1>2. AtWork'
  BY <1>1 DEF AtWork
<1>3. OwnAudio'
  BY <1>1, NoTurnTypes DEF AtWork, OwnAudio
<1>4. CancelsItsOwn'
  BY <1>1 DEF AtWork, CancelsItsOwn, is_cancelled, Busy
<1> QED
  BY <1>2, <1>3, <1>4 DEF EachItsOwn

LEMMA PhoneTurn ==
  ASSUME Inv, User \/ Handle
  PROVE  AtWork' /\ EachItsOwn'
<1>1. UNCHANGED <<pc, turn, reader, progress, task>>
  BY PhoneLeaves
<1>2. \A v \in Utterance : /\ fate[v] = "taken" => fate'[v] = "taken"
                           /\ marks[v] \subseteq marks'[v]
                           /\ Stops(up') /\ fate[v] = "taken" =>
                                Stops(up) \/ "cancelled" \in marks'[v]
  BY PhoneFates, PhoneStops
<1> QED
  BY <1>1, <1>2, TurnKept

LEMMA PhoneWaits ==
  ASSUME Inv, User \/ Handle
  PROVE  Waits' /\ ThinkingIsExplained'
<1>1. CASE phase' # "THINKING"
  BY <1>1 DEF Waits, ThinkingIsExplained
<1>2. CASE stopCapture \/ sendTextCommand
  <2>1. PICK u \in Utterance : Sent(u)
    BY <1>2, Opening, Numbers DEF stopCapture, sendTextCommand
  <2>2. UNCHANGED link
    BY <1>2 DEF stopCapture, sendTextCommand
  <2>3. last' = u /\ fate'[u] = (IF link = "up" THEN "sent" ELSE "lost")
    BY <2>1, Opening DEF Sent
  <2> QED
    BY <2>2, <2>3 DEF Waits, ThinkingIsExplained
<1>3. CASE streamAudioWithVAD
  <2>1. UNCHANGED <<phase, link, fate, last, down>>
    BY <1>3 DEF streamAudioWithVAD, history
  <2> QED
    BY <2>1 DEF Inv, Core, Waits, ThinkingIsExplained
<1>4. CASE HandleTranscript
  <2>1. UNCHANGED <<phase, link, fate, last>> /\ down # <<>> /\ Head(down).type = "transcript"
        /\ down' = Tail(down)
    BY <1>4 DEF HandleTranscript, Message, phone, history
  <2>2. Waits'
    BY <2>1 DEF Inv, Core, Waits
  <2>3. \A i \in DOMAIN down : i # 1 => i - 1 \in DOMAIN down' /\ down'[i - 1] = down[i]
    BY <2>1 DEF Inv, TypeOK
  <2>4. 1 \in DOMAIN down => down[1] = Head(down)
    BY DEF Inv, TypeOK
  <2>5. ThinkingIsExplained'
    BY <2>1, <2>3, <2>4 DEF Inv, Core, ThinkingIsExplained
  <2> QED
    BY <2>2, <2>5
<1>5. phase' # "THINKING" \/ stopCapture \/ sendTextCommand \/ streamAudioWithVAD
      \/ HandleTranscript
  BY DEF User, Handle, startCapture, cancelCapture, Dismiss, sendCancelTask, endConversation,
         hideOverlay, HandleRecording, Intercept, HandleResponse, HandleError, SpeechEnds
<1> QED
  BY <1>1, <1>2, <1>3, <1>4, <1>5

LEMMA PhoneStep ==
  ASSUME Inv, User \/ Handle
  PROVE  Core'
BY PhoneAddressed, PhoneBegun, PhoneOnItsWay, PhoneTurn, PhoneWaits DEF Core

\* The connection fails.
LEMMA FailureStep ==
  ASSUME Inv, onFailure
  PROVE  Core'
<1>1. /\ link' = "down" /\ phase' = "ERROR" /\ UNCHANGED <<mic, said, marks>>
      /\ UNCHANGED <<pc, audio_buffer, turn, reader, progress, task>>
  BY DEF onFailure, server
<1>2. PICK n \in 0 .. Len(up) :
        /\ up' = SubSeq(up, 1, n)
        /\ fate' = [u \in Utterance |->
                      IF fate[u] = "sent" /\ \A i \in 1 .. n :
                           ~(up[i].u = u /\ up[i].type \in {"end_turn", "text_input"})
                      THEN "lost" ELSE fate[u]]
  BY DEF onFailure
<1>3. \A i \in DOMAIN up' : i \in 1 .. n /\ i \in DOMAIN up /\ up'[i] = up[i]
  BY <1>2, Opening, Cutting
<1>4. Addressed(up')
  BY <1>3, Opening DEF Addressed
<1>5. \A v \in Utterance : fate[v] # "sent" => fate'[v] = fate[v]
  BY <1>2
<1>6. Begun'
  BY <1>1, <1>5, Opening DEF Begun
<1>7. OnItsWay'
  <2> SUFFICES ASSUME pc # "closed" PROVE Way(up', fate', audio_buffer, marks)
    BY <1>1 DEF OnItsWay, Way
  <2>1. \A i \in DOMAIN up' : Ends(up[i]) => fate'[up[i].u] = "sent"
    BY <1>2, <1>3, Opening DEF Ends
  <2> QED
    BY <1>2, <2>1, Opening, WayCut
<1>8. AtWork' /\ EachItsOwn'
  <2>1. Stops(up') => Stops(up)
    BY <1>3 DEF Stops
  <2> QED
    BY <1>1, <1>5, <2>1, TurnKept
<1>9. Waits' /\ ThinkingIsExplained'
  BY <1>1 DEF Waits, ThinkingIsExplained
<1> QED
  BY <1>4, <1>6, <1>7, <1>8, <1>9 DEF Core

-----------------------------------------------------------------------------
(* The server's steps *)

LEMMA Settling ==
  ASSUME Inv, NEW u \in Utterance, NEW f, Settle(u, f)
  PROVE  /\ fate'[u] = f
         /\ \A v \in Utterance : v # u => fate'[v] = fate[v] /\ marks'[v] = marks[v]
BY Opening DEF Settle

\* The first message that is under way.
LEMMA First ==
  ASSUME Inv, up # <<>>, pc # "closed"
  PROVE  /\ Head(up).type \notin {"cancel_task", "end_conversation"} => Head(up).u \in Utterance
         /\ Ends(Head(up)) => fate[Head(up).u] = "sent"
         /\ Head(up).type = "end_turn" =>
              "muted" \in marks[Head(up).u] \/ audio_buffer \subseteq {Head(up).u}
         /\ Ends(Head(up)) /\ Stops(Tail(up)) => "cancelled" \in marks[Head(up).u]
         /\ Head(up).type = "cancel_task" => Stops(up)
         /\ Stops(Tail(up)) => Stops(up)
<1> DEFINE t == Tail(up)
<1>1. t = Tail(up)
  OBVIOUS
<1> HIDE DEF t
<1>2. /\ 1 \in DOMAIN up /\ up[1] = Head(up)
      /\ \A i \in DOMAIN t : i \in Nat /\ i > 0 /\ i + 1 \in DOMAIN up /\ t[i] = up[i + 1]
      /\ \A i \in DOMAIN up : i \in Nat /\ i > 0
  BY <1>1, Opening, Popping
<1>3. Way(up, fate, audio_buffer, marks) /\ Addressed(up)
  BY Opening
<1>4. Head(up).type \notin {"cancel_task", "end_conversation"} => Head(up).u \in Utterance
  BY <1>2, <1>3 DEF Addressed
<1>5. Ends(Head(up)) => fate[Head(up).u] = "sent"
  BY <1>2, <1>3 DEF Way, Awaited
<1>6. Head(up).type = "end_turn" =>
        "muted" \in marks[Head(up).u] \/ audio_buffer \subseteq {Head(up).u}
  <2> SUFFICES ASSUME Head(up).type = "end_turn"
               PROVE  "muted" \in marks[Head(up).u] \/ audio_buffer \subseteq {Head(up).u}
    OBVIOUS
  <2>1. Clean(up, audio_buffer, marks, up[1].u, 1)
    BY <1>2, <1>3 DEF Way, Own
  <2>2. \A k \in DOMAIN up : ~(k < 1)
    BY <1>2
  <2> QED
    BY <1>2, <2>1, <2>2 DEF Clean
<1>7. Ends(Head(up)) /\ Stops(t) => "cancelled" \in marks[Head(up).u]
  <2> SUFFICES ASSUME Ends(Head(up)), NEW i \in DOMAIN t, t[i].type = "cancel_task"
               PROVE  "cancelled" \in marks[Head(up).u]
    BY DEF Stops
  <2>1. 1 < i + 1 /\ i + 1 \in DOMAIN up /\ up[i + 1].type = "cancel_task"
    BY <1>2
  <2> QED
    BY <1>2, <1>3, <2>1 DEF Way, Marked
<1>8. (Head(up).type = "cancel_task" => Stops(up)) /\ (Stops(t) => Stops(up))
  BY <1>2 DEF Stops
<1> QED
  BY <1>1, <1>4, <1>5, <1>6, <1>7, <1>8

\* The handler reads, or what it works on is somebody's.
LEMMA Reading ==
  ASSUME Inv
  PROVE  /\ Receives => pc = "receive" /\ up # <<>> /\ up' = Tail(up) /\ turn = NoTurn
         /\ BackgroundReads => /\ pc \in {"task", "stopping"} /\ pc \in Busy
                               /\ up # <<>> /\ up' = Tail(up) /\ UNCHANGED <<pc, turn>>
         /\ pc \in Busy => turn.u \in Utterance /\ fate[turn.u] = "taken" /\ pc # "closed"
<1>1. AtWork
  BY DEF Inv, Core
<1>2. Receives => pc = "receive" /\ up # <<>> /\ up' = Tail(up)
  BY DEF Receives, ReceiveStart, ReceiveAudio, ReceiveEndTurn, ReceiveText, ReceiveCancel,
         ReceiveEnd, Receive
<1>3. BackgroundReads => reader /\ up # <<>> /\ up' = Tail(up) /\ UNCHANGED <<pc, turn>>
  BY DEF BackgroundReads, ReadCancel, ReadUtterance, ReadStart, ReadOther, Reads
<1> QED
  BY <1>1, <1>2, <1>3 DEF AtWork, Busy

\* What settles an utterance, and what does not.
LEMMA Settlements ==
  ASSUME Inv, Server
  PROVE  \/ UNCHANGED <<fate, marks>>
         \/ ReceiveEndTurn /\ Settle(Head(up).u, "silent")
         \/ (ReceiveEndTurn \/ ReceiveText) /\ Take(Head(up).u)
         \/ ReadUtterance /\ Settle(Head(up).u, "dropped")
         \/ ReadStart /\ UNCHANGED fate
              /\ marks' = [u \in Utterance |-> IF u = Head(up).u THEN marks[u] \cup {"muted"}
                                               ELSE marks[u]]
         \/ /\ pc \in Busy /\ pc' = "receive" /\ turn' = NoTurn /\ UNCHANGED up
            /\ \/ \E f \in {"silent", "refused"} : Settle(turn.u, f)
               \/ Settle(turn.u, "failed") /\ SendDown("error", turn)
               \/ Settle(turn.u, "answered") /\ SendDown("response", turn)
         \/ Lost /\ pc' = "closed" /\ UNCHANGED marks
<1>1. CASE Receives \/ BackgroundReads
  BY <1>1 DEF Receives, BackgroundReads, ReceiveStart, ReceiveAudio, ReceiveEndTurn, ReceiveText,
              ReceiveCancel, ReceiveEnd, ReadCancel, ReadUtterance, ReadStart, ReadOther,
              Mark, history, Take
<1>2. CASE Transcribe \/ Raise \/ Chat \/ RespondToTask \/ Refuse
  BY <1>2 DEF Transcribe, Raise, Chat, RespondToTask, Refuse, Respond, Busy
<1>3. CASE Disconnect
  BY <1>3 DEF Disconnect
<1>4. Classify \/ BeginTask \/ EndTask \/ ReaderStops \/ Plan \/ Act => UNCHANGED <<fate, marks>>
  BY DEF Classify, BeginTask, EndTask, ReaderStops, Plan, Act, history
<1> QED
  BY <1>1, <1>2, <1>3, <1>4 DEF Server, Serve, Receives, BackgroundReads

\* What the server does to what became of an utterance.
LEMMA ServerFates ==
  ASSUME Inv, Server, NEW v \in Utterance
  PROVE  /\ \/ fate'[v] = fate[v]
            \/ /\ fate[v] \in {"sent", "taken"}
               /\ \/ fate'[v] \in {"taken", "silent", "refused", "dropped", "lost"}
                  \/ /\ fate'[v] \in {"answered", "failed"} /\ v = turn.u
                     /\ SendDown("error", turn) \/ SendDown("response", turn)
         /\ fate[v] \notin {"sent", "taken"} => marks[v] \subseteq marks'[v]
<1>1. CASE UNCHANGED <<fate, marks>>
  BY <1>1
<1>2. CASE ReceiveEndTurn /\ Settle(Head(up).u, "silent")
  <2>1. Head(up).u \in Utterance /\ fate[Head(up).u] = "sent"
    BY <1>2, First, Reading DEF ReceiveEndTurn, Receive, Ends, Receives
  <2> QED
    BY <1>2, <2>1, Settling
<1>3. CASE (ReceiveEndTurn \/ ReceiveText) /\ Take(Head(up).u)
  <2>1. Head(up).u \in Utterance /\ fate[Head(up).u] = "sent"
    BY <1>3, First, Reading DEF ReceiveEndTurn, ReceiveText, Receive, Ends, Receives
  <2> QED
    BY <1>3, <2>1, Opening DEF Take
<1>4. CASE ReadUtterance /\ Settle(Head(up).u, "dropped")
  <2>1. Head(up).u \in Utterance /\ fate[Head(up).u] = "sent"
    BY <1>4, First, Reading DEF ReadUtterance, Reads, Ends, BackgroundReads
  <2> QED
    BY <1>4, <2>1, Settling
<1>5. ASSUME UNCHANGED fate,
             marks' = [u \in Utterance |-> IF u = Head(up).u THEN marks[u] \cup {"muted"}
                                           ELSE marks[u]]
      PROVE  fate'[v] = fate[v] /\ marks[v] \subseteq marks'[v]
  BY <1>5
<1>6. CASE /\ pc \in Busy
           /\ \/ \E f \in {"silent", "refused"} : Settle(turn.u, f)
              \/ Settle(turn.u, "failed") /\ SendDown("error", turn)
              \/ Settle(turn.u, "answered") /\ SendDown("response", turn)
  <2>1. turn.u \in Utterance /\ fate[turn.u] = "taken"
    BY <1>6, Reading
  <2> QED
    BY <1>6, <2>1, Settling
<1>7. CASE Lost /\ UNCHANGED marks
  BY <1>7 DEF Lost, Pending
<1> QED
  BY <1>1, <1>2, <1>3, <1>4, <1>5, <1>6, <1>7, Settlements

\* While the handler works, the marks of what it does not settle are kept.
LEMMA ServerMarks ==
  ASSUME Inv, Server, NEW v \in Utterance,
         v # turn.u \/ turn' # NoTurn,
         v # Head(up).u \/ ~(ReceiveEndTurn \/ ReadUtterance)
  PROVE  marks[v] \subseteq marks'[v]
<1>1. CASE ReceiveEndTurn /\ Settle(Head(up).u, "silent")
  <2>1. Head(up).u \in Utterance
    BY <1>1, First, Reading DEF ReceiveEndTurn, Receive, Receives
  <2> QED
    BY <1>1, <2>1, Settling
<1>2. CASE ReadUtterance /\ Settle(Head(up).u, "dropped")
  <2>1. Head(up).u \in Utterance
    BY <1>2, First, Reading DEF ReadUtterance, Reads, BackgroundReads
  <2> QED
    BY <1>2, <2>1, Settling
<1>3. CASE pc \in Busy /\ turn' = NoTurn /\ \E f : Settle(turn.u, f)
  BY <1>3, Reading, Settling
<1>4. CASE marks' = [u \in Utterance |-> IF u = Head(up).u THEN marks[u] \cup {"muted"}
                                         ELSE marks[u]]
  BY <1>4
<1>5. CASE UNCHANGED marks
  BY <1>5
<1> QED
  BY <1>1, <1>2, <1>3, <1>4, <1>5, Settlements DEF Take

LEMMA ServerAddressed ==
  ASSUME Inv, Server
  PROVE  Addressed(up')
<1>1. CASE UNCHANGED up
  BY <1>1, Opening
<1>2. CASE up # <<>> /\ up' = Tail(up)
  BY <1>2, Opening, Popping DEF Addressed
<1> QED
  BY <1>1, <1>2, ServerReads DEF Inv

LEMMA ServerBegun ==
  ASSUME Inv, Server
  PROVE  Begun'
<1>1. UNCHANGED <<mic, said>>
  BY ServerLeaves DEF phone
<1>2. \A v \in Utterance : fate[v] \in {"recording", "unsaid"} => fate'[v] = fate[v]
  BY ServerFates
<1> QED
  BY <1>1, <1>2, Opening DEF Begun

\* What is at the head of the queue when it is read, and what becomes of the buffer.
LEMMA Buffering ==
  ASSUME Inv, Receives \/ BackgroundReads, pc' # "closed"
  PROVE  /\ \A v \in audio_buffer' : \/ v \in audio_buffer
                                     \/ Head(up).type = "audio" /\ v = Head(up).u
         /\ Head(up).type = "start" => audio_buffer' = {} \/ "muted" \in marks'[Head(up).u]
         /\ ReceiveEndTurn \/ ReceiveText \/ ReadUtterance => Ends(Head(up))
<1>1. CASE ReadStart
  <2>1. Head(up).u \in Utterance
    BY <1>1, First, Reading DEF ReadStart, Reads, BackgroundReads
  <2>2. Head(up).type = "start" /\ UNCHANGED audio_buffer
    BY <1>1 DEF ReadStart, Reads
  <2>3. "muted" \in marks'[Head(up).u]
    BY <1>1, <2>1 DEF ReadStart, Mark
  <2> QED
    BY <2>2, <2>3 DEF ReceiveEndTurn, ReceiveText, ReadUtterance, Receive, Reads
<1>2. CASE ReceiveAudio
  <2>1. Head(up).type = "audio" /\ audio_buffer' \subseteq audio_buffer \cup {Head(up).u}
    BY <1>2 DEF ReceiveAudio, Receive
  <2> QED
    BY <2>1 DEF ReceiveEndTurn, ReceiveText, ReadUtterance, Receive, Reads
<1>3. CASE ReceiveStart \/ ReceiveEndTurn
  <2>1. audio_buffer' = {}
    BY <1>3 DEF ReceiveStart, ReceiveEndTurn
  <2> QED
    BY <2>1 DEF ReceiveEndTurn, ReceiveText, ReadUtterance, Receive, Reads, Ends
<1>4. CASE ReceiveText \/ ReceiveCancel \/ ReadCancel \/ ReadUtterance \/ ReadOther
  <2>1. UNCHANGED audio_buffer /\ Head(up).type # "start"
    BY <1>4 DEF ReceiveText, ReceiveCancel, ReadCancel, ReadUtterance, ReadOther, Receive, Reads,
                server
  <2> QED
    BY <2>1 DEF ReceiveEndTurn, ReceiveText, ReadUtterance, Receive, Reads, Ends
<1> QED
  BY <1>1, <1>2, <1>3, <1>4 DEF Receives, BackgroundReads, ReceiveEnd

LEMMA ServerOnItsWay ==
  ASSUME Inv, Server
  PROVE  OnItsWay'
<1> SUFFICES ASSUME pc' # "closed"
             PROVE  /\ Way(up', fate', audio_buffer', marks')
                    /\ mic' # 0 /\ link' = "up" =>
                         Clean(up', audio_buffer', marks', mic', Len(up') + 1)
  BY DEF OnItsWay, Way
<1>1. UNCHANGED <<mic, link>>
  BY ServerLeaves DEF phone
<1>2. ASSUME NEW v \in Utterance, fate[v] \notin {"sent", "taken"}
      PROVE  marks[v] \subseteq marks'[v]
  BY <1>2, ServerFates
<1>3. CASE Receives \/ BackgroundReads
  <2>1. pc # "closed" /\ up # <<>> /\ up' = Tail(up)
    BY <1>3, Reading
  <2>2. /\ \A v \in audio_buffer' : \/ v \in audio_buffer
                                    \/ Head(up).type = "audio" /\ v = Head(up).u
        /\ Head(up).type = "start" => audio_buffer' = {} \/ "muted" \in marks'[Head(up).u]
        /\ ReceiveEndTurn \/ ReceiveText \/ ReadUtterance => Ends(Head(up))
    BY <1>3, Buffering
  <2>3. ASSUME NEW v \in Utterance, fate[v] = "sent", Ends(Head(up)) => v # Head(up).u
        PROVE  fate'[v] = "sent" /\ marks[v] \subseteq marks'[v]
    <3>1. CASE UNCHANGED <<fate, marks>>
      BY <2>3, <3>1
    <3>2. CASE (ReceiveEndTurn \/ ReadUtterance) /\ \E f : Settle(Head(up).u, f)
      <4>1. Head(up).u \in Utterance
        BY <2>1, <2>2, <3>2, First DEF Ends
      <4> QED
        BY <2>2, <2>3, <3>2, <4>1, Settling
    <3>3. CASE (ReceiveEndTurn \/ ReceiveText) /\ Take(Head(up).u)
      BY <2>2, <2>3, <3>3, Opening DEF Take
    <3>4. CASE /\ UNCHANGED fate
               /\ marks' = [u \in Utterance |-> IF u = Head(up).u THEN marks[u] \cup {"muted"}
                                                ELSE marks[u]]
      BY <2>3, <3>4
    <3>5. up' # up
      BY <2>1, Opening
    <3> QED
      BY <3>1, <3>2, <3>3, <3>4, <3>5, Settlements
  <2>4. Way(up', fate', audio_buffer', marks')
    <3>1. \A i \in DOMAIN up : Ends(up[i]) /\ (Ends(Head(up)) => up[i].u # Head(up).u)
                                 => fate'[up[i].u] = "sent" /\ marks[up[i].u] \subseteq marks'[up[i].u]
      BY <2>1, <2>3, Opening
    <3>2. up \in Seq(Request) /\ Way(up, fate, audio_buffer, marks)
      BY <2>1, Opening
    <3>3. Kept(up, fate', marks, marks')
      BY <3>1 DEF Kept
    <3>4. Fed(Head(up), audio_buffer, audio_buffer', marks')
      BY <2>2 DEF Fed
    <3> QED
      BY <2>1, <3>2, <3>3, <3>4, WayRead
  <2>5. ASSUME mic # 0, link = "up"
        PROVE  Clean(up', audio_buffer', marks', mic, Len(up') + 1)
    <3>1. mic \in Utterance /\ fate[mic] = "recording"
      BY <2>5, Opening
    <3>2. marks[mic] \subseteq marks'[mic]
      BY <1>2, <3>1
    <3>3. Len(up) = Len(up') + 1 /\ Len(up') \in Nat
      BY <2>1, Opening, Popping
    <3>4. Clean(up, audio_buffer, marks, mic, (Len(up') + 1) + 1)
      BY <2>1, <2>5, <3>3, Opening
    <3>5. Head(up).type = "start" /\ Head(up).u = mic => audio_buffer' = {} \/ "muted" \in marks'[mic]
      BY <2>2
    <3> DEFINE n == Len(up') + 1
    <3>6. n \in Nat /\ n > 0
      BY <3>3
    <3>7. Clean(up, audio_buffer, marks, mic, n + 1)
      BY <3>4
    <3> HIDE DEF n
    <3>8. Clean(up', audio_buffer', marks', mic, n)
      BY <2>1, <2>2, <3>2, <3>5, <3>6, <3>7, Opening, CleanRead
    <3> QED
      BY <3>8 DEF n
  <2> QED
    BY <1>1, <2>4, <2>5
<1>4. CASE ~Receives /\ ~BackgroundReads
  <2>1. UNCHANGED <<up, audio_buffer>> /\ pc # "closed"
    BY <1>4 DEF Server, Serve, Plan, Act, Disconnect, Transcribe, Raise, Classify, Chat,
         RespondToTask, Refuse, BeginTask, EndTask, ReaderStops, Respond, Receives,
         BackgroundReads
  <2>2. ASSUME NEW v \in Utterance, fate[v] = "sent"
        PROVE  fate'[v] = "sent" /\ marks[v] \subseteq marks'[v]
    <3>1. CASE UNCHANGED <<fate, marks>>
      BY <2>2, <3>1
    <3>2. CASE pc \in Busy /\ \E f : Settle(turn.u, f)
      BY <2>2, <3>2, Reading, Settling
    <3> QED
      BY <1>4, <3>1, <3>2, Settlements DEF Receives, BackgroundReads
  <2>3. Way(up, fate', audio_buffer, marks')
    BY <2>1, <2>2, Opening, WayKept
  <2>4. mic # 0 /\ link = "up" => Clean(up, audio_buffer, marks', mic, Len(up) + 1)
    BY <1>2, <2>1, Opening, CleanKept
  <2> QED
    BY <1>1, <2>1, <2>3, <2>4
<1> QED
  BY <1>3, <1>4

\* An utterance is taken up: with its own audio, and marked if a cancel follows.
LEMMA TakesTurn ==
  ASSUME Inv, (ReceiveEndTurn /\ pc' = "transcribe") \/ ReceiveText
  PROVE  AtWork' /\ EachItsOwn'
<1>1. /\ pc = "receive" /\ pc # "closed" /\ up # <<>> /\ up' = Tail(up) /\ Ends(Head(up))
  BY DEF ReceiveEndTurn, ReceiveText, Receive, Ends
<1>2. /\ turn'.u = Head(up).u /\ Take(Head(up).u) /\ pc' \in Busy \ {"task"} /\ UNCHANGED reader
      /\ \/ turn'.heard = {Head(up).u}
         \/ Head(up).type = "end_turn" /\ turn'.heard = audio_buffer
  BY DEF ReceiveEndTurn, ReceiveText, Receive, Busy
<1>3. Head(up).u \in Utterance
  BY <1>1, First DEF Ends
<1>4. fate'[turn'.u] = "taken" /\ UNCHANGED marks
  BY <1>2, <1>3, Opening DEF Take
<1>5. Stops(up') => "cancelled" \in marks'[turn'.u]
  BY <1>1, <1>2, <1>4, First
<1>6. ~reader
  BY <1>1 DEF Inv, Core, AtWork
<1>7. AtWork'
  BY <1>2, <1>3, <1>4, <1>5, <1>6 DEF AtWork, Busy
<1>8. OwnAudio'
  BY <1>1, <1>2, <1>4, First DEF OwnAudio
<1>9. CancelsItsOwn'
  BY <1>2 DEF CancelsItsOwn
<1> QED
  BY <1>7, <1>8, <1>9 DEF EachItsOwn

\* The handler works on, or the background reader reads for it.
LEMMA WorksOn ==
  ASSUME Inv, Server, pc \in Busy, pc' \in Busy
  PROVE  AtWork' /\ EachItsOwn'
<1>1. /\ pc # "receive" /\ pc # "closed" /\ pc' # "receive" /\ pc' # "closed"
      /\ turn.u \in Utterance /\ fate[turn.u] = "taken" /\ turn.u # 0
  BY Reading, Numbers DEF Busy
<1>2. UNCHANGED turn
  BY <1>1 DEF Server, Serve, Plan, Act, ReceiveStart, ReceiveAudio, ReceiveEndTurn, ReceiveText,
       ReceiveCancel, ReceiveEnd, Receive, Disconnect, Transcribe, Raise, Classify, Chat,
       RespondToTask, Refuse, BeginTask, EndTask, ReadCancel, ReadUtterance, ReadStart, ReadOther,
       ReaderStops, Respond, Reads, server
<1>3. ~Receives
  BY <1>1, Reading
<1>4. turn' # NoTurn
  BY <1>1, <1>2, NoTurnTypes
<1>5. ReadUtterance => Head(up).u # turn.u
  BY <1>1, First DEF ReadUtterance, Reads, Ends
<1>6. fate'[turn.u] = "taken"
  <2>1. CASE ReadUtterance /\ Settle(Head(up).u, "dropped")
    <3>1. Head(up).u \in Utterance
      BY <1>1, <2>1, First DEF ReadUtterance, Reads
    <3> QED
      BY <1>1, <1>5, <2>1, <3>1, Settling
  <2>2. CASE UNCHANGED fate
    BY <1>1, <2>2
  <2> QED
    BY <1>1, <1>3, <2>1, <2>2, Settlements DEF Receives
<1>7. marks[turn.u] \subseteq marks'[turn.u]
  BY <1>1, <1>3, <1>4, <1>5, ServerMarks DEF Receives
<1>8. Stops(up') => Stops(up)
  BY <1>1, ServerReads, First DEF Inv
<1>9. AtWork /\ OwnAudio /\ CancelsItsOwn
  BY DEF Inv, Core, EachItsOwn
<1>10. reader' => pc' \in {"task", "stopping"}
  BY <1>1, <1>3, <1>9 DEF AtWork, Server, Serve, Plan, Act, Disconnect, Transcribe, Raise, Classify, Chat,
       RespondToTask, Refuse, BeginTask, EndTask, ReadCancel, ReadUtterance, ReadStart, ReadOther,
       ReaderStops, Respond, Reads, Receives
<1>11. AtWork'
  BY <1>1, <1>2, <1>6, <1>7, <1>8, <1>9, <1>10 DEF AtWork
<1>12. OwnAudio'
  BY <1>2, <1>7, <1>9 DEF OwnAudio
<1>13. CancelsItsOwn'
  <2>1. CASE Plan
    BY <2>1 DEF Plan, start_task, NewTask, CancelsItsOwn, is_cancelled
  <2>2. CASE ReadCancel
    <3>1. Stops(up)
      BY <1>1, <2>2, First DEF ReadCancel, Reads
    <3>2. "cancelled" \in marks[turn.u]
      BY <1>9, <3>1 DEF AtWork
    <3> QED
      BY <1>2, <1>7, <3>2 DEF CancelsItsOwn
  <2>3. CASE Act
    BY <2>3 DEF Act, CancelsItsOwn, is_cancelled
  <2>4. CASE Transcribe \/ Raise \/ Classify \/ Chat \/ RespondToTask \/ Refuse \/ EndTask
             \/ BeginTask
    BY <2>4 DEF Transcribe, Raise, Classify, Chat, RespondToTask, Refuse, EndTask, BeginTask,
                Respond, CancelsItsOwn
  <2>5. CASE ReadUtterance \/ ReadStart \/ ReadOther \/ ReaderStops
    <3>1. UNCHANGED <<pc, progress, task>>
      BY <2>5 DEF ReadUtterance, ReadStart, ReadOther, ReaderStops, Reads
    <3> QED
      BY <1>2, <1>7, <1>9, <3>1 DEF CancelsItsOwn, is_cancelled
  <2>6. ~Disconnect
    BY <1>1 DEF Disconnect
  <2> QED
    BY <1>3, <2>1, <2>2, <2>3, <2>4, <2>5, <2>6 DEF Server, Serve, Receives
<1> QED
  BY <1>11, <1>12, <1>13 DEF EachItsOwn

\* A turn is over, or the handler goes on reading without one, or it stops.
LEMMA TurnEnds ==
  ASSUME Inv, Server, pc' \in {"receive", "closed"}
  PROVE  AtWork' /\ EachItsOwn'
<1>1. AtWork /\ OwnAudio
  BY DEF Inv, Core, EachItsOwn
<1>2. ~reader'
  <2>1. CASE ReceiveStart \/ ReceiveAudio \/ ReceiveEndTurn \/ ReceiveText \/ ReceiveCancel
             \/ ReceiveEnd \/ Disconnect \/ Transcribe \/ Raise \/ Chat \/ Refuse
    BY <1>1, <2>1 DEF AtWork, ReceiveStart, ReceiveAudio, ReceiveEndTurn, ReceiveText,
       ReceiveCancel, ReceiveEnd, Receive, Disconnect, Transcribe, Raise, Chat, Refuse, Respond,
       server
  <2>2. CASE RespondToTask
    BY <2>2 DEF RespondToTask, Respond
  <2>3. ~(Classify \/ BeginTask \/ EndTask \/ Plan \/ Act)
    BY DEF Classify, BeginTask, EndTask, Plan, Act
  <2>4. ~(BackgroundReads \/ ReaderStops)
    BY Reading DEF ReaderStops
  <2> QED
    BY <2>1, <2>2, <2>3, <2>4 DEF Server, Serve, BackgroundReads
<1>3. turn' = NoTurn \/ (pc' = "closed" /\ UNCHANGED <<turn, marks>>)
  <2>1. CASE Transcribe \/ Raise \/ Chat \/ RespondToTask \/ Refuse
    BY <2>1 DEF Transcribe, Raise, Chat, RespondToTask, Refuse, Respond
  <2>2. CASE ReceiveEnd \/ Disconnect
    BY <2>2 DEF ReceiveEnd, Disconnect
  <2>3. CASE ReceiveStart \/ ReceiveAudio \/ ReceiveEndTurn \/ ReceiveCancel
    <3>1. UNCHANGED turn
      BY <2>3 DEF ReceiveStart, ReceiveAudio, ReceiveEndTurn, ReceiveCancel, server
    <3> QED
      BY <2>3, <3>1, Reading DEF Receives
  <2>4. ~(Classify \/ BeginTask \/ EndTask \/ Plan \/ Act \/ ReceiveText)
    BY DEF Classify, BeginTask, EndTask, Plan, Act, ReceiveText
  <2>5. ~(BackgroundReads \/ ReaderStops)
    BY Reading DEF ReaderStops
  <2> QED
    BY <2>1, <2>2, <2>3, <2>4, <2>5 DEF Server, Serve, BackgroundReads
<1>4. AtWork'
  BY <1>1, <1>2, <1>3 DEF AtWork, Busy
<1>5. OwnAudio'
  BY <1>1, <1>3, NoTurnTypes DEF OwnAudio
<1>6. CancelsItsOwn'
  BY DEF CancelsItsOwn
<1> QED
  BY <1>4, <1>5, <1>6 DEF EachItsOwn

LEMMA ServerTurn ==
  ASSUME Inv, Server
  PROVE  AtWork' /\ EachItsOwn'
<1>1. CASE pc' \in {"receive", "closed"}
  BY <1>1, TurnEnds
<1>2. CASE pc' \notin {"receive", "closed"} /\ Receives
  <2>1. (ReceiveEndTurn /\ pc' = "transcribe") \/ ReceiveText
    BY <1>2, Reading DEF Receives, ReceiveStart, ReceiveAudio, ReceiveEndTurn, ReceiveCancel,
                ReceiveEnd, server
  <2> QED
    BY <2>1, TakesTurn
<1>3. CASE pc' \notin {"receive", "closed"} /\ ~Receives
  <2>1. pc \in Busy /\ pc' \in Busy
    <3>1. CASE BackgroundReads
      BY <3>1, Reading
    <3>2. CASE ~BackgroundReads
      BY <1>3, <3>2 DEF Busy, Server, Serve, Plan, Act, Receives, BackgroundReads, Disconnect,
         Transcribe, Raise, Classify, Chat, RespondToTask, Refuse, BeginTask, EndTask,
         ReaderStops, Respond
    <3> QED
      BY <3>1, <3>2
  <2> QED
    BY <2>1, WorksOn
<1> QED
  BY <1>1, <1>2, <1>3

LEMMA ServerWaits ==
  ASSUME Inv, Server
  PROVE  Waits' /\ ThinkingIsExplained'
<1> SUFFICES ASSUME phase = "THINKING" PROVE Waits' /\ ThinkingIsExplained'
  BY ServerLeaves DEF phone, Waits, ThinkingIsExplained
<1>1. UNCHANGED <<phase, link, last>>
  BY ServerLeaves DEF phone
<1>2. last \in Utterance /\ (link # "up" => fate[last] = "lost") /\ ThinkingIsExplained
  BY DEF Inv, Core, Waits
<1>3. Waits'
  <2>1. link # "up" => fate'[last] = "lost"
    BY <1>2, ServerFates
  <2> QED
    BY <1>1, <1>2, <2>1 DEF Waits
<1>4. CASE fate'[last] \in {"sent", "taken", "silent", "refused", "dropped", "lost"}
  BY <1>1, <1>3, <1>4 DEF ThinkingIsExplained
<1>5. CASE fate'[last] = fate[last] /\ fate[last] \in {"answered", "failed"}
  <2>1. PICK i \in DOMAIN down : down[i].u = last /\ down[i].type \in {"response", "error"}
    BY <1>2, <1>5 DEF ThinkingIsExplained
  <2>2. UNCHANGED down \/ \E e : down' = Append(down, e)
    BY DEF Server, Serve, Plan, Act, ReceiveStart, ReceiveAudio, ReceiveEndTurn, ReceiveText,
       ReceiveCancel, ReceiveEnd, Disconnect, Transcribe, Raise, Classify, Chat, RespondToTask,
       Refuse, BeginTask, EndTask, ReadCancel, ReadUtterance, ReadStart, ReadOther, ReaderStops,
       Respond, Reads, SendDown
  <2>3. \A e : i \in DOMAIN Append(down, e) /\ Append(down, e)[i] = down[i]
    BY <2>1 DEF Inv, TypeOK
  <2>4. i \in DOMAIN down' /\ down'[i] = down[i]
    BY <2>1, <2>2, <2>3
  <2>5. i \in DOMAIN down' /\ down'[i].u = last' /\ down'[i].type \in {"response", "error"}
    BY <1>1, <2>1, <2>4
  <2>6. fate'[last'] \in {"answered", "failed"}
    BY <1>1, <1>5
  <2> QED
    BY <1>3, <2>5, <2>6 DEF ThinkingIsExplained
<1>6. CASE /\ fate'[last] # fate[last] /\ fate'[last] \in {"answered", "failed"}
  <2>1. /\ fate[last] # "lost" /\ last = turn.u
        /\ SendDown("error", turn) \/ SendDown("response", turn)
    BY <1>2, <1>6, ServerFates
  <2>2. link = "up"
    BY <1>2, <2>1
  <2>3. PICK e : down' = Append(down, e) /\ e.u = last /\ e.type \in {"response", "error"}
    BY <2>1, <2>2 DEF SendDown
  <2>4. Len(down) + 1 \in DOMAIN down' /\ down'[Len(down) + 1] = e
    BY <2>3 DEF Inv, TypeOK
  <2>5. down'[Len(down) + 1].u = last' /\ down'[Len(down) + 1].type \in {"response", "error"}
    BY <1>1, <2>3, <2>4
  <2>6. fate'[last'] \in {"answered", "failed"}
    BY <1>1, <1>6
  <2> QED
    BY <1>3, <2>4, <2>5, <2>6 DEF ThinkingIsExplained
<1>7. fate[last] \in {"sent", "taken", "silent", "refused", "dropped", "lost", "answered", "failed"}
  BY <1>2 DEF ThinkingIsExplained
<1> QED
  BY <1>2, <1>3, <1>4, <1>5, <1>6, <1>7, ServerFates

LEMMA ServerStep ==
  ASSUME Inv, Server
  PROVE  Core'
BY ServerAddressed, ServerBegun, ServerOnItsWay, ServerTurn, ServerWaits DEF Core

-----------------------------------------------------------------------------
(* The theorems *)

LEMMA InvInit == Init => Inv
<1> SUFFICES ASSUME Init PROVE Inv
  OBVIOUS
<1>1. TypeOK
  <2>1. fate \in [Utterance -> Fates] /\ marks \in [Utterance -> SUBSET Marks]
    BY DEF Init, Fates
  <2>2. up \in Seq(Request) /\ down \in Seq(Reply)
    BY DEF Init
  <2>3. TaskTypeOK
    BY DEF Init, TaskTypeOK, NoTask, TaskState
  <2>4. 0 \in 0 .. MaxCancels
    BY Numbers
  <2> QED
    BY <2>1, <2>2, <2>3, <2>4, Numbers, NoTurnTypes DEF Init, TypeOK, Phases, Places
<1>2. DOMAIN up = {}
  BY DEF Init
<1>3. Addressed(up) /\ OnItsWay
  BY <1>2 DEF Init, Addressed, OnItsWay, Awaited, Once, Own, Marked
<1>4. Begun /\ AtWork /\ Waits /\ ThinkingIsExplained /\ CancelsItsOwn
  BY DEF Init, Begun, AtWork, Waits, ThinkingIsExplained, CancelsItsOwn, Busy
<1>5. OwnAudio
  BY NoTurnTypes DEF Init, OwnAudio
<1> QED
  BY <1>1, <1>3, <1>4, <1>5 DEF Inv, Core, EachItsOwn

LEMMA Stuttering ==
  ASSUME Inv, UNCHANGED vars
  PROVE  Core'
<1>1. UNCHANGED <<phase, mic, said, link, up, down, pc, audio_buffer, turn, reader, progress, task,
                  fate, marks, last>>
  BY DEF vars, phone, server, history
<1> QED
  BY <1>1 DEF Inv, Core, Begun, OnItsWay, AtWork, Waits, ThinkingIsExplained, EachItsOwn, OwnAudio,
              CancelsItsOwn, is_cancelled

LEMMA InvStep == Inv /\ [Next]_vars => Inv'
<1> SUFFICES ASSUME Inv, [Next]_vars PROVE Inv'
  OBVIOUS
<1>1. TypeOK'
  BY TypeStep DEF Inv, Core
<1>2. Core'
  BY Stuttering, PhoneStep, FailureStep, ServerStep DEF Next, Server
<1> QED
  BY <1>1, <1>2 DEF Inv

LEMMA InvHolds == Spec => []Inv
BY InvInit, InvStep, PTL DEF Spec

\* Every variable of the conversation stays in its type, on the phone and on the server.
THEOREM TypeCorrect == Spec => []TypeOK
<1>1. Inv => TypeOK
  BY DEF Inv
<1> QED
  BY <1>1, InvHolds, PTL

\* A phone in THINKING has sent something that the server has not settled, or a message that
\* ends the wait is under way to it, or the server ended the turn in one of its four silences.
THEOREM ThinkingIsExplainedHolds == Spec => []ThinkingIsExplained
<1>1. Inv => ThinkingIsExplained
  BY DEF Inv, Core
<1> QED
  BY <1>1, InvHolds, PTL

\* The buffer and the cancel event of websocket_conversation serve one turn after another:
\* each turn works with its own audio and is stopped by its own cancel.
THEOREM EachItsOwnHolds == Spec => []EachItsOwn
<1>1. Inv => EachItsOwn
  BY DEF Inv, Core
<1> QED
  BY <1>1, InvHolds, PTL

=============================================================================
