----------------------------- MODULE LiveSession -----------------------------
(***************************************************************************)
(* A Gemini Live session: the relay of /ws/live, which makes of Gemini's   *)
(* events the messages for the phone, and the phone's GeminiLiveController *)
(* with its microphone, its audio queue and the coroutines that play it.   *)
(*                                                                         *)
(* On the phone the socket's reader, the main thread (main is the queue of *)
(* what was posted to it) and the players' IO threads interleave.  On the  *)
(* server the handling of one event is a step: the only other coroutine    *)
(* that uses its state is the deferred flush, which an event cancels.      *)
(***************************************************************************)
EXTENDS Naturals, Sequences

CONSTANTS
  Players,     \* bound: the player coroutines alive at one time
  MaxSaid,     \* bound: what the user says or types
  MaxEvents,   \* bound: Gemini's events, other than a silent end of an answer
  MaxClicks    \* bound: the user's clicks

ASSUME PlayersAssumption == Players \subseteq Nat \ {0}

ASSUME BoundsAssumption == {MaxSaid, MaxEvents, MaxClicks} \subseteq Nat

VARIABLES
  aec,         \* hasHardwareAec, as the device has an echo canceller or not
  \* Gemini and the relay
  said,        \* the user's utterances that reached Gemini
  answering,   \* Gemini is giving an answer
  events,      \* its events so far
  ai_transcript_buf,  \* it is not empty
  ai_audio_sent,
  deferred,    \* the deferred flush: "none", or where it is
  down,        \* the messages under way to the phone
  cancels,     \* the cancel_task under way to the server
  \* the phone
  phase,
  sessionActive,
  isRecording,
  audioQueue,  \* the number of chunks in it
  isTurnComplete,
  player,      \* the player coroutines: where they are
  cancelled,   \* those that were cancelled
  audioPlayerJob,  \* the player the controller knows of, 0 for none
  timer,       \* the post-response silence timer runs
  clicks,      \* the user's clicks so far
  overlay,     \* "shown", told to hide, "hidden", or destroyed with its service
  main,        \* what was posted to the main thread
  \* history
  unclosed,    \* the end of an answer was dropped with its deferred flush
  missed,      \* the idle a player waits for was taken back
  stopped,     \* a player was cancelled
  overlap      \* a player was launched before the one before it had ended

gemini == <<said, answering, events>>

relay == <<ai_transcript_buf, ai_audio_sent, deferred, unclosed>>

turn == <<isTurnComplete, missed>>

user == <<clicks, overlay>>

players == <<player, cancelled, audioPlayerJob, stopped, overlap>>

vars == <<aec, gemini, relay, down, cancels, phase, sessionActive, isRecording,
          audioQueue, turn, players, timer, user, main>>

Phases == {"IDLE", "LISTENING", "THINKING", "RESPONDING", "ERROR"}

Places == {"none", "launched", "muting", "responding", "draining", "stragglers", "stopping",
           "cooling"}

Message == {"audio", "idle", "executing", "interrupted"}

Post == [type : {"idle", "executing", "restart", "listen", "quiet"}]
        \cup [type : {"mute", "respond"}, by : Players]

TypeOK ==
  /\ aec \in BOOLEAN
  /\ said \in 0 .. MaxSaid /\ answering \in BOOLEAN /\ events \in 0 .. MaxEvents
  /\ ai_transcript_buf \in BOOLEAN /\ ai_audio_sent \in BOOLEAN
  /\ deferred \in {"none", "sleep", "sent"}
  /\ down \in Seq(Message) /\ cancels \in Nat
  /\ phase \in Phases /\ sessionActive \in BOOLEAN /\ isRecording \in BOOLEAN
  /\ audioQueue \in Nat /\ isTurnComplete \in BOOLEAN
  /\ player \in [Players -> Places] /\ cancelled \subseteq Players
  /\ audioPlayerJob \in Players \cup {0} /\ timer \in BOOLEAN /\ main \in Seq(Post)
  /\ clicks \in 0 .. MaxClicks /\ overlay \in {"shown", "hiding", "hidden", "destroyed"}
  /\ {unclosed, missed, stopped, overlap} \subseteq BOOLEAN

Init ==
  /\ aec \in BOOLEAN
  /\ said = 0 /\ answering = FALSE /\ events = 0
  /\ ai_transcript_buf = FALSE /\ ai_audio_sent = FALSE /\ deferred = "none"
  /\ down = <<>> /\ cancels = 0
  /\ phase = "IDLE" /\ sessionActive = FALSE /\ isRecording = FALSE
  /\ audioQueue = 0 /\ isTurnComplete = FALSE
  /\ player = [p \in Players |-> "none"] /\ cancelled = {} /\ audioPlayerJob = 0
  /\ timer = FALSE /\ main = <<>> /\ clicks = 0 /\ overlay = "shown"
  /\ unclosed = FALSE /\ missed = FALSE /\ stopped = FALSE /\ overlap = FALSE

-----------------------------------------------------------------------------
(* The relay: an event of Gemini, and the deferred flush *)

Reset == ai_transcript_buf' = FALSE /\ ai_audio_sent' = FALSE

\* What every event does first.  Of an answer that has ended nothing but the deferred
\* flush tells the phone, unless the event itself does.
CancelDeferred(closes) ==
  unclosed' = (unclosed \/ (~answering /\ deferred = "sleep" /\ ~closes))

Counts == events < MaxEvents /\ events' = events + 1

_flush_response(sent) ==
  /\ Reset
  /\ down' = down \o Append(sent, "idle")
  /\ deferred' = "none" /\ CancelDeferred(TRUE)

ECall ==
  /\ answering /\ Counts
  /\ down' = Append(down, "executing") /\ deferred' = "none" /\ CancelDeferred(FALSE)
  /\ UNCHANGED <<said, answering, ai_transcript_buf, ai_audio_sent>>

EText ==
  /\ answering /\ Counts
  /\ ai_transcript_buf' = TRUE
  /\ deferred' = "none" /\ CancelDeferred(FALSE)
  /\ UNCHANGED <<said, answering, ai_audio_sent, down>>

\* A chunk of audio, alone or with turn_complete: another may follow that, or not.
EAudio ==
  /\ answering /\ Counts
  /\ \/ deferred' = "none" /\ UNCHANGED answering
     \/ deferred' = "sleep" /\ answering' \in BOOLEAN
  /\ ai_audio_sent' = TRUE /\ down' = Append(down, "audio") /\ CancelDeferred(FALSE)
  /\ UNCHANGED <<said, ai_transcript_buf>>

\* turn_complete with no audio.
ESilent ==
  /\ answering /\ answering' = FALSE /\ _flush_response(<<>>)
  /\ UNCHANGED <<said, events>>

EInterrupted ==
  /\ answering /\ Counts
  /\ IF ai_audio_sent \/ ai_transcript_buf
       THEN _flush_response(<<"interrupted">>)
       ELSE /\ down' = Append(down, "interrupted") /\ deferred' = "none"
            /\ CancelDeferred(FALSE)
            /\ UNCHANGED <<ai_transcript_buf, ai_audio_sent>>
  /\ UNCHANGED <<said, answering>>

\* The transcription of what the user said, or a late correction of it; or an event with
\* nothing in it for the phone.
EInput ==
  /\ said > 0 /\ Counts
  /\ \/ ai_audio_sent /\ _flush_response(<<>>)
     \/ /\ deferred' = "none" /\ CancelDeferred(FALSE)
        /\ UNCHANGED <<ai_transcript_buf, ai_audio_sent, down>>
  /\ UNCHANGED <<said, answering>>

Gemini ==
  /\ ECall \/ EText \/ EAudio \/ ESilent \/ EInterrupted \/ EInput
  /\ UNCHANGED <<aec, cancels, phase, sessionActive, isRecording, audioQueue, turn,
                 players, timer, user, main>>

\* The deferred flush can be cancelled where it sleeps and where it waits for the socket
\* to take the idle.
_deferred_flush ==
  /\ \/ /\ deferred = "sleep" /\ deferred' = "sent" /\ down' = Append(down, "idle")
        /\ UNCHANGED <<ai_transcript_buf, ai_audio_sent>>
     \/ deferred = "sent" /\ deferred' = "none" /\ Reset /\ UNCHANGED down
  /\ UNCHANGED <<aec, gemini, unclosed, cancels, phase, sessionActive,
                 isRecording, audioQueue, turn, players, timer, user, main>>

\* receive_from_device: the task is cancelled elsewhere, here it is only acknowledged.
CancelTask ==
  /\ cancels > 0 /\ cancels' = cancels - 1 /\ down' = Append(down, "idle")
  /\ UNCHANGED <<aec, gemini, relay, phase, sessionActive, isRecording, audioQueue,
                 turn, players, timer, user, main>>

-----------------------------------------------------------------------------
(* The phone: the microphone *)

Playing == {"launched", "muting", "responding", "draining"}

\* isTurnComplete.set(false), by p or, for 0, by the controller: the idle that another
\* player waits for may be lost with it.
ResetTurnComplete(was, p) ==
  /\ isTurnComplete' = FALSE
  /\ missed' = (missed \/ (was /\ \E q \in Players \ (cancelled \cup {p}) : player[q] \in Playing))

\* Until the controller is cleaned up; what comes in after that is still read.
isConnected == overlay \in {"shown", "hiding"}

\* The microphone is opened, or cannot be.  was: isTurnComplete before.
startMicInternal(was) ==
  IF isRecording \/ ~isConnected
    THEN /\ isTurnComplete' = was
         /\ UNCHANGED <<missed, audioQueue, isRecording, phase, sessionActive>>
    ELSE /\ ResetTurnComplete(was, 0) /\ audioQueue' = 0
         /\ \/ isRecording' = TRUE /\ phase' = "LISTENING" /\ UNCHANGED sessionActive
            \/ phase' = "ERROR" /\ sessionActive' = FALSE /\ UNCHANGED isRecording

stopAudioPlayer ==
  /\ cancelled' = cancelled \cup ({audioPlayerJob} \ {0}) /\ audioPlayerJob' = 0
  /\ stopped' = (stopped \/ audioPlayerJob # 0)
  /\ UNCHANGED <<player, overlap>>

\* The session's beginning; what was said or played before is over.
startCapture ==
  /\ ~isRecording /\ isConnected
  /\ timer' = FALSE /\ stopAudioPlayer /\ ResetTurnComplete(isTurnComplete, audioPlayerJob)
  /\ audioQueue' = 0
  /\ \/ isRecording' = TRUE /\ phase' = "LISTENING" /\ sessionActive' = TRUE
     \/ phase' = "ERROR" /\ sessionActive' = FALSE /\ UNCHANGED isRecording

cancelCapture ==
  /\ sessionActive' = FALSE /\ timer' = FALSE /\ isRecording' = FALSE
  /\ stopAudioPlayer /\ audioQueue' = 0 /\ phase' = "IDLE"
  /\ UNCHANGED turn

-----------------------------------------------------------------------------
(* The phone: the socket's reader *)

Launch ==
  \E p \in Players :
    /\ player[p] = "none" /\ \A q \in Players : player[q] = "none" => p <= q
    /\ player' = [player EXCEPT ![p] = "launched"] /\ audioPlayerJob' = p
    /\ overlap' = (overlap \/ \E q \in Players : player[q] # "none")
    /\ UNCHANGED <<cancelled, stopped>>

\* Mutant of ensureAudioPlayerRunning: a player that has begun to play does not count.
ensureAudioPlayerRunningTwice ==
  IF audioPlayerJob # 0 /\ player[audioPlayerJob] \in {"launched", "muting", "responding"}
    THEN UNCHANGED players ELSE Launch

\* A player is launched unless one is active.
ensureAudioPlayerRunning == IF audioPlayerJob # 0 THEN UNCHANGED players ELSE Launch

ReadAudio ==
  /\ Head(down) = "audio"
  /\ audioQueue' = audioQueue + 1 /\ ensureAudioPlayerRunning
  /\ UNCHANGED <<turn, phase, main>>

interruptPlaybackForBargein ==
  /\ Head(down) = "interrupted"
  /\ IF audioPlayerJob = 0
       THEN UNCHANGED <<audioQueue, turn, players, phase>>
       ELSE /\ audioQueue' = 0 /\ ResetTurnComplete(isTurnComplete, audioPlayerJob)
            /\ stopAudioPlayer /\ phase' = "LISTENING"
  /\ UNCHANGED main

ReadProgress ==
  /\ Head(down) \in {"idle", "executing"}
  /\ main' = Append(main, [type |-> Head(down)])
  /\ UNCHANGED <<audioQueue, turn, players, phase>>

handleMessage ==
  /\ overlay # "destroyed" /\ down # <<>> /\ down' = Tail(down)
  /\ ReadAudio \/ interruptPlaybackForBargein \/ ReadProgress
  /\ UNCHANGED <<aec, gemini, relay, cancels, sessionActive, isRecording, timer,
                 user>>

-----------------------------------------------------------------------------
(* The phone: a player *)

Ends(p) ==
  /\ player' = [player EXCEPT ![p] = "none"] /\ cancelled' = cancelled \ {p}
  /\ UNCHANGED <<audioPlayerJob, stopped, overlap>>

GoesTo(p, place) ==
  player' = [player EXCEPT ![p] = place] /\ UNCHANGED <<cancelled, audioPlayerJob, stopped, overlap>>

\* The gate is reset, the microphone is to be muted.
Starts(p) ==
  /\ player[p] = "launched"
  /\ IF p \in cancelled
       THEN Ends(p) /\ UNCHANGED <<turn, main>>
       ELSE /\ isTurnComplete' = FALSE /\ UNCHANGED missed
            /\ GoesTo(p, "muting") /\ main' = Append(main, [type |-> "mute", by |-> p])
  /\ UNCHANGED audioQueue

Drains(p) ==
  /\ player[p] = "draining" /\ p \notin cancelled
  /\ \/ audioQueue > 0 /\ audioQueue' = audioQueue - 1 /\ UNCHANGED players
     \/ audioQueue = 0 /\ isTurnComplete /\ GoesTo(p, "stragglers") /\ UNCHANGED audioQueue
  /\ UNCHANGED <<turn, main>>

\* Cancelled where it waits for a chunk it is gone; where it writes one it leaves the loop.
DrainIsCancelled(p) ==
  /\ player[p] = "draining" /\ p \in cancelled
  /\ Ends(p) \/ GoesTo(p, "stragglers")
  /\ UNCHANGED <<audioQueue, turn, main>>

Stragglers(p) ==
  /\ player[p] = "stragglers"
  /\ \/ audioQueue > 0 /\ audioQueue' = audioQueue - 1 /\ UNCHANGED players
     \/ audioQueue = 0 /\ GoesTo(p, "stopping") /\ UNCHANGED audioQueue
  /\ UNCHANGED <<turn, main>>

\* audioPlayerJob is reset whether it is this player or the next one.
Stops(p) ==
  /\ player[p] = "stopping"
  /\ player' = [player EXCEPT ![p] = "cooling"] /\ audioPlayerJob' = 0
  /\ ResetTurnComplete(isTurnComplete, p)
  /\ UNCHANGED <<cancelled, stopped, overlap, audioQueue, main>>

\* After the cooldown: open the microphone again, or say that it is open, or be quiet.
AfterCooldown == CASE sessionActive /\ ~isRecording -> "restart"
                   [] sessionActive /\ isRecording -> "listen"
                   [] ~sessionActive -> "quiet"

Cools(p) ==
  /\ player[p] = "cooling" /\ Ends(p)
  /\ main' = IF p \in cancelled THEN main ELSE Append(main, [type |-> AfterCooldown])
  /\ UNCHANGED <<audioQueue, turn>>

Player(p) ==
  /\ Starts(p) \/ Drains(p) \/ DrainIsCancelled(p) \/ Stragglers(p) \/ Stops(p) \/ Cools(p)
  /\ UNCHANGED <<aec, gemini, relay, down, cancels, phase, sessionActive, isRecording,
                 timer, user>>

-----------------------------------------------------------------------------
(* The phone: the main thread *)

Posted(type) == Head(main).type = type

\* A block of a player that has been cancelled is dropped.
PlayerIsGone ==
  /\ Head(main).type \in {"mute", "respond"} /\ Head(main).by \in cancelled
  /\ Ends(Head(main).by) /\ main' = Tail(main)
  /\ UNCHANGED <<phase, sessionActive, isRecording, audioQueue, turn, timer>>

muteMicForPlayback ==
  /\ Posted("mute") /\ Head(main).by \notin cancelled
  /\ isRecording' = (isRecording /\ aec)
  /\ GoesTo(Head(main).by, "responding")
  /\ main' = Append(Tail(main), [type |-> "respond", by |-> Head(main).by])
  /\ UNCHANGED <<phase, sessionActive, audioQueue, turn, timer>>

Respond ==
  /\ Posted("respond") /\ Head(main).by \notin cancelled
  /\ phase' = "RESPONDING" /\ GoesTo(Head(main).by, "draining") /\ main' = Tail(main)
  /\ UNCHANGED <<sessionActive, isRecording, audioQueue, turn, timer>>

Restart ==
  /\ Posted("restart") /\ startMicInternal(isTurnComplete)
  /\ timer' = sessionActive' /\ main' = Tail(main)
  /\ UNCHANGED players

Listen ==
  /\ Posted("listen") /\ phase' = "LISTENING"
  /\ timer' = sessionActive /\ main' = Tail(main)
  /\ UNCHANGED <<sessionActive, isRecording, audioQueue, turn, players>>

Quiet ==
  /\ Posted("quiet") /\ phase' = "IDLE" /\ main' = Tail(main)
  /\ UNCHANGED <<sessionActive, isRecording, audioQueue, turn, players, timer>>

\* The automation has the device: no microphone meanwhile.
Executing ==
  /\ Posted("executing") /\ isRecording' = FALSE /\ phase' = "THINKING" /\ main' = Tail(main)
  /\ UNCHANGED <<sessionActive, audioQueue, turn, players, timer>>

\* Mutant of Idle: it opens the microphone whether or not a player is active.
IdleReopens ==
  /\ Posted("idle") /\ main' = Tail(main)
  /\ IF ~isRecording /\ sessionActive
       THEN startMicInternal(TRUE)
       ELSE /\ isTurnComplete' = TRUE
            /\ phase' = IF ~isRecording /\ audioPlayerJob = 0 THEN "IDLE" ELSE phase
            /\ UNCHANGED <<missed, audioQueue, isRecording, sessionActive>>
  /\ UNCHANGED <<players, timer>>

\* Mutant of Idle: it returns before it sets isTurnComplete when the microphone is open.
IdleReturnsFirst ==
  /\ Posted("idle") /\ main' = Tail(main)
  /\ IF ~isRecording /\ sessionActive /\ audioPlayerJob = 0
       THEN startMicInternal(TRUE)
       ELSE /\ isTurnComplete' = (isTurnComplete \/ ~isRecording)
            /\ phase' = IF ~isRecording /\ ~sessionActive /\ audioPlayerJob = 0
                          THEN "IDLE" ELSE phase
            /\ UNCHANGED <<missed, audioQueue, isRecording, sessionActive>>
  /\ UNCHANGED <<players, timer>>

\* The answer is complete: a player is told, and without one the microphone opened.
Idle ==
  LET lost == \E p \in Players \ cancelled : player[p] = "launched" IN
  /\ Posted("idle") /\ main' = Tail(main)
  /\ IF ~isRecording /\ sessionActive /\ audioPlayerJob = 0
       THEN startMicInternal(TRUE)
       ELSE /\ isTurnComplete' = TRUE /\ missed' = (missed \/ lost)
            /\ phase' = IF ~isRecording /\ ~sessionActive /\ audioPlayerJob = 0
                          THEN "IDLE" ELSE phase
            /\ UNCHANGED <<audioQueue, isRecording, sessionActive>>
  /\ UNCHANGED <<players, timer>>

Main ==
  /\ main # <<>>
  /\ \/ PlayerIsGone \/ muteMicForPlayback \/ Respond \/ Restart \/ Listen \/ Quiet
     \/ Executing \/ Idle
  /\ UNCHANGED <<aec, gemini, relay, down, cancels, user>>

-----------------------------------------------------------------------------
(* The user, the timer *)

Clicks == clicks < MaxClicks /\ clicks' = clicks + 1

onMicClick ==
  /\ Clicks /\ isConnected
  /\ \/ phase = "IDLE" /\ startCapture
     \/ phase = "LISTENING" /\ cancelCapture
  /\ UNCHANGED <<gemini, cancels, down, overlay, main>>

\* The service is told to hide the overlay, and will be when it gets to it.
onDismiss ==
  /\ Clicks /\ isConnected /\ overlay' = "hiding"
  /\ \/ phase = "LISTENING" /\ cancelCapture
     \/ /\ phase # "LISTENING"
        /\ phase' = IF phase \in {"THINKING", "RESPONDING"} THEN "IDLE" ELSE phase
        /\ UNCHANGED <<sessionActive, isRecording, audioQueue, turn, players, timer>>
  /\ UNCHANGED <<gemini, cancels, down, main>>

\* "Cancel" in the notification.
CancelFromNotification ==
  /\ Clicks /\ isConnected /\ cancelCapture /\ cancels' = cancels + 1
  /\ UNCHANGED <<gemini, down, overlay, main>>

TimerFires ==
  /\ timer /\ cancelCapture
  /\ UNCHANGED <<gemini, cancels, down, user, main>>

\* What is said is heard by Gemini, and above the threshold by the amplitude tracker.
Speak ==
  /\ isRecording /\ said < MaxSaid
  /\ said' = said + 1 /\ answering' = TRUE /\ timer' = FALSE
  /\ UNCHANGED <<events, cancels, down, phase, sessionActive, isRecording, audioQueue,
                 turn, players, user, main>>

Noise ==
  /\ isRecording /\ timer /\ timer' = FALSE
  /\ UNCHANGED <<gemini, cancels, down, phase, sessionActive, isRecording, audioQueue,
                 turn, players, user, main>>

sendTextCommand ==
  /\ isConnected /\ said < MaxSaid /\ said' = said + 1 /\ answering' = TRUE
  /\ UNCHANGED <<events, cancels, down, phase, sessionActive, isRecording, audioQueue,
                 turn, players, timer, user, main>>

-----------------------------------------------------------------------------
(* The end of the overlay and, some time after it, of its service *)

\* hideOverlay: the controller is cleaned up, whatever it was at.
Hide ==
  /\ overlay = "hiding" /\ overlay' = "hidden" /\ cancelCapture
  /\ UNCHANGED <<aec, gemini, relay, down, cancels, clicks, main>>

\* onDestroy: the scope of the players, and of what they posted, is cancelled.
Destroy ==
  /\ overlay = "hidden" /\ overlay' = "destroyed"
  /\ player' = [p \in Players |-> "none"] /\ cancelled' = {} /\ audioPlayerJob' = 0
  /\ main' = <<>> /\ down' = <<>>
  /\ UNCHANGED <<aec, gemini, relay, cancels, phase, sessionActive, isRecording, audioQueue,
                 turn, stopped, overlap, timer, clicks>>

Environment ==
  /\ \/ onMicClick \/ onDismiss \/ CancelFromNotification \/ TimerFires \/ Speak \/ Noise
     \/ sendTextCommand
  /\ UNCHANGED <<aec, relay>>

System ==
  \/ Gemini \/ _deferred_flush \/ CancelTask
  \/ handleMessage \/ (\E p \in Players : Player(p)) \/ Main
  \/ Hide \/ Destroy

Next == System \/ Environment

Spec == Init /\ [][Next]_vars

\* Gemini ends every answer, the loops of the relay and of the phone run on, and the phone's
\* system does what its services are told.  Each of these steps uses up something bounded:
\* fairness of all is fairness of each.
FairSpec == Spec /\ WF_vars(System)

-----------------------------------------------------------------------------
(* Properties *)

\* Two coroutines take chunks from the queue at a time only after playback has been
\* interrupted: "only one consumer coroutine ever writes to PcmStreamPlayer"
\* (GeminiLiveController.kt:468) is what ensureAudioPlayerRunning is for.
OneConsumer ==
  \A p, q \in Players \ cancelled :
    {player[p], player[q]} \subseteq {"draining", "stragglers"} => p = q \/ stopped

\* The same without its exception, as the comment has it.
SingleConsumer ==
  \A p, q \in Players \ cancelled :
    {player[p], player[q]} \subseteq {"draining", "stragglers"} => p = q

\* Without an echo canceller the microphone is closed while an answer is played, unless a
\* player was launched while another one was still ending.
MutedWhilePlaying ==
  (\E p \in Players \ cancelled : player[p] \in {"responding", "draining", "stragglers"})
    => aec \/ ~isRecording \/ overlap

\* The same without its exception: "mic is muted during playback to prevent echo feedback
\* loop" (GeminiLiveController.kt:152).
NoEcho ==
  (\E p \in Players \ cancelled : player[p] \in {"responding", "draining", "stragglers"})
    => aec \/ ~isRecording

\* No player drains for ever and no session is left without its microphone, unless the idle
\* that was to end the answer was dropped by the relay or taken back on the phone.
TurnsEnd ==
  []<>( \/ /\ sessionActive => isRecording
          /\ \A p \in Players : player[p] # "draining"
       \/ missed \/ unclosed )
=============================================================================
