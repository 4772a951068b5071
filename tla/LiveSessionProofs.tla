-------------------------- MODULE LiveSessionProofs --------------------------
(***************************************************************************)
(* Proofs about LiveSession, for any players and any number of events:     *)
(* types, that one player at a time takes chunks from the queue, and that  *)
(* the microphone is closed while an answer is played.  What is inductive  *)
(* is the bookkeeping of the players: which one the controller knows of,   *)
(* what each has posted to the main thread, and that a player which        *)
(* follows another has not begun to play while the microphone is still to  *)
(* be opened again.                                                        *)
(***************************************************************************)
EXTENDS LiveSession, TLAPS

USE DEF user

\* A player in one of these places is at work, its cooldown apart.
Active == {"launched", "muting", "responding", "draining", "stragglers", "stopping"}

\* The player of a block in s waits for it, ...
Fit(s, pl) ==
  \A i \in DOMAIN s : /\ s[i].type = "mute" => pl[s[i].by] = "muting"
                      /\ s[i].type = "respond" => pl[s[i].by] = "responding"

\* A block that a player waits for.
IsCall(e) == e.type \in {"mute", "respond"}

\* ... and for no other.
Once(s) ==
  \A i, j \in DOMAIN s : IsCall(s[i]) /\ IsCall(s[j]) /\ s[i].by = s[j].by => i = j

\* A microphone to be opened again in s comes before every one to be muted.
Ordered(s) ==
  \A i, j \in DOMAIN s : s[i].type = "restart" /\ s[j].type = "mute" => i < j

\* The microphone is to be opened again.
Restarts(s) == \E i \in DOMAIN s : s[i].type = "restart"

\* Nobody has begun to play.
Early(pl) == \A p \in Players : pl[p] \in {"none", "launched", "muting"}

\* What the controller knows of its players.
Known == /\ audioPlayerJob # 0 => player[audioPlayerJob] \in Active
                                  /\ audioPlayerJob \notin cancelled
         /\ \A p \in cancelled : player[p] # "none"

\* Until a player is cancelled, the one the controller knows of is the only one.
Sole == stopped \/ (cancelled = {} /\ \A p \in Players : player[p] \in Active => p = audioPlayerJob)

\* Until players overlap there is one at a time, ...
Single ==
  \/ overlap
  \/ /\ \A p, q \in Players : player[p] # "none" /\ player[q] # "none" => p = q
     /\ \A p \in Players \ cancelled : player[p] \in Active => p = audioPlayerJob

\* ... and one that follows has not begun to play when the microphone is opened again.
RestartFirst == overlap \/ (Ordered(main) /\ (Restarts(main) => Early(player)))

Core == /\ Fit(main, player) /\ Once(main) /\ Known /\ Sole /\ Single /\ RestartFirst
        /\ MutedWhilePlaying

Inv == TypeOK /\ Core

-----------------------------------------------------------------------------
(* What is posted to the main thread *)

\* Player p waits for a block in s.
Waits(s, p) == \E i \in DOMAIN s : IsCall(s[i]) /\ s[i].by = p

LEMMA Posting ==
  ASSUME NEW s \in Seq(Post), NEW e \in Post, NEW t, t = Append(s, e)
  PROVE  /\ t \in Seq(Post) /\ DOMAIN s \subseteq Nat
         /\ \A i \in DOMAIN s : i \in DOMAIN t /\ t[i] = s[i]
         /\ \A i \in DOMAIN t : i \in DOMAIN s \/ (t[i] = e /\ \A k \in DOMAIN s : k < i)
         /\ \A i, j \in DOMAIN t : i \notin DOMAIN s /\ j \notin DOMAIN s => i = j
OBVIOUS

LEMMA Popping ==
  ASSUME NEW s \in Seq(Post), s # <<>>, NEW t, t = Tail(s)
  PROVE  /\ t \in Seq(Post) /\ Head(s) \in Post /\ 1 \in DOMAIN s /\ s[1] = Head(s)
         /\ \A i \in DOMAIN t : i \in Nat /\ i + 1 \in DOMAIN s /\ t[i] = s[i + 1] /\ i + 1 # 1
         /\ \A i \in DOMAIN s : i \in Nat \ {0}
OBVIOUS

\* Only a player that is muting or to respond waits for a block.
LEMMA NobodyElseWaits ==
  ASSUME NEW s \in Seq(Post), NEW pl, Fit(s, pl), NEW p,
         pl[p] \notin {"muting", "responding"}
  PROVE  ~Waits(s, p)
BY DEF Fit, Waits, IsCall

\* A player that waits for nothing may go anywhere.
LEMMA PlayerGoes ==
  ASSUME NEW s \in Seq(Post), NEW pl \in [Players -> Places], Fit(s, pl), NEW p \in Players,
         ~Waits(s, p), NEW place
  PROVE  Fit(s, [pl EXCEPT ![p] = place])
<1> DEFINE after == [pl EXCEPT ![p] = place]
<1>1. \A q \in Players : q # p => after[q] = pl[q]
  OBVIOUS
<1> HIDE DEF after
<1>2. ASSUME NEW i \in DOMAIN s, IsCall(s[i])
      PROVE  s[i].by \in Players /\ s[i].by # p
  <2>1. s[i] \in Post
    OBVIOUS
  <2>2. s[i].by \in Players
    BY <1>2, <2>1 DEF Post, IsCall
  <2> QED
    BY <1>2, <2>2 DEF Waits
<1>3. Fit(s, after)
  BY <1>1, <1>2 DEF Fit, IsCall
<1> QED
  BY <1>3 DEF after

\* What no player waits for is posted.
LEMMA PostNoCall ==
  ASSUME NEW s \in Seq(Post), NEW e \in Post, ~IsCall(e), NEW t, t = Append(s, e),
         NEW pl, Fit(s, pl), Once(s)
  PROVE  /\ t \in Seq(Post) /\ Fit(t, pl) /\ Once(t)
         /\ e.type # "restart" => /\ Ordered(s) => Ordered(t)
                                  /\ Restarts(t) => Restarts(s)
         /\ (\A i \in DOMAIN s : s[i].type # "mute") => Ordered(t)
<1>1. /\ t \in Seq(Post) /\ DOMAIN s \subseteq Nat
      /\ \A i \in DOMAIN s : i \in DOMAIN t /\ t[i] = s[i]
      /\ \A i \in DOMAIN t : i \in DOMAIN s \/ (t[i] = e /\ \A k \in DOMAIN s : k < i)
  BY Posting
<1>2. e.type \notin {"mute", "respond"}
  BY DEF IsCall
<1>3. Fit(t, pl)
  BY <1>1, <1>2 DEF Fit
<1>4. Once(t)
  BY <1>1, <1>2 DEF Once, IsCall
<1>5. ASSUME e.type # "restart", Ordered(s) PROVE Ordered(t)
  BY <1>1, <1>2, <1>5 DEF Ordered
<1>6. ASSUME e.type # "restart", Restarts(t) PROVE Restarts(s)
  BY <1>1, <1>6 DEF Restarts
<1>7. ASSUME \A i \in DOMAIN s : s[i].type # "mute" PROVE Ordered(t)
  BY <1>1, <1>2, <1>7 DEF Ordered
<1> QED
  BY <1>1, <1>3, <1>4, <1>5, <1>6, <1>7

\* A player posts a block and waits for it.
LEMMA PostCall ==
  ASSUME NEW s \in Seq(Post), NEW p \in Players, ~Waits(s, p),
         NEW e \in Post, IsCall(e), e.by = p, NEW t, t = Append(s, e),
         NEW pl, Fit(s, pl), Once(s),
         e.type = "mute" => pl[p] = "muting", e.type = "respond" => pl[p] = "responding"
  PROVE  /\ t \in Seq(Post) /\ Fit(t, pl) /\ Once(t)
         /\ Ordered(s) => Ordered(t)
         /\ Restarts(t) => Restarts(s)
<1>1. /\ t \in Seq(Post) /\ DOMAIN s \subseteq Nat
      /\ \A i \in DOMAIN s : i \in DOMAIN t /\ t[i] = s[i]
      /\ \A i \in DOMAIN t : i \in DOMAIN s \/ (t[i] = e /\ \A k \in DOMAIN s : k < i)
      /\ \A i, j \in DOMAIN t : i \notin DOMAIN s /\ j \notin DOMAIN s => i = j
  BY Posting
<1>2. Fit(t, pl)
  BY <1>1 DEF Fit
<1>3. Once(t)
  BY <1>1 DEF Once, Waits
<1>4. e.type # "restart"
  BY DEF IsCall
<1>5. ASSUME Ordered(s) PROVE Ordered(t)
  BY <1>1, <1>4, <1>5 DEF Ordered
<1>6. ASSUME Restarts(t) PROVE Restarts(s)
  BY <1>1, <1>4, <1>6 DEF Restarts
<1> QED
  BY <1>1, <1>2, <1>3, <1>5, <1>6

\* The first of s is taken.
LEMMA Taking ==
  ASSUME NEW s \in Seq(Post), s # <<>>, NEW t, t = Tail(s), NEW pl, Fit(s, pl), Once(s)
  PROVE  /\ t \in Seq(Post) /\ Fit(t, pl) /\ Once(t) /\ Head(s) \in Post
         /\ IsCall(Head(s)) => ~Waits(t, Head(s).by) /\ Head(s).by \in Players
         /\ Head(s).type = "mute" => pl[Head(s).by] = "muting"
         /\ Head(s).type = "respond" => pl[Head(s).by] = "responding"
         /\ Ordered(s) => Ordered(t)
         /\ Restarts(t) => Restarts(s)
         /\ Head(s).type = "restart" => Restarts(s)
         /\ Ordered(s) /\ Head(s).type = "mute" => ~Restarts(t)
<1>1. /\ t \in Seq(Post) /\ Head(s) \in Post /\ 1 \in DOMAIN s /\ s[1] = Head(s)
      /\ \A i \in DOMAIN t : i \in Nat /\ i + 1 \in DOMAIN s /\ t[i] = s[i + 1] /\ i + 1 # 1
      /\ \A i \in DOMAIN s : i \in Nat \ {0}
  BY Popping
<1>2. Fit(t, pl)
  BY <1>1 DEF Fit
<1>3. Once(t)
  <2> SUFFICES ASSUME NEW i \in DOMAIN t, NEW j \in DOMAIN t,
                      IsCall(t[i]), IsCall(t[j]), t[i].by = t[j].by
               PROVE  i = j
    BY DEF Once
  <2>1. i + 1 = j + 1
    BY <1>1 DEF Once
  <2> QED
    BY <1>1, <2>1
<1>4. IsCall(Head(s)) => ~Waits(t, Head(s).by) /\ Head(s).by \in Players
  <2> SUFFICES ASSUME IsCall(Head(s)) PROVE ~Waits(t, Head(s).by) /\ Head(s).by \in Players
    OBVIOUS
  <2>1. Head(s).by \in Players
    BY <1>1 DEF Post, IsCall
  <2>2. ASSUME NEW i \in DOMAIN t, IsCall(t[i]), t[i].by = Head(s).by PROVE FALSE
    <3>1. i + 1 = 1
      BY <1>1, <2>2 DEF Once
    <3> QED
      BY <1>1, <3>1
  <2> QED
    BY <2>1, <2>2 DEF Waits
<1>5. /\ Head(s).type = "mute" => pl[Head(s).by] = "muting"
      /\ Head(s).type = "respond" => pl[Head(s).by] = "responding"
  BY <1>1 DEF Fit
<1>6. Ordered(s) => Ordered(t)
  <2> SUFFICES ASSUME Ordered(s), NEW i \in DOMAIN t, NEW j \in DOMAIN t,
                      t[i].type = "restart", t[j].type = "mute"
               PROVE  i < j
    BY DEF Ordered
  <2>1. i + 1 < j + 1
    BY <1>1 DEF Ordered
  <2> QED
    BY <1>1, <2>1
<1>7. (Restarts(t) => Restarts(s)) /\ (Head(s).type = "restart" => Restarts(s))
  BY <1>1 DEF Restarts
<1>8. ASSUME Ordered(s), Head(s).type = "mute", Restarts(t) PROVE FALSE
  <2>1. PICK i \in DOMAIN t : t[i].type = "restart"
    BY <1>8 DEF Restarts
  <2>2. i + 1 < 1
    BY <1>1, <1>8, <2>1 DEF Ordered
  <2> QED
    BY <1>1, <2>1, <2>2
<1> QED
  BY <1>1, <1>2, <1>3, <1>4, <1>5, <1>6, <1>7, <1>8

-----------------------------------------------------------------------------
(* Types *)

LEMMA StopTypes ==
  ASSUME TypeOK, stopAudioPlayer
  PROVE  /\ cancelled' \subseteq Players /\ audioPlayerJob' \in Players \cup {0}
         /\ player' \in [Players -> Places] /\ stopped' \in BOOLEAN /\ overlap' \in BOOLEAN
BY DEF TypeOK, stopAudioPlayer

LEMMA ResetTypes ==
  ASSUME TypeOK, NEW was, NEW p, ResetTurnComplete(was, p)
  PROVE  isTurnComplete' \in BOOLEAN /\ missed' \in BOOLEAN
BY DEF TypeOK, ResetTurnComplete

LEMMA MicTypes ==
  ASSUME TypeOK, NEW was \in BOOLEAN, startMicInternal(was)
  PROVE  /\ isTurnComplete' \in BOOLEAN /\ missed' \in BOOLEAN /\ audioQueue' \in Nat
         /\ isRecording' \in BOOLEAN /\ phase' \in Phases /\ sessionActive' \in BOOLEAN
<1>1. CASE isRecording \/ ~isConnected
  BY <1>1 DEF startMicInternal, TypeOK
<1>2. CASE ~isRecording /\ isConnected
  <2>1. ResetTurnComplete(was, 0) /\ audioQueue' = 0
        /\ \/ isRecording' = TRUE /\ phase' = "LISTENING" /\ UNCHANGED sessionActive
           \/ phase' = "ERROR" /\ sessionActive' = FALSE /\ UNCHANGED isRecording
    BY <1>2 DEF startMicInternal
  <2>2. isTurnComplete' \in BOOLEAN /\ missed' \in BOOLEAN
    BY <2>1, ResetTypes
  <2>3. phase' \in Phases
    BY <2>1 DEF Phases
  <2>4. isRecording' \in BOOLEAN
    BY <2>1 DEF TypeOK
  <2>5. sessionActive' \in BOOLEAN
    BY <2>1 DEF TypeOK
  <2> QED
    BY <2>1, <2>2, <2>3, <2>4, <2>5
<1> QED
  BY <1>1, <1>2

LEMMA GeminiTypes ==
  ASSUME TypeOK, Gemini
  PROVE  TypeOK'
<1>1. UNCHANGED <<aec, cancels, phase, sessionActive, isRecording, audioQueue, turn,
                  players, timer, user, main>>
  BY DEF Gemini
<1>2. down' \in Seq(Message)
  <2>1. /\ down \in Seq(Message) /\ {"audio", "idle", "executing", "interrupted"} = Message
    BY DEF TypeOK, Message
  <2>2. Append(<<>>, "idle") \in Seq(Message) /\ Append(<<"interrupted">>, "idle") \in Seq(Message)
    BY <2>1
  <2>3. down \o Append(<<>>, "idle") \in Seq(Message)
        /\ down \o Append(<<"interrupted">>, "idle") \in Seq(Message)
    BY <2>1, <2>2
  <2>4. Append(down, "executing") \in Seq(Message) /\ Append(down, "audio") \in Seq(Message)
        /\ Append(down, "interrupted") \in Seq(Message)
    BY <2>1
  <2> QED
    BY <2>1, <2>3, <2>4
       DEF Gemini, ECall, EText, EAudio, ESilent, EInterrupted, EInput, _flush_response
<1>3. events' \in 0 .. MaxEvents /\ said' \in 0 .. MaxSaid
  <2>1. MaxEvents \in Nat /\ events \in 0 .. MaxEvents /\ said \in 0 .. MaxSaid
    BY BoundsAssumption DEF TypeOK
  <2>2. Counts \/ UNCHANGED events
    BY DEF Gemini, ECall, EText, EAudio, ESilent, EInterrupted, EInput
  <2>3. events' \in 0 .. MaxEvents
    BY <2>1, <2>2 DEF Counts
  <2>4. UNCHANGED said
    BY DEF Gemini, ECall, EText, EAudio, ESilent, EInterrupted, EInput
  <2> QED
    BY <2>1, <2>3, <2>4
<1>4. ai_transcript_buf' \in BOOLEAN /\ ai_audio_sent' \in BOOLEAN /\ answering' \in BOOLEAN
  BY DEF Gemini, ECall, EText, EAudio, ESilent, EInterrupted, EInput, _flush_response, Reset,
         TypeOK
<1>5. deferred' \in {"none", "sleep", "sent"}
  BY DEF Gemini, ECall, EText, EAudio, ESilent, EInterrupted, EInput, _flush_response, TypeOK
<1>6. unclosed' \in BOOLEAN
  BY DEF Gemini, ECall, EText, EAudio, ESilent, EInterrupted, EInput, _flush_response, TypeOK,
         CancelDeferred
<1> QED
  BY <1>1, <1>2, <1>3, <1>4, <1>5, <1>6 DEF TypeOK, turn, players

LEMMA ServerTypes ==
  ASSUME TypeOK, _deferred_flush \/ CancelTask
  PROVE  TypeOK'
<1>1. down' \in Seq(Message)
  <2>1. "idle" \in Message /\ down \in Seq(Message)
    BY DEF TypeOK, Message
  <2> QED
    BY <2>1 DEF _deferred_flush, CancelTask
<1>2. CASE _deferred_flush
  <2>1. UNCHANGED <<aec, gemini, unclosed, cancels, phase, sessionActive, isRecording,
                    audioQueue, turn, players, timer, user, main>>
    BY <1>2 DEF _deferred_flush
  <2>2. deferred' \in {"none", "sleep", "sent"}
    BY <1>2 DEF _deferred_flush
  <2>3. ai_transcript_buf' \in BOOLEAN /\ ai_audio_sent' \in BOOLEAN
    BY <1>2 DEF _deferred_flush, Reset, TypeOK
  <2> QED
    BY <1>1, <2>1, <2>2, <2>3 DEF TypeOK, gemini, turn, players
<1>3. CASE CancelTask
  BY <1>1, <1>3 DEF CancelTask, TypeOK, gemini, relay, turn, players
<1> QED
  BY <1>2, <1>3

LEMMA LaunchTypes ==
  ASSUME TypeOK, ensureAudioPlayerRunning
  PROVE  /\ cancelled' \subseteq Players /\ audioPlayerJob' \in Players \cup {0}
         /\ player' \in [Players -> Places] /\ stopped' \in BOOLEAN /\ overlap' \in BOOLEAN
<1>1. "launched" \in Places
  BY DEF Places
<1> QED
  BY <1>1 DEF TypeOK, ensureAudioPlayerRunning, Launch, players

LEMMA MessageTypes ==
  ASSUME TypeOK, handleMessage
  PROVE  TypeOK'
<1>1. down # <<>> /\ down' = Tail(down)
      /\ UNCHANGED <<aec, gemini, relay, cancels, sessionActive, isRecording, timer, user>>
  BY DEF handleMessage
<1>2. down' \in Seq(Message) /\ Head(down) \in Message
  BY <1>1 DEF TypeOK
<1>3. CASE ReadAudio
  <2>1. /\ cancelled' \subseteq Players /\ audioPlayerJob' \in Players \cup {0}
        /\ player' \in [Players -> Places] /\ stopped' \in BOOLEAN /\ overlap' \in BOOLEAN
    BY <1>3, LaunchTypes DEF ReadAudio
  <2> QED
    BY <1>1, <1>2, <1>3, <2>1 DEF ReadAudio, TypeOK, gemini, relay, turn
<1>4. CASE interruptPlaybackForBargein /\ audioPlayerJob = 0
  <2>1. UNCHANGED <<audioQueue, turn, players, phase, main>>
    BY <1>4 DEF interruptPlaybackForBargein
  <2> QED
    BY <1>1, <1>2, <2>1 DEF TypeOK, gemini, relay, turn, players
<1>5. CASE interruptPlaybackForBargein /\ audioPlayerJob # 0
  <2>1. /\ audioQueue' = 0 /\ ResetTurnComplete(isTurnComplete, audioPlayerJob)
        /\ stopAudioPlayer /\ phase' = "LISTENING" /\ UNCHANGED main
    BY <1>5 DEF interruptPlaybackForBargein
  <2>2. /\ isTurnComplete' \in BOOLEAN /\ missed' \in BOOLEAN
        /\ cancelled' \subseteq Players /\ audioPlayerJob' \in Players \cup {0}
        /\ player' \in [Players -> Places] /\ stopped' \in BOOLEAN /\ overlap' \in BOOLEAN
    BY <2>1, StopTypes, ResetTypes
  <2> QED
    BY <1>1, <1>2, <2>1, <2>2 DEF TypeOK, gemini, relay, Phases
<1>6. CASE ReadProgress
  <2>1. [type |-> Head(down)] \in Post
    BY <1>6 DEF ReadProgress, Post
  <2>2. main' \in Seq(Post)
    BY <1>6, <2>1 DEF ReadProgress, TypeOK
  <2> QED
    BY <1>1, <1>2, <1>6, <2>2 DEF ReadProgress, TypeOK, gemini, relay, turn, players
<1> QED
  BY <1>3, <1>4, <1>5, <1>6 DEF handleMessage

LEMMA PlayerTypes ==
  ASSUME TypeOK, NEW p \in Players, Player(p)
  PROVE  TypeOK'
<1>1. UNCHANGED <<aec, gemini, relay, down, cancels, phase, sessionActive, isRecording,
                  timer, user>>
  BY DEF Player
<1>2. /\ player' \in [Players -> Places] /\ cancelled' \subseteq Players
      /\ audioPlayerJob' \in Players \cup {0} /\ stopped' \in BOOLEAN /\ overlap' \in BOOLEAN
  BY DEF Player, Starts, Drains, DrainIsCancelled, Stragglers, Stops, Cools, Ends, GoesTo, TypeOK,
         Places, players
<1>3. audioQueue' \in Nat
  BY DEF Player, Starts, Drains, DrainIsCancelled, Stragglers, Stops, Cools, TypeOK
<1>4. isTurnComplete' \in BOOLEAN /\ missed' \in BOOLEAN
  BY ResetTypes
     DEF Player, Starts, Drains, DrainIsCancelled, Stragglers, Stops, Cools, TypeOK, turn
<1>5. main' \in Seq(Post)
  <2>1. [type |-> "mute", by |-> p] \in Post /\ [type |-> AfterCooldown] \in Post
    BY DEF Post, AfterCooldown, TypeOK
  <2>2. \/ UNCHANGED main
        \/ main' = Append(main, [type |-> "mute", by |-> p])
        \/ main' = Append(main, [type |-> AfterCooldown])
    BY DEF Player, Starts, Drains, DrainIsCancelled, Stragglers, Stops, Cools
  <2>3. \A e \in Post : Append(main, e) \in Seq(Post)
    BY DEF TypeOK
  <2>4. main \in Seq(Post)
    BY DEF TypeOK
  <2>5. CASE UNCHANGED main
    BY <2>4, <2>5
  <2>6. CASE main' = Append(main, [type |-> "mute", by |-> p])
    BY <2>1, <2>3, <2>6, Zenon
  <2>7. CASE main' = Append(main, [type |-> AfterCooldown])
    BY <2>1, <2>3, <2>7, Zenon
  <2> QED
    BY <2>2, <2>5, <2>6, <2>7
<1> QED
  BY <1>1, <1>2, <1>3, <1>4, <1>5 DEF TypeOK, gemini, relay

LEMMA MainTypes ==
  ASSUME TypeOK, Main
  PROVE  TypeOK'
<1>1. UNCHANGED <<aec, gemini, relay, down, cancels, user>>
  BY DEF Main
<1>2. Tail(main) \in Seq(Post) /\ Head(main) \in Post
  BY DEF Main, TypeOK
<1>3. IsCall(Head(main)) => Head(main).by \in Players
  BY <1>2 DEF IsCall, Post
<1>4. main' \in Seq(Post)
  <2>1. CASE muteMicForPlayback
    <3>1. [type |-> "respond", by |-> Head(main).by] \in Post
      BY <1>3, <2>1 DEF muteMicForPlayback, Posted, Post, IsCall
    <3> QED
      BY <1>2, <2>1, <3>1 DEF muteMicForPlayback
  <2>2. ~muteMicForPlayback => main' = Tail(main)
    BY DEF Main, PlayerIsGone, Respond, Restart, Listen, Quiet, Executing, Idle
  <2> QED
    BY <1>2, <2>1, <2>2
<1>5. /\ player' \in [Players -> Places] /\ cancelled' \subseteq Players
      /\ audioPlayerJob' \in Players \cup {0} /\ stopped' \in BOOLEAN /\ overlap' \in BOOLEAN
  BY <1>3 DEF Main, PlayerIsGone, muteMicForPlayback, Respond, Restart, Listen, Quiet, Executing,
         Idle, Ends, GoesTo, players, TypeOK, Places, Posted, IsCall
<1>6. CASE PlayerIsGone \/ muteMicForPlayback \/ Respond
  BY <1>1, <1>4, <1>5, <1>6
     DEF PlayerIsGone, muteMicForPlayback, Respond, TypeOK, gemini, relay, turn, Phases
<1>7. CASE Restart
  <2>1. /\ isTurnComplete' \in BOOLEAN /\ missed' \in BOOLEAN /\ audioQueue' \in Nat
        /\ isRecording' \in BOOLEAN /\ phase' \in Phases /\ sessionActive' \in BOOLEAN
    BY <1>7, MicTypes DEF Restart, TypeOK
  <2>2. timer' \in BOOLEAN
    BY <1>7, <2>1 DEF Restart
  <2> QED
    BY <1>1, <1>4, <1>5, <2>1, <2>2 DEF TypeOK, gemini, relay
<1>8. CASE Listen \/ Quiet \/ Executing
  <2>1. UNCHANGED <<sessionActive, audioQueue, turn>> /\ phase' \in Phases
    BY <1>8 DEF Listen, Quiet, Executing, Phases
  <2>2. isRecording' \in BOOLEAN
    BY <1>8 DEF Listen, Quiet, Executing, TypeOK
  <2>3. timer' \in BOOLEAN
    BY <1>8 DEF Listen, Quiet, Executing, TypeOK
  <2> QED
    BY <1>1, <1>4, <1>5, <2>1, <2>2, <2>3 DEF TypeOK, gemini, relay, turn
<1>9. CASE Idle
  <2>1. /\ isTurnComplete' \in BOOLEAN /\ missed' \in BOOLEAN /\ audioQueue' \in Nat
        /\ isRecording' \in BOOLEAN /\ phase' \in Phases /\ sessionActive' \in BOOLEAN
    <3>1. CASE ~isRecording /\ sessionActive /\ audioPlayerJob = 0
      BY <1>9, <3>1, MicTypes DEF Idle
    <3>2. CASE ~(~isRecording /\ sessionActive /\ audioPlayerJob = 0)
      <4> DEFINE lost == \E p \in Players \ cancelled : player[p] = "launched"
      <4>1. /\ isTurnComplete' = TRUE /\ missed' = (missed \/ lost)
            /\ phase' = IF ~isRecording /\ ~sessionActive /\ audioPlayerJob = 0
                          THEN "IDLE" ELSE phase
            /\ UNCHANGED <<audioQueue, isRecording, sessionActive>>
        BY <1>9, <3>2 DEF Idle
      <4>2. lost \in BOOLEAN
        OBVIOUS
      <4> HIDE DEF lost
      <4> QED
        BY <4>1, <4>2 DEF TypeOK, Phases
    <3> QED
      BY <3>1, <3>2
  <2>2. UNCHANGED timer
    BY <1>9 DEF Idle
  <2> QED
    BY <1>1, <1>4, <1>5, <2>1, <2>2 DEF TypeOK, gemini, relay
<1> QED
  BY <1>6, <1>7, <1>8, <1>9 DEF Main

LEMMA EnvironmentTypes ==
  ASSUME TypeOK, Environment
  PROVE  TypeOK'
<1>1. UNCHANGED <<aec, relay>>
  BY DEF Environment
<1>2. ASSUME startCapture
      PROVE  /\ isTurnComplete' \in BOOLEAN /\ missed' \in BOOLEAN /\ audioQueue' \in Nat
             /\ isRecording' \in BOOLEAN /\ phase' \in Phases /\ sessionActive' \in BOOLEAN
             /\ cancelled' \subseteq Players /\ audioPlayerJob' \in Players \cup {0}
             /\ player' \in [Players -> Places] /\ stopped' \in BOOLEAN /\ overlap' \in BOOLEAN
             /\ timer' \in BOOLEAN
  BY <1>2, StopTypes, ResetTypes DEF startCapture, TypeOK, Phases
<1>3. ASSUME cancelCapture
      PROVE  /\ isTurnComplete' \in BOOLEAN /\ missed' \in BOOLEAN /\ audioQueue' \in Nat
             /\ isRecording' \in BOOLEAN /\ phase' \in Phases /\ sessionActive' \in BOOLEAN
             /\ cancelled' \subseteq Players /\ audioPlayerJob' \in Players \cup {0}
             /\ player' \in [Players -> Places] /\ stopped' \in BOOLEAN /\ overlap' \in BOOLEAN
             /\ timer' \in BOOLEAN
  BY <1>3, StopTypes DEF cancelCapture, TypeOK, Phases, turn
<1>4. ASSUME Clicks PROVE clicks' \in 0 .. MaxClicks
  BY <1>4, BoundsAssumption DEF Clicks, TypeOK
<1>0. overlay' \in {"shown", "hiding", "hidden", "destroyed"}
  BY DEF Environment, onMicClick, onDismiss, CancelFromNotification, TimerFires, Speak, Noise,
         sendTextCommand, TypeOK
<1>5. CASE onMicClick
  BY <1>0, <1>1, <1>2, <1>3, <1>4, <1>5 DEF onMicClick, TypeOK, gemini, relay
<1>6. CASE onDismiss /\ cancelCapture
  BY <1>0, <1>1, <1>3, <1>4, <1>6 DEF onDismiss, TypeOK, gemini, relay
<1>7. CASE onDismiss /\ ~cancelCapture
  BY <1>0, <1>1, <1>4, <1>7 DEF onDismiss, TypeOK, gemini, relay, turn, players, Phases
<1>8. CASE CancelFromNotification
  BY <1>0, <1>1, <1>3, <1>4, <1>8 DEF CancelFromNotification, TypeOK, gemini, relay
<1>9. CASE TimerFires
  BY <1>0, <1>1, <1>3, <1>9 DEF TimerFires, TypeOK, gemini, relay
<1>10. CASE Speak \/ sendTextCommand
  <2>1. said' \in 0 .. MaxSaid
    BY <1>10, BoundsAssumption DEF Speak, sendTextCommand, TypeOK
  <2>2. answering' = TRUE
        /\ UNCHANGED <<events, cancels, down, phase, sessionActive, isRecording, audioQueue,
                       turn, players, user, main>>
    BY <1>10 DEF Speak, sendTextCommand
  <2>3. timer' \in BOOLEAN
    BY <1>10 DEF Speak, sendTextCommand, TypeOK
  <2> QED
    BY <1>1, <2>1, <2>2, <2>3 DEF TypeOK, relay, turn, players
<1>11. CASE Noise
  BY <1>0, <1>1, <1>11 DEF Noise, TypeOK, gemini, relay, turn, players
<1> QED
  BY <1>5, <1>6, <1>7, <1>8, <1>9, <1>10, <1>11 DEF Environment

LEMMA HideTypes ==
  ASSUME TypeOK, Hide
  PROVE  TypeOK'
<1>1. /\ cancelled' \subseteq Players /\ audioPlayerJob' \in Players \cup {0}
      /\ player' \in [Players -> Places] /\ stopped' \in BOOLEAN /\ overlap' \in BOOLEAN
  BY StopTypes DEF Hide, cancelCapture
<1>2. /\ sessionActive' = FALSE /\ timer' = FALSE /\ isRecording' = FALSE /\ audioQueue' = 0
      /\ phase' \in Phases /\ overlay' = "hidden"
      /\ UNCHANGED <<aec, gemini, relay, turn, down, cancels, clicks, main>>
  BY DEF Hide, cancelCapture, Phases
<1> QED
  BY <1>1, <1>2 DEF TypeOK, gemini, relay, turn

LEMMA DestroyTypes ==
  ASSUME TypeOK, Destroy
  PROVE  TypeOK'
<1>1. player' \in [Players -> Places] /\ main' \in Seq(Post) /\ down' \in Seq(Message)
  BY DEF Destroy, Places
<1>2. /\ cancelled' = {} /\ audioPlayerJob' = 0 /\ overlay' = "destroyed"
      /\ UNCHANGED <<aec, gemini, relay, cancels, phase, sessionActive, isRecording, audioQueue,
                     turn, stopped, overlap, timer, clicks>>
  BY DEF Destroy
<1> QED
  BY <1>1, <1>2 DEF TypeOK, gemini, relay, turn

LEMMA TypeStep ==
  ASSUME TypeOK, [Next]_vars
  PROVE  TypeOK'
<1>1. CASE UNCHANGED vars
  BY <1>1 DEF vars, TypeOK, gemini, relay, turn, players
<1> QED
  BY <1>1, GeminiTypes, ServerTypes, MessageTypes, PlayerTypes, MainTypes, EnvironmentTypes,
     HideTypes, DestroyTypes
     DEF Next, System

-----------------------------------------------------------------------------
(* What the steps do to the players *)

\* Neither the players nor the main thread's queue are touched.
LEMMA Untouched ==
  ASSUME Inv, UNCHANGED <<aec, main>>, UNCHANGED players, isRecording' => isRecording
  PROVE  Core'
BY DEF Inv, Core, players, Known, Sole, Single, RestartFirst, MutedWhilePlaying

\* What no player waits for is posted.
LEMMA PostsOther ==
  ASSUME Inv, UNCHANGED aec, UNCHANGED players, isRecording' => isRecording,
         NEW e \in Post, ~IsCall(e), e.type # "restart", main' = Append(main, e)
  PROVE  Core'
<1>1. /\ Fit(main', player) /\ Once(main') /\ (Ordered(main) => Ordered(main'))
      /\ (Restarts(main') => Restarts(main))
  BY PostNoCall DEF Inv, Core, TypeOK
<1> QED
  BY <1>1 DEF Inv, Core, players, Known, Sole, Single, RestartFirst, MutedWhilePlaying

\* The first block is taken, and the players stay where they are.
LEMMA TakesOther ==
  ASSUME Inv, UNCHANGED aec, UNCHANGED players, main # <<>>, main' = Tail(main), MutedWhilePlaying'
  PROVE  Core'
<1>1. /\ Fit(main', player) /\ Once(main') /\ (Ordered(main) => Ordered(main'))
      /\ (Restarts(main') => Restarts(main))
  BY Taking DEF Inv, Core, TypeOK
<1> QED
  BY <1>1 DEF Inv, Core, players, Known, Sole, Single, RestartFirst

\* The player the controller knows of is cancelled: then nobody plays that was not.
LEMMA StopsMic ==
  ASSUME Inv, UNCHANGED <<aec, main>>, stopAudioPlayer
  PROVE  Core'
<1>1. /\ cancelled' = cancelled \cup ({audioPlayerJob} \ {0}) /\ audioPlayerJob' = 0
      /\ stopped' = (stopped \/ audioPlayerJob # 0)
      /\ UNCHANGED <<player, overlap>>
  BY DEF stopAudioPlayer
<1>2. Fit(main', player') /\ Once(main') /\ RestartFirst'
  BY <1>1 DEF Inv, Core, RestartFirst
<1>3. Known'
  BY <1>1 DEF Inv, Core, Known, Active
<1>4. Sole'
  BY <1>1 DEF Inv, Core, Sole
<1>5. 0 \notin Players
  BY PlayersAssumption
<1>6. overlap \/ \A p \in Players \ cancelled' : player'[p] \notin Active
  BY <1>1, <1>5 DEF Inv, Core, Single
<1>7. Single'
  BY <1>1, <1>6 DEF Inv, Core, Single
<1>8. MutedWhilePlaying'
  BY <1>1, <1>6 DEF MutedWhilePlaying, Active
<1> QED
  BY <1>2, <1>3, <1>4, <1>7, <1>8 DEF Core

\* A player is launched only when the controller knows of none.
LEMMA LaunchesPlayer ==
  ASSUME Inv, UNCHANGED <<aec, main, isRecording>>, ensureAudioPlayerRunning
  PROVE  Core'
<1>1. CASE UNCHANGED players
  BY <1>1, Untouched
<1>2. CASE audioPlayerJob = 0 /\ Launch
  <2> PICK p \in Players :
        /\ player[p] = "none"
        /\ player' = [player EXCEPT ![p] = "launched"] /\ audioPlayerJob' = p
        /\ overlap' = (overlap \/ \E q \in Players : player[q] # "none")
        /\ UNCHANGED <<cancelled, stopped>>
    BY <1>2 DEF Launch
  <2>1. /\ player'[p] = "launched" /\ p # 0 /\ p \notin cancelled
        /\ \A q \in Players : q # p => player'[q] = player[q]
    BY PlayersAssumption DEF Inv, Core, Known, TypeOK
  <2>2. Fit(main', player') /\ Once(main')
    BY NobodyElseWaits, PlayerGoes DEF Inv, Core, TypeOK
  <2>3. Known'
    BY <2>1 DEF Inv, Core, Known, Active, TypeOK
  <2>4. Sole'
    BY <1>2, <2>1, PlayersAssumption DEF Inv, Core, Sole
  <2>5. Single'
    BY <2>1 DEF Single, Active
  <2>6. RestartFirst'
    BY <2>1 DEF Inv, Core, RestartFirst, Early
  <2>7. MutedWhilePlaying'
    BY <2>1 DEF Inv, Core, MutedWhilePlaying
  <2> QED
    BY <2>2, <2>3, <2>4, <2>5, <2>6, <2>7 DEF Core
<1> QED
  BY <1>1, <1>2 DEF ensureAudioPlayerRunning

\* A player is at its end, which no player the controller knows of is.
LEMMA PlayerEnds ==
  ASSUME Inv, UNCHANGED <<aec, isRecording>>, NEW p \in Players, Ends(p),
         p \in cancelled \/ player[p] = "cooling",
         NEW s, s \in Seq(Post), Fit(s, player), Once(s), ~Waits(s, p), main' = s,
         overlap \/ (Ordered(s) /\ (Restarts(s) => Early(player')))
  PROVE  Core'
<1>1. /\ player' = [player EXCEPT ![p] = "none"] /\ cancelled' = cancelled \ {p}
      /\ UNCHANGED <<audioPlayerJob, stopped, overlap>>
  BY DEF Ends
<1>2. player'[p] = "none" /\ \A q \in Players : q # p => player'[q] = player[q]
  BY <1>1 DEF Inv, TypeOK
<1>3. p # audioPlayerJob
  BY PlayersAssumption DEF Inv, Core, Known, Active
<1>4. Fit(main', player') /\ Once(main')
  BY <1>1, PlayerGoes DEF Inv, TypeOK
<1>5. Known'
  BY <1>1, <1>2, <1>3 DEF Inv, Core, Known, TypeOK
<1>6. Sole'
  BY <1>1, <1>2 DEF Inv, Core, Sole, Active
<1>7. Single'
  BY <1>1, <1>2 DEF Inv, Core, Single, Active
<1>8. RestartFirst'
  BY <1>1 DEF RestartFirst
<1>9. MutedWhilePlaying'
  BY <1>1, <1>2 DEF Inv, Core, MutedWhilePlaying
<1> QED
  BY <1>4, <1>5, <1>6, <1>7, <1>8, <1>9 DEF Core

\* A player at work goes on to another place at work.
LEMMA PlayerGoesOn ==
  ASSUME Inv, UNCHANGED <<aec>>, NEW p \in Players, player[p] \in Active,
         NEW place \in Active, GoesTo(p, place),
         NEW s, s \in Seq(Post), Fit(s, [player EXCEPT ![p] = place]), Once(s), main' = s,
         overlap \/ (Ordered(s) /\ (Restarts(s) => Early(player'))),
         isRecording' => isRecording,
         \/ place \notin {"responding", "draining", "stragglers"}
         \/ player[p] \in {"responding", "draining", "stragglers"}
         \/ isRecording' = (isRecording /\ aec)
         \/ p \in cancelled
  PROVE  Core'
<1>1. /\ player' = [player EXCEPT ![p] = place]
      /\ UNCHANGED <<cancelled, audioPlayerJob, stopped, overlap>>
  BY DEF GoesTo
<1>2. player'[p] = place /\ \A q \in Players : q # p => player'[q] = player[q]
  BY <1>1 DEF Inv, TypeOK
<1>3. Fit(main', player') /\ Once(main')
  BY <1>1
<1>4. Known'
  BY <1>1, <1>2 DEF Inv, Core, Known, TypeOK, Active
<1>5. Sole'
  BY <1>1, <1>2 DEF Inv, Core, Sole
<1>6. Single'
  BY <1>1, <1>2 DEF Inv, Core, Single, Active
<1>7. RestartFirst'
  BY <1>1 DEF RestartFirst
<1>8. MutedWhilePlaying'
  BY <1>1, <1>2 DEF Inv, Core, MutedWhilePlaying
<1> QED
  BY <1>3, <1>4, <1>5, <1>6, <1>7, <1>8 DEF Core

-----------------------------------------------------------------------------
(* The steps *)

LEMMA ServerStep ==
  ASSUME Inv, Gemini \/ _deferred_flush \/ CancelTask
  PROVE  Core'
<1>1. UNCHANGED <<aec, main>> /\ UNCHANGED players /\ UNCHANGED isRecording
  BY DEF Gemini, _deferred_flush, CancelTask
<1> QED
  BY <1>1, Untouched

LEMMA MessageStep ==
  ASSUME Inv, handleMessage
  PROVE  Core'
<1>1. UNCHANGED <<aec, isRecording>> /\ down # <<>>
  BY DEF handleMessage
<1>2. CASE ReadAudio
  <2>1. UNCHANGED main /\ ensureAudioPlayerRunning
    BY <1>2 DEF ReadAudio
  <2> QED
    BY <1>1, <2>1, LaunchesPlayer
<1>3. CASE interruptPlaybackForBargein
  <2>1. UNCHANGED main /\ (UNCHANGED players \/ stopAudioPlayer)
    BY <1>3 DEF interruptPlaybackForBargein
  <2> QED
    BY <1>1, <2>1, StopsMic, Untouched
<1>4. CASE ReadProgress
  <2> DEFINE e == [type |-> Head(down)]
  <2>1. main' = Append(main, e) /\ UNCHANGED players
    BY <1>4 DEF ReadProgress
  <2>2. e \in Post /\ ~IsCall(e) /\ e.type # "restart"
    BY <1>4 DEF ReadProgress, Post, IsCall
  <2> HIDE DEF e
  <2> QED
    BY <1>1, <2>1, <2>2, PostsOther
<1> QED
  BY <1>2, <1>3, <1>4 DEF handleMessage

LEMMA EnvironmentStep ==
  ASSUME Inv, Environment
  PROVE  Core'
<1>1. UNCHANGED <<aec, main>>
  BY DEF Environment, onMicClick, onDismiss, CancelFromNotification, TimerFires, Speak, Noise,
         sendTextCommand
<1>2. \/ stopAudioPlayer
      \/ UNCHANGED players /\ UNCHANGED isRecording
  BY DEF Environment, onMicClick, onDismiss, CancelFromNotification, TimerFires, Speak, Noise,
         sendTextCommand, startCapture, cancelCapture
<1> QED
  BY <1>1, <1>2, StopsMic, Untouched

LEMMA HideStep ==
  ASSUME Inv, Hide
  PROVE  Core'
BY StopsMic DEF Hide, cancelCapture

\* With the service everything that plays, or is posted, is gone.
LEMMA DestroyStep ==
  ASSUME Inv, Destroy
  PROVE  Core'
<1>1. /\ \A p \in Players : player'[p] = "none"
      /\ cancelled' = {} /\ audioPlayerJob' = 0 /\ main' = <<>> /\ DOMAIN main' = {}
      /\ UNCHANGED <<stopped, overlap>>
  BY DEF Destroy
<1>2. Fit(main', player') /\ Once(main')
  BY <1>1 DEF Fit, Once
<1>3. RestartFirst'
  BY <1>1 DEF RestartFirst, Ordered, Restarts
<1>4. Known' /\ Sole' /\ Single' /\ MutedWhilePlaying'
  BY <1>1 DEF Known, Sole, Single, MutedWhilePlaying, Active
<1> QED
  BY <1>2, <1>3, <1>4 DEF Core

\* The gate is passed: a player that is not cancelled waits to be muted.
LEMMA StartsStep ==
  ASSUME Inv, NEW p \in Players, Starts(p), UNCHANGED <<aec, isRecording>>
  PROVE  Core'
<1>1. main \in Seq(Post) /\ player \in [Players -> Places] /\ Fit(main, player) /\ Once(main)
  BY DEF Inv, Core, TypeOK
<1>2. player[p] = "launched" /\ ~Waits(main, p)
  BY <1>1, NobodyElseWaits DEF Starts
<1>3. overlap \/ Ordered(main)
  BY DEF Inv, Core, RestartFirst
<1>4. overlap \/ (Restarts(main) => Early(player))
  BY DEF Inv, Core, RestartFirst
<1>5. CASE p \in cancelled
  <2>1. Ends(p) /\ main' = main
    BY <1>5 DEF Starts, turn
  <2>2. Early(player) => Early(player')
    BY <1>1, <2>1 DEF Early, Ends
  <2> QED
    BY <1>1, <1>2, <1>3, <1>4, <1>5, <2>1, <2>2, PlayerEnds
<1>6. CASE p \notin cancelled
  <2> DEFINE e == [type |-> "mute", by |-> p]
             pl == [player EXCEPT ![p] = "muting"]
             t == Append(main, e)
  <2>1. GoesTo(p, "muting") /\ main' = t
    BY <1>6 DEF Starts
  <2>2. e \in Post /\ IsCall(e) /\ e.by = p /\ e.type = "mute"
    BY DEF Post, IsCall
  <2>3. pl[p] = "muting"
    BY <1>1
  <2>4. Fit(main, pl)
    BY <1>1, <1>2, PlayerGoes
  <2>5. t = Append(main, e)
    OBVIOUS
  <2>6. player' = pl
    BY <2>1 DEF GoesTo
  <2>7. Early(player) => Early(pl)
    BY <1>1 DEF Early
  <2> HIDE DEF e, pl, t
  <2>8. /\ t \in Seq(Post) /\ Fit(t, pl) /\ Once(t) /\ (Ordered(main) => Ordered(t))
        /\ (Restarts(t) => Restarts(main))
    BY <1>1, <1>2, <2>2, <2>3, <2>4, <2>5, PostCall
  <2>9. Fit(t, [player EXCEPT ![p] = "muting"])
    BY <2>8 DEF pl
  <2>10. "muting" \in Active /\ player[p] \in Active
    BY <1>2 DEF Active
  <2>11. overlap \/ (Ordered(t) /\ (Restarts(t) => Early(player')))
    BY <1>3, <1>4, <2>6, <2>7, <2>8
  <2> QED
    BY <2>1, <2>8, <2>9, <2>10, <2>11, PlayerGoesOn
<1> QED
  BY <1>5, <1>6

\* A player that waits for nothing goes on, and nothing is posted.
LEMMA GoesOnAlone ==
  ASSUME Inv, UNCHANGED <<aec, main, isRecording>>, NEW p \in Players,
         player[p] \in {"draining", "stragglers"},
         NEW place \in {"stragglers", "stopping"}, GoesTo(p, place)
  PROVE  Core'
<1>1. main \in Seq(Post) /\ player \in [Players -> Places] /\ Fit(main, player) /\ Once(main)
  BY DEF Inv, Core, TypeOK
<1>2. ~Waits(main, p)
  BY <1>1, NobodyElseWaits
<1>3. Fit(main, [player EXCEPT ![p] = place])
  BY <1>1, <1>2, PlayerGoes
<1>4. overlap \/ (Ordered(main) /\ ~Restarts(main))
  BY DEF Inv, Core, RestartFirst, Early
<1>5. player[p] \in Active /\ place \in Active
  BY DEF Active
<1> QED
  BY <1>1, <1>3, <1>4, <1>5, PlayerGoesOn

\* The controller forgets its player, the cooldown begins.
LEMMA StopsStep ==
  ASSUME Inv, UNCHANGED <<aec, isRecording>>, NEW p \in Players, Stops(p)
  PROVE  Core'
<1>1. /\ player[p] = "stopping" /\ player' = [player EXCEPT ![p] = "cooling"]
      /\ audioPlayerJob' = 0 /\ UNCHANGED <<cancelled, stopped, overlap, main>>
  BY DEF Stops
<1>2. player'[p] = "cooling" /\ \A q \in Players : q # p => player'[q] = player[q]
  BY <1>1 DEF Inv, TypeOK
<1>3. Fit(main', player') /\ Once(main')
  BY <1>1, NobodyElseWaits, PlayerGoes DEF Inv, Core, TypeOK
<1>4. Known'
  BY <1>1, <1>2 DEF Inv, Core, Known, TypeOK
<1>5. Sole'
  BY <1>1, <1>2 DEF Inv, Core, Sole, Active
<1>6. Single'
  BY <1>1, <1>2 DEF Inv, Core, Single, Active
<1>7. RestartFirst'
  BY <1>1 DEF Inv, Core, RestartFirst, Early
<1>8. MutedWhilePlaying'
  BY <1>1, <1>2 DEF Inv, Core, MutedWhilePlaying
<1> QED
  BY <1>3, <1>4, <1>5, <1>6, <1>7, <1>8 DEF Core

\* A player that is alone when it posts the restart leaves no player behind.
LEMMA CoolsStep ==
  ASSUME Inv, UNCHANGED <<aec, isRecording>>, NEW p \in Players, Cools(p)
  PROVE  Core'
<1>1. main \in Seq(Post) /\ player \in [Players -> Places] /\ Fit(main, player) /\ Once(main)
  BY DEF Inv, Core, TypeOK
<1>2. player[p] = "cooling" /\ Ends(p) /\ ~Waits(main, p)
  BY <1>1, NobodyElseWaits DEF Cools
<1>3. overlap \/ (Ordered(main) /\ ~Restarts(main))
  BY <1>2 DEF Inv, Core, RestartFirst, Early
<1>4. CASE p \in cancelled
  <2>1. main' = main
    BY <1>4 DEF Cools
  <2> QED
    BY <1>1, <1>2, <1>3, <1>4, <2>1, PlayerEnds
<1>5. CASE p \notin cancelled
  <2> DEFINE e == [type |-> AfterCooldown]
             t == Append(main, e)
  <2>1. main' = t
    BY <1>5 DEF Cools
  <2>2. e \in Post /\ ~IsCall(e)
    BY DEF Post, AfterCooldown, IsCall, Inv, TypeOK
  <2>3. t = Append(main, e)
    OBVIOUS
  <2> HIDE DEF e, t
  <2>4. /\ t \in Seq(Post) /\ Fit(t, player) /\ Once(t)
        /\ ((\A i \in DOMAIN main : main[i].type # "mute") => Ordered(t))
    BY <1>1, <2>2, <2>3, PostNoCall
  <2>5. ~Waits(t, p)
    BY <1>2, <2>4, NobodyElseWaits
  <2>6. ASSUME ~overlap PROVE Ordered(t) /\ Early(player')
    <3>1. \A q \in Players : player[q] # "none" => q = p
      BY <1>2, <2>6 DEF Inv, Core, Single
    <3>2. Early(player')
      BY <1>1, <1>2, <3>1 DEF Early, Ends
    <3>3. ASSUME NEW i \in DOMAIN main, main[i].type = "mute" PROVE FALSE
      <4>1. main[i] \in Post
        BY <1>1
      <4>2. main[i].by \in Players
        BY <3>3, <4>1 DEF Post
      <4>3. player[main[i].by] = "muting"
        BY <1>1, <3>3 DEF Fit
      <4> QED
        BY <1>2, <3>1, <4>2, <4>3
    <3> QED
      BY <2>4, <3>2, <3>3
  <2> QED
    BY <1>2, <2>1, <2>4, <2>5, <2>6, PlayerEnds
<1> QED
  BY <1>4, <1>5

LEMMA PlayerStep ==
  ASSUME Inv, NEW p \in Players, Player(p)
  PROVE  Core'
<1>1. UNCHANGED <<aec, isRecording>>
  BY DEF Player
<1>2. ASSUME Drains(p) \/ DrainIsCancelled(p) \/ Stragglers(p) PROVE Core'
  <2>1. UNCHANGED main
    BY <1>2 DEF Drains, DrainIsCancelled, Stragglers
  <2>2. CASE UNCHANGED players
    BY <1>1, <2>1, <2>2, Untouched
  <2>3. CASE Ends(p) /\ DrainIsCancelled(p)
    <3>1. main \in Seq(Post) /\ Fit(main, player) /\ Once(main)
      BY DEF Inv, Core, TypeOK
    <3>2. p \in cancelled /\ ~Waits(main, p)
      BY <2>3, <3>1, NobodyElseWaits DEF DrainIsCancelled
    <3>3. overlap \/ (Ordered(main) /\ ~Restarts(main))
      BY <2>3 DEF Inv, Core, RestartFirst, Early, DrainIsCancelled
    <3> QED
      BY <1>1, <2>1, <2>3, <3>1, <3>2, <3>3, PlayerEnds
  <2>4. CASE \E place \in {"stragglers", "stopping"} : GoesTo(p, place)
    <3>1. player[p] \in {"draining", "stragglers"}
      BY <1>2 DEF Drains, DrainIsCancelled, Stragglers
    <3> QED
      BY <1>1, <2>1, <2>4, <3>1, GoesOnAlone
  <2> QED
    BY <1>2, <2>2, <2>3, <2>4 DEF Drains, DrainIsCancelled, Stragglers
<1> QED
  BY <1>1, <1>2, StartsStep, StopsStep, CoolsStep DEF Player

LEMMA GoneStep ==
  ASSUME Inv, main # <<>>, PlayerIsGone, UNCHANGED <<aec, isRecording>>
  PROVE  Core'
<1> DEFINE p == Head(main).by
           s == Tail(main)
<1>1. main \in Seq(Post) /\ player \in [Players -> Places] /\ Fit(main, player) /\ Once(main)
  BY DEF Inv, Core, TypeOK
<1>2. IsCall(Head(main)) /\ p \in cancelled /\ Ends(p) /\ main' = s
  BY DEF PlayerIsGone, IsCall
<1>3. s = Tail(main)
  OBVIOUS
<1> HIDE DEF s
<1>4. /\ s \in Seq(Post) /\ Fit(s, player) /\ Once(s)
      /\ Ordered(main) => Ordered(s)
      /\ Restarts(s) => Restarts(main)
  BY <1>1, <1>3, Taking
<1>5. ~Waits(s, p) /\ p \in Players
  BY <1>1, <1>2, <1>3, Taking
<1>6. Early(player) => Early(player')
  BY <1>1, <1>2 DEF Early, Ends
<1> HIDE DEF p
<1>7. overlap \/ (Ordered(s) /\ (Restarts(s) => Early(player')))
  BY <1>4, <1>6 DEF Inv, Core, RestartFirst
<1> QED
  BY <1>2, <1>4, <1>5, <1>7, PlayerEnds

\* The microphone is muted before the player is told to respond.
LEMMA MuteStep ==
  ASSUME Inv, main # <<>>, muteMicForPlayback, UNCHANGED aec
  PROVE  Core'
<1> DEFINE p == Head(main).by
           s == Tail(main)
           e == [type |-> "respond", by |-> p]
           t == Append(s, e)
           pl == [player EXCEPT ![p] = "responding"]
<1>1. main \in Seq(Post) /\ player \in [Players -> Places] /\ Fit(main, player) /\ Once(main)
  BY DEF Inv, Core, TypeOK
<1>2. /\ Head(main).type = "mute" /\ GoesTo(p, "responding") /\ main' = t
      /\ isRecording' = (isRecording /\ aec)
  BY DEF muteMicForPlayback, Posted
<1>3. s = Tail(main) /\ t = Append(s, e) /\ player' = pl
  BY <1>2 DEF GoesTo
<1>4. p \in Players /\ player[p] = "muting"
  BY <1>1, <1>2, Taking DEF IsCall
<1>5. e \in Post /\ IsCall(e) /\ e.by = p /\ e.type = "respond"
  BY <1>4 DEF Post, IsCall
<1>6. pl[p] = "responding"
  BY <1>1, <1>4
<1> HIDE DEF s, e, t
<1>7. s \in Seq(Post) /\ Fit(s, player) /\ Once(s) /\ ~Waits(s, p)
  BY <1>1, <1>2, <1>3, Taking DEF IsCall
<1>8. overlap \/ (Ordered(s) /\ ~Restarts(s))
  BY <1>1, <1>2, <1>3, Taking DEF Inv, Core, RestartFirst
<1>9. Fit(s, pl)
  BY <1>1, <1>4, <1>7, PlayerGoes
<1> HIDE DEF pl, p
<1>10. /\ t \in Seq(Post) /\ Fit(t, pl) /\ Once(t) /\ (Ordered(s) => Ordered(t))
       /\ (Restarts(t) => Restarts(s))
  BY <1>3, <1>4, <1>5, <1>6, <1>7, <1>9, PostCall
<1>11. Fit(t, [player EXCEPT ![p] = "responding"])
  BY <1>10 DEF pl
<1>12. "responding" \in Active /\ player[p] \in Active
  BY <1>4 DEF Active
<1>13. overlap \/ (Ordered(t) /\ (Restarts(t) => Early(player')))
  BY <1>8, <1>10
<1>14. isRecording' => isRecording
  BY <1>2
<1> QED
  BY <1>2, <1>4, <1>10, <1>11, <1>12, <1>13, <1>14, PlayerGoesOn

LEMMA RespondStep ==
  ASSUME Inv, main # <<>>, Respond, UNCHANGED aec
  PROVE  Core'
<1> DEFINE p == Head(main).by
           s == Tail(main)
           pl == [player EXCEPT ![p] = "draining"]
<1>1. main \in Seq(Post) /\ player \in [Players -> Places] /\ Fit(main, player) /\ Once(main)
  BY DEF Inv, Core, TypeOK
<1>2. /\ Head(main).type = "respond" /\ GoesTo(p, "draining") /\ main' = s
      /\ UNCHANGED isRecording
  BY DEF Respond, Posted
<1>3. s = Tail(main)
  OBVIOUS
<1>4. p \in Players /\ player[p] = "responding"
  BY <1>1, <1>2, Taking DEF IsCall
<1> HIDE DEF s
<1>5. /\ s \in Seq(Post) /\ Fit(s, player) /\ Once(s) /\ ~Waits(s, p)
      /\ (Ordered(main) => Ordered(s)) /\ (Restarts(s) => Restarts(main))
  BY <1>1, <1>2, <1>3, Taking DEF IsCall
<1>6. overlap \/ (Ordered(s) /\ ~Restarts(s))
  BY <1>4, <1>5 DEF Inv, Core, RestartFirst, Early
<1>7. Fit(s, pl)
  BY <1>1, <1>4, <1>5, PlayerGoes
<1>8. "draining" \in Active /\ player[p] \in Active
  BY <1>4 DEF Active
<1> HIDE DEF p
<1> QED
  BY <1>2, <1>4, <1>5, <1>6, <1>7, <1>8, PlayerGoesOn

\* The microphone is opened when nobody has begun to play, ...
LEMMA RestartStep ==
  ASSUME Inv, main # <<>>, Restart, UNCHANGED aec
  PROVE  Core'
<1>1. main' = Tail(main) /\ UNCHANGED players /\ Head(main).type = "restart"
  BY DEF Restart, Posted
<1>2. Restarts(main)
  BY <1>1, Taking DEF Inv, Core, TypeOK
<1>3. overlap \/ Early(player)
  BY <1>2 DEF Inv, Core, RestartFirst
<1>4. MutedWhilePlaying'
  BY <1>1, <1>3 DEF MutedWhilePlaying, Early, players
<1> QED
  BY <1>1, <1>4, TakesOther

\* ... or when the controller knows of no player.
LEMMA IdleStep ==
  ASSUME Inv, main # <<>>, Idle, UNCHANGED aec
  PROVE  Core'
<1>1. main' = Tail(main) /\ UNCHANGED players
  BY DEF Idle
<1>2. audioPlayerJob = 0 \/ UNCHANGED isRecording
  BY DEF Idle
<1>3. CASE audioPlayerJob = 0
  <2>1. overlap \/ \A p \in Players \ cancelled : player[p] \notin Active
    BY <1>3, PlayersAssumption DEF Inv, Core, Single
  <2> QED
    BY <1>1, <2>1, TakesOther DEF MutedWhilePlaying, Active, players
<1>4. CASE UNCHANGED isRecording
  <2>1. MutedWhilePlaying'
    BY <1>1, <1>4 DEF Inv, Core, MutedWhilePlaying, players
  <2> QED
    BY <1>1, <2>1, TakesOther
<1> QED
  BY <1>2, <1>3, <1>4

LEMMA MainStep ==
  ASSUME Inv, Main
  PROVE  Core'
<1>1. UNCHANGED aec /\ main # <<>>
  BY DEF Main
<1>2. CASE PlayerIsGone
  BY <1>1, <1>2, GoneStep DEF PlayerIsGone
<1>3. CASE Listen \/ Quiet \/ Executing
  <2>1. main' = Tail(main) /\ UNCHANGED players /\ (isRecording' => isRecording)
    BY <1>3 DEF Listen, Quiet, Executing
  <2>2. MutedWhilePlaying'
    BY <1>1, <2>1 DEF Inv, Core, MutedWhilePlaying, players
  <2> QED
    BY <1>1, <2>1, <2>2, TakesOther
<1> QED
  BY <1>1, <1>2, <1>3, MuteStep, RespondStep, RestartStep, IdleStep DEF Main

-----------------------------------------------------------------------------
(* The theorems *)

LEMMA InvInit == Init => Inv
<1> SUFFICES ASSUME Init PROVE Inv
  OBVIOUS
<1>1. TypeOK
  <2>1. 0 \in 0 .. MaxSaid /\ 0 \in 0 .. MaxEvents /\ 0 \in 0 .. MaxClicks
    BY BoundsAssumption
  <2>2. <<>> \in Seq(Message) /\ <<>> \in Seq(Post)
    OBVIOUS
  <2>3. player \in [Players -> Places]
    BY DEF Init, Places
  <2> QED
    BY <2>1, <2>2, <2>3 DEF Init, TypeOK, Phases
<1>2. main = <<>> /\ DOMAIN main = {}
  BY DEF Init
<1>3. Fit(main, player) /\ Once(main) /\ RestartFirst
  BY <1>2 DEF Fit, Once, RestartFirst, Ordered, Restarts
<1>4. Known /\ Sole /\ Single /\ MutedWhilePlaying
  BY DEF Init, Known, Sole, Single, MutedWhilePlaying, Active
<1> QED
  BY <1>1, <1>3, <1>4 DEF Inv, Core

LEMMA InvStep == Inv /\ [Next]_vars => Inv'
<1> SUFFICES ASSUME Inv, [Next]_vars PROVE Inv'
  OBVIOUS
<1>1. TypeOK'
  BY TypeStep DEF Inv
<1>2. ASSUME UNCHANGED vars PROVE Core'
  BY <1>2, Untouched DEF vars
<1>3. ASSUME Next PROVE Core'
  BY <1>3, ServerStep, MessageStep, PlayerStep, MainStep, EnvironmentStep, HideStep, DestroyStep
     DEF Next, System
<1> QED
  BY <1>1, <1>2, <1>3 DEF Inv

LEMMA InvHolds == Spec => []Inv
BY InvInit, InvStep, PTL DEF Spec

\* Every variable of the session, the relay's and the phone's, stays in its type.
THEOREM TypeCorrect == Spec => []TypeOK
<1>1. Inv => TypeOK
  BY DEF Inv
<1> QED
  BY <1>1, InvHolds, PTL

\* ensureAudioPlayerRunning launches one player at a time: as long as none has been
\* cancelled, two coroutines never take chunks from the queue, for any number of players.
THEOREM OneConsumerHolds == Spec => []OneConsumer
<1>1. Inv => OneConsumer
  BY DEF Inv, Core, Sole, OneConsumer, Active
<1> QED
  BY <1>1, InvHolds, PTL

\* muteMicForPlayback before RESPONDING: without an echo canceller the microphone is closed
\* while an answer is played, unless two players overlap.
THEOREM MutedWhilePlayingHolds == Spec => []MutedWhilePlaying
<1>1. Inv => MutedWhilePlaying
  BY DEF Inv, Core
<1> QED
  BY <1>1, InvHolds, PTL

=============================================================================
