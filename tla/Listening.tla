------------------------------ MODULE Listening ------------------------------
(***************************************************************************)
(* Who has the phone's microphone: the wake word detector with the jobs it *)
(* starts on the IO threads, the service that switches it on and off, the  *)
(* ListeningModeController both go by, and the voice capture that records  *)
(* commands and reports when they are complete.                            *)
(*                                                                         *)
(* What runs on the main thread runs one piece at a time; main is the      *)
(* queue of the pieces that were posted to it.  A step of the user or of   *)
(* the system is a piece that was queued before those.                     *)
(***************************************************************************)
EXTENDS Naturals, Sequences

CONSTANTS
  Jobs,       \* bound: the detection jobs alive at one time
  MaxEvents   \* bound: what the user does, the wake words, the microphone's failures

ASSUME JobsAssumption == Jobs \subseteq Nat \ {0}

ASSUME EventsAssumption == MaxEvents \in Nat

Mode == {"OFF", "PASSIVE", "ACTIVE"}

VARIABLES
  mode,          \* ListeningModeController.currentMode
  main,          \* the pieces of work posted to the main thread
  enabled,       \* WakeWordListeningService: isWakeWordEnabled
  activeModeSince,  \* ... is not 0
  detector,      \* the detector the service has, 0 for none
  listening,     \* its isListening
  listeningJob,  \* the job it started last, 0 for none or a cancelled one
  job,           \* the jobs
  created,       \* the detectors created so far
  autoStart,     \* the overlays on their way to be shown and to start a capture
  recording,     \* VoiceCaptureController: isRecording
  sent,          \* the voice commands sent and not transcribed
  waiting,       \* the commands sent that have no answer yet
  speaking,      \* an answer is being spoken, and its callback waits
  completing,    \* a thread of its own is in transitionToPassive: the mode it read
  events,        \* what has happened so far
  broken,        \* history: a detection ended although nobody stopped it
  overtaken      \* history: the mode changed between that thread's reading and writing it

service == <<enabled, activeModeSince>>

detection == <<detector, listening, listeningJob, job, created, broken>>

capture == <<autoStart, recording, sent, waiting, speaking>>

vars == <<mode, main, service, detection, capture, completing, events, overtaken>>

\* of: the detector that started it; record: its AudioRecord is none, the one in the
\* detector's field, or one that another has replaced there.
Job == [pc : {"none", "launched", "capturing", "telling", "closing", "failing", "reporting"},
        of : Nat, cancelled : BOOLEAN, record : {"none", "held", "replaced"}]

NoJob == [pc |-> "none", of |-> 0, cancelled |-> FALSE, record |-> "none"]

Post == [type : {"mode"}, old : Mode, new : Mode]
        \cup [type : {"heard", "clear"}, by : Jobs]
        \cup [type : {"complete"}]

TypeOK ==
  /\ mode \in Mode /\ main \in Seq(Post)
  /\ enabled \in BOOLEAN /\ activeModeSince \in BOOLEAN
  /\ detector \in Nat /\ listening \in BOOLEAN /\ listeningJob \in Jobs \cup {0}
  /\ job \in [Jobs -> Job] /\ created \in Nat
  /\ autoStart \in Nat /\ recording \in BOOLEAN
  /\ sent \in Nat /\ waiting \in Nat /\ speaking \in BOOLEAN
  /\ completing \in Mode \cup {"none"}
  /\ events \in 0 .. MaxEvents /\ broken \in BOOLEAN /\ overtaken \in BOOLEAN

Init ==
  /\ mode = "OFF" /\ main = <<>>
  /\ enabled = FALSE /\ activeModeSince = FALSE
  /\ detector = 0 /\ listening = FALSE /\ listeningJob = 0
  /\ job = [j \in Jobs |-> NoJob] /\ created = 0
  /\ autoStart = 0 /\ recording = FALSE /\ sent = 0 /\ waiting = 0 /\ speaking = FALSE
  /\ completing = "none"
  /\ events = 0 /\ broken = FALSE /\ overtaken = FALSE

-----------------------------------------------------------------------------
(* The mode controller *)

ModeChanged(old, new) == [type |-> "mode", old |-> old, new |-> new]

\* In PASSIVE only the listeners are told, to arm the detector again.
transitionToPassiveFrom(old, posts) ==
  /\ mode' = IF old = "PASSIVE" THEN mode ELSE "PASSIVE"
  /\ main' = Append(posts, ModeChanged(old, "PASSIVE"))

transitionToPassive(posts) == transitionToPassiveFrom(mode, posts)

-----------------------------------------------------------------------------
(* The detector: its jobs run on the IO threads *)

SameDetector(j, k) == job[j].pc # "none" /\ job[j].of = job[k].of

\* What another job's AudioRecord becomes when j puts its own in the field.
Replaced(js, j) ==
  [k \in Jobs |-> IF SameDetector(k, j) /\ js[k].record = "held"
                    THEN [js[k] EXCEPT !.record = "replaced"] ELSE js[k]]

\* The finally of startAudioCapture releases whichever AudioRecord is in the field.
Released(js, j) ==
  [k \in Jobs |-> IF SameDetector(k, j) /\ js[k].record = "held"
                    THEN [js[k] EXCEPT !.record = "none"] ELSE js[k]]

InField(j) == {k \in Jobs : SameDetector(k, j) /\ job[k].record = "held"}

\* A job that was cancelled before it ran never runs.
NeverRuns(j) ==
  /\ job[j].pc = "launched" /\ job[j].cancelled
  /\ job' = [job EXCEPT ![j] = NoJob]
  /\ UNCHANGED <<main, events, broken>>

Opens(j) ==
  /\ job[j].pc = "launched" /\ ~job[j].cancelled
  /\ job' = [Replaced(job, j) EXCEPT ![j].pc = "capturing", ![j].record = "held"]
  /\ UNCHANGED <<main, events, broken>>

\* No AudioRecord to be had: isListening is reset here, and again when the job ends.
OpenFails(j) ==
  /\ job[j].pc = "launched" /\ ~job[j].cancelled /\ events < MaxEvents
  /\ events' = events + 1 /\ broken' = TRUE
  /\ job' = [Replaced(job, j) EXCEPT ![j].pc = "failing"]
  /\ main' = Append(main, [type |-> "clear", by |-> j])

Hears(j) ==
  /\ job[j].pc = "capturing" /\ ~job[j].cancelled /\ InField(j) # {} /\ events < MaxEvents
  /\ events' = events + 1
  /\ job' = [job EXCEPT ![j].pc = "telling"]
  /\ main' = Append(main, [type |-> "heard", by |-> j])
  /\ UNCHANGED broken

\* The read fails: the microphone does, or there is no AudioRecord in the field.
ReadFails(j) ==
  /\ job[j].pc = "capturing" /\ ~job[j].cancelled
  /\ \/ InField(j) = {} /\ UNCHANGED events
     \/ InField(j) # {} /\ events < MaxEvents /\ events' = events + 1
  /\ broken' = TRUE
  /\ job' = [job EXCEPT ![j].pc = "closing"]
  /\ UNCHANGED main

\* The loop goes on while the job is active and isListening is set.  A job that waits for
\* the main thread waits on, also when it is cancelled meanwhile.
Leaves(j) ==
  /\ job[j].pc = "capturing"
  /\ job[j].cancelled \/ job[j].of # detector \/ ~listening
  /\ job' = [job EXCEPT ![j].pc = "closing"]
  /\ UNCHANGED <<main, events, broken>>

\* Only a job that was not cancelled gets to reset isListening.
Closes(j) ==
  /\ job[j].pc = "closing"
  /\ IF job[j].cancelled
       THEN /\ job' = [Released(job, j) EXCEPT ![j] = NoJob]
            /\ UNCHANGED main
       ELSE /\ job' = [Released(job, j) EXCEPT ![j].pc = "reporting"]
            /\ main' = Append(main, [type |-> "clear", by |-> j])
  /\ UNCHANGED <<events, broken>>

JobOnly == UNCHANGED <<mode, service, detector, listening, listeningJob, created, capture,
                       completing, overtaken>>

JobEnds(j) == (NeverRuns(j) \/ Leaves(j) \/ Closes(j)) /\ JobOnly

JobWorks(j) == (Opens(j) \/ OpenFails(j) \/ Hears(j) \/ ReadFails(j)) /\ JobOnly

JobStep == \E j \in Jobs : JobEnds(j) \/ JobWorks(j)

-----------------------------------------------------------------------------
(* The detector *)

Free == {j \in Jobs : job[j] = NoJob}

\* stopInternal: the job ends by itself, later.
Stopped(js) ==
  IF listeningJob = 0 THEN js ELSE [js EXCEPT ![listeningJob].cancelled = TRUE]

stop ==
  IF listening
    THEN /\ listening' = FALSE /\ listeningJob' = 0 /\ job' = Stopped(job)
    ELSE UNCHANGED <<listening, listeningJob, job>>

\* start() of detector d. The permission to record is there.
start(d) ==
  IF listening /\ listeningJob # 0
    THEN UNCHANGED <<listening, listeningJob, job>>
    ELSE \E j \in Free :
           /\ listening' = TRUE /\ listeningJob' = j
           /\ job' = [job EXCEPT ![j] = [NoJob EXCEPT !.pc = "launched", !.of = d]]

startWakeWordDetection ==
  IF detector = 0 THEN UNCHANGED <<listening, listeningJob, job>> ELSE start(detector)

-----------------------------------------------------------------------------
(* What was posted to the main thread *)

\* A start that follows forgets that the detection before it broke down.
Judged == broken' = IF listeningJob' # listeningJob /\ listeningJob' # 0 THEN FALSE ELSE broken

\* The service's callback. The overlay that is shown starts a capture, perhaps.
OnModeChanged(m) ==
  /\ \/ /\ m.new = "PASSIVE"
        /\ activeModeSince' = FALSE
        /\ startWakeWordDetection
        /\ UNCHANGED autoStart
     \/ /\ m.new = "ACTIVE"
        /\ activeModeSince' = TRUE
        /\ stop
        /\ autoStart' = autoStart + 1
     \/ /\ m.new = "OFF"
        /\ activeModeSince' = FALSE
        /\ stop
        /\ UNCHANGED autoStart
  /\ Judged
  /\ main' = Tail(main)
  /\ UNCHANGED <<mode, enabled, detector, created, recording, sent, waiting, speaking>>

\* Mutant of OnHeard: a wake word is ignored while a command is recorded.
OnHeardUnlessRecording(j) ==
  /\ listening' = FALSE /\ listeningJob' = 0
  /\ job' = [Stopped(job) EXCEPT ![j].pc = "closing"]
  /\ mode' = IF mode = "PASSIVE" /\ ~recording THEN "ACTIVE" ELSE mode
  /\ main' = IF mode' # mode THEN Append(Tail(main), ModeChanged(mode, "ACTIVE"))
                             ELSE Tail(main)
  /\ UNCHANGED <<service, detector, created, broken, capture>>

\* Posted from a job with withContext: dropped when the job has been cancelled since.
\* The detector that is heard stops itself first; onWakeWordTriggered looks at the mode.
OnHeard(j) ==
  /\ IF job[j].cancelled \/ job[j].of # detector
       THEN /\ main' = Tail(main)
            /\ job' = [job EXCEPT ![j].pc = "closing"]
            /\ UNCHANGED <<mode, listening, listeningJob>>
       ELSE /\ listening' = FALSE /\ listeningJob' = 0
            /\ job' = [Stopped(job) EXCEPT ![j].pc = "closing"]
            /\ mode' = IF mode = "PASSIVE" THEN "ACTIVE" ELSE mode
            /\ main' = IF mode = "PASSIVE" THEN Append(Tail(main), ModeChanged(mode, "ACTIVE"))
                                           ELSE Tail(main)
  /\ UNCHANGED <<service, detector, created, broken, capture>>

\* Mutant of OnClear: a job that has ended leaves isListening as it is.
OnClearSilently(j) ==
  /\ job' = [job EXCEPT ![j] = NoJob]
  /\ main' = Tail(main)
  /\ UNCHANGED <<mode, service, detector, listening, listeningJob, created, broken, capture>>

\* isListening belongs to the detector, not to the job that resets it.
OnClear(j) ==
  /\ listening' = (listening /\ (job[j].cancelled \/ job[j].of # detector))
  /\ broken' = (broken \/ listening' # listening)
  /\ listeningJob' = IF listeningJob = j THEN 0 ELSE listeningJob
  /\ IF job[j].pc = "failing" /\ ~job[j].cancelled
       THEN /\ job' = [job EXCEPT ![j].pc = "reporting"]
            /\ main' = Append(Tail(main), [type |-> "clear", by |-> j])
       ELSE /\ job' = [job EXCEPT ![j] = NoJob]
            /\ main' = Tail(main)
  /\ UNCHANGED <<mode, service, detector, created, capture>>

\* A command the phone has carried out itself.
OnComplete ==
  /\ transitionToPassive(Tail(main))
  /\ UNCHANGED <<service, detection, capture>>

MainStep ==
  /\ main # <<>>
  /\ LET m == Head(main)
     IN  \/ m.type = "mode" /\ OnModeChanged(m)
         \/ m.type = "heard" /\ OnHeard(m.by)
         \/ m.type = "clear" /\ OnClear(m.by)
         \/ m.type = "complete" /\ OnComplete
  /\ UNCHANGED <<completing, events, overtaken>>

-----------------------------------------------------------------------------
(* The service *)

\* Mutant of Watchdog: it is disarmed whether it returns to PASSIVE or not.
WatchdogDisarms ==
  /\ enabled /\ activeModeSince
  /\ activeModeSince' = FALSE
  /\ IF recording THEN UNCHANGED <<mode, main>> ELSE transitionToPassive(main)
  /\ UNCHANGED <<enabled, detection, capture, completing, events, overtaken>>

\* Mutant of Watchdog: it waits for the answer to the command.
WatchdogAwaitsAnswer ==
  /\ enabled /\ activeModeSince /\ waiting = 0
  /\ activeModeSince' = FALSE
  /\ transitionToPassive(main)
  /\ UNCHANGED <<enabled, detection, capture, completing, events, overtaken>>

\* Armed with isWakeWordEnabled: every 45 s, ACTIVE for more than 40 s.
Watchdog ==
  /\ enabled /\ activeModeSince
  /\ activeModeSince' = FALSE
  /\ transitionToPassive(main)
  /\ UNCHANGED <<enabled, detection, capture, completing, events, overtaken>>

\* ACTION_START, from the settings, the boot or a notification. It creates the detector
\* that is missing; when the service was enabled already, it leaves an ACTIVE mode alone.
enableWakeWord ==
  /\ events < MaxEvents /\ events' = events + 1
  /\ enabled' = TRUE
  /\ LET d == IF detector = 0 THEN created + 1 ELSE detector
     IN  /\ detector' = d /\ created' = IF detector = 0 THEN d ELSE created
         /\ \/ /\ mode = "PASSIVE"
               /\ start(d)
               /\ UNCHANGED <<mode, main>>
            \/ /\ mode # "PASSIVE" /\ ~(enabled /\ mode = "ACTIVE")
               /\ transitionToPassive(main)
               /\ UNCHANGED <<listening, listeningJob, job>>
            \/ /\ enabled /\ mode = "ACTIVE"
               /\ UNCHANGED <<mode, main, listening, listeningJob, job>>
  /\ Judged
  /\ UNCHANGED <<activeModeSince, capture, completing, overtaken>>

\* ACTION_STOP, and the end of the service. The detector is released.
disableWakeWord ==
  /\ enabled /\ events < MaxEvents /\ events' = events + 1
  /\ enabled' = FALSE
  /\ mode' = "OFF"
  /\ main' = IF mode = "OFF" THEN main ELSE Append(main, ModeChanged(mode, "OFF"))
  /\ stop /\ detector' = 0
  /\ UNCHANGED <<activeModeSince, created, broken, capture, completing, overtaken>>

-----------------------------------------------------------------------------
(* The voice capture *)

\* ttsManager.stop() forgets the callback of the answer being spoken, even when the
\* capture then fails.
startCapture ==
  /\ ~recording
  /\ speaking' = FALSE
  /\ recording' \in BOOLEAN

\* The microphone button. The mode stays as it is.
onMicClick ==
  /\ events < MaxEvents /\ events' = events + 1
  /\ startCapture
  /\ UNCHANGED <<mode, main, service, detection, autoStart, sent, waiting, completing, overtaken>>

\* After the wake word. Nobody unlocks the phone, there is no controller in time, or
\* it records already.
AutoStart ==
  /\ autoStart > 0 /\ autoStart' = autoStart - 1
  /\ startCapture \/ UNCHANGED <<recording, speaking>>
  /\ UNCHANGED <<mode, main, service, detection, sent, waiting, completing, events, overtaken>>

\* Silence after speech, or the microphone button. The mode stays as it is.
stopCapture ==
  /\ recording /\ recording' = FALSE
  /\ sent' = sent + 1
  /\ UNCHANGED <<mode, main, service, detection, autoStart, waiting, speaking, completing,
                 events, overtaken>>

\* cancelCapture, and the offline recognizer's results and errors.
cancelCapture ==
  /\ recording /\ recording' = FALSE
  /\ transitionToPassive(main)
  /\ UNCHANGED <<service, detection, autoStart, sent, waiting, speaking, completing, events,
                 overtaken>>

\* The overlay is dismissed; a capture that runs is cancelled, which returns to PASSIVE too.
onDismiss ==
  /\ events < MaxEvents /\ events' = events + 1
  /\ recording' = FALSE
  /\ mode' = "PASSIVE"
  /\ main' = IF recording
               THEN main \o <<ModeChanged(mode, "PASSIVE"), ModeChanged("PASSIVE", "PASSIVE")>>
               ELSE Append(main, ModeChanged(mode, "PASSIVE"))
  /\ UNCHANGED <<service, detection, autoStart, sent, waiting, speaking, completing, overtaken>>

sendTextCommand ==
  /\ events < MaxEvents /\ events' = events + 1
  /\ waiting' = waiting + 1
  /\ UNCHANGED <<mode, main, service, detection, autoStart, recording, sent, speaking,
                 completing, overtaken>>

\* "transcript". A command the phone can carry out itself is complete at once, and its
\* answer comes as well.
Transcript ==
  /\ sent > 0 /\ sent' = sent - 1 /\ waiting' = waiting + 1
  /\ main' \in {main, Append(main, [type |-> "complete"])}
  /\ UNCHANGED <<mode, service, detection, autoStart, recording, speaking, completing, events,
                 overtaken>>

\* "response": it is spoken. Without a speech engine it is complete on this thread.
Response ==
  /\ waiting > 0 /\ waiting' = waiting - 1
  /\ \/ speaking' = TRUE /\ UNCHANGED completing
     \/ completing = "none" /\ completing' = mode /\ UNCHANGED speaking
  /\ UNCHANGED <<mode, main, service, detection, autoStart, recording, sent, events, overtaken>>

\* "error", a refusal of the gate, a socket that is gone: nobody completes the command.
NoResponse ==
  /\ \/ waiting > 0 /\ waiting' = waiting - 1 /\ UNCHANGED sent
     \/ sent > 0 /\ sent' = sent - 1 /\ UNCHANGED waiting
  /\ UNCHANGED <<mode, main, service, detection, autoStart, recording, speaking, completing,
                 events, overtaken>>

\* The speech engine's callback, on a thread of its own: it reads the mode ...
onDone ==
  /\ speaking /\ completing = "none"
  /\ speaking' = FALSE /\ completing' = mode
  /\ UNCHANGED <<mode, main, service, detection, autoStart, recording, sent, waiting, events,
                 overtaken>>

\* ... and goes by what it read.
Complete ==
  /\ completing # "none" /\ completing' = "none"
  /\ transitionToPassiveFrom(completing, main)
  /\ overtaken' = (overtaken \/ mode # completing)
  /\ UNCHANGED <<service, detection, capture, events>>

CaptureStep ==
  \/ onMicClick \/ AutoStart \/ stopCapture \/ cancelCapture \/ onDismiss \/ sendTextCommand
  \/ Transcript \/ Response \/ NoResponse \/ onDone \/ Complete

Next == JobStep \/ MainStep \/ Watchdog \/ enableWakeWord \/ disableWakeWord \/ CaptureStep

Spec == Init /\ [][Next]_vars

\* The main thread runs what was posted, a job that is to end does, the watchdog barks
\* and the callback's thread goes on.  Nothing makes the user, the server or the
\* microphone do anything.
FairSpec == /\ Spec
            /\ WF_vars(MainStep) /\ WF_vars(Watchdog) /\ WF_vars(Complete)
            /\ \A j \in Jobs : WF_vars(JobEnds(j))

-----------------------------------------------------------------------------
(* The properties *)

Settled == main = <<>> /\ completing = "none"

\* A detector that says it listens has a job of its own at work, which nobody has told to
\* stop: what WakeWordDetector.start() takes care of, a flag left over from a job that
\* has ended, never is the case.
ListeningIsAlive ==
  listening => /\ listeningJob # 0 /\ job[listeningJob] # NoJob
               /\ ~job[listeningJob].cancelled /\ job[listeningJob].of = detector

\* When the main thread is done and the mode is ACTIVE, the watchdog is armed. The one
\* exception: the callback of a spoken answer, on its own thread, read PASSIVE, and told
\* the service so after the wake word had made it ACTIVE.
ActiveIsWatched == mode = "ACTIVE" /\ Settled => activeModeSince \/ overtaken

\* An enabled service in PASSIVE hears the wake word, unless a detection broke down: the
\* microphone failed, or the job before it released its AudioRecord or reset its flag.
DeafOnlyWhenBroken ==
  enabled /\ mode = "PASSIVE" /\ Settled => listening \/ broken \/ overtaken

\* The detector's word can be taken for it: it listens when it says so, and is deaf
\* only for a known reason.
DetectorIsTrue == ListeningIsAlive /\ DeafOnlyWhenBroken

\* However a command ends, and also when it never does, the wake word works again.
WakeWordReturns ==
  enabled /\ mode = "ACTIVE" ~> listening \/ broken \/ overtaken \/ ~enabled
=============================================================================
