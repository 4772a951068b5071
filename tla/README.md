# A TLA+ model of AURA

AURA executes spoken commands on an Android phone: a Python backend plans,
looks at the phone's screen, fires gestures through an accessibility service
and verifies what they did; the phone listens for a wake word, records and shows
the conversation. This project models the part of it in which the
order of events matters: the coordinator's perceive-act-verify loop, the
session state it shares with the cancel button, the questions it puts to the
user, the link over which its gestures reach the phone, the requests by which it
sees the phone's screen and the permission they need, the graph around it with its
checkpoint, the conversation over the WebSocket with both ends, the phone's
microphone and its modes, the live audio session, and the command queue the phone
polls. TLC checks the models on small instances, and TLAPS proves the
safety properties of most of them for every value of the parameters.

## The system

| Part | State | Operations | Talks to |
|---|---|---|---|
| `agents/coordinator.py` | the goal, the current round, counters for actions, replans, failures, rejections, loops | `execute`, one long coroutine; `_handle_target_not_found`, `_apply_replan`, `_snapshot_pre` | everything below, by awaited calls |
| `aura_graph/agent_state.py` | `Goal` (phases, subgoals, index, pending commits, verdict), `Subgoal` (attempts, rung of the retry ladder, flags) | `advance_phase`, `advance_subgoal`, `escalate_strategy` | changed by the coordinator and by the step generator |
| `services/reactive_step_generator.py` | none of its own; changes the goal it is given | `generate_next_step`, also used to verify the previous step | language and vision models |
| `agents/planner_agent.py`, `services/goal_decomposer.py` | none | `create_plan`, `replan` | language models |
| `agents/verifier_agent.py` | none | `capture_post_state`, `is_error_screen` | perception |
| `services/task_progress.py` | per session: step list, `is_complete`, `is_aborted`, cancel event | `start_task`, `complete_current_step`, `finish_task`, `abort_task`, `is_cancelled` | called by the coordinator and by the WebSocket reader, which handles `cancel_task` |
| `services/command_queue.py` | commands with a status, an addressee and an expiry time | `add_command`, `get_pending_commands`, `mark_completed`, `mark_failed` | HTTP endpoints in `api_handlers/device_router.py`, polled by the phone (`BackendApiClient.kt`) |
| `services/hitl_service.py` | pending questions with their futures, connected sockets | `ask_*`, `handle_response`, `register_voice_answer`, `cancel_question` | WebSocket reader, coordinator |
| `services/real_accessibility.py`, `services/gesture_executor.py` | the device's socket, pending acknowledgements | send a gesture and await its acknowledgement; connect, disconnect | phone, coordinator |
| `services/perception_controller.py` | the last bundle | `request_perception`: tree, screenshot or both, with retries and escalation | the two services below, the coordinator |
| `services/screenshot_service.py`, `services/ui_tree_service.py` | pending and timed-out requests, permission state, the last rejection of a tree | request and await; handle a response | phone, perception |
| `api_handlers/websocket_router.py` | one conversation per connection | conversation loop, background reader during a task, permission gate | all of the above |
| `aura_graph/graph.py`, `edges.py`, `core_nodes.py`, `nodes/` | the state of one request, kept by a checkpointer for the thread; the session's memory | nodes from transcript to spoken answer, and the routing between them | coordinator, language models, TTS |
| `adk_streaming_server.py` | transcript buffer, deferred flush of one live session | Gemini's events to messages; the phone's messages to Gemini | Gemini, `GeminiLiveController` |
| `voice/VoiceCaptureController.kt`, `conversation/ConversationViewModel.kt` (phone) | phase, recording, socket | capture, send, show, speak | `websocket_router.py` |
| `voice/ListeningModeController.kt`, `services/WakeWordListeningService.kt`, `voice/WakeWordDetector.kt`, `overlay/AuraOverlayService.kt` (phone) | mode, enabled, watchdog, detector and its jobs | hear the wake word, hand the microphone over and take it back | each other, the capture |
| `voice/GeminiLiveController.kt` (phone) | phase, audio queue, player jobs, microphone | play, record, barge in, end a turn | `adk_streaming_server.py` |
| `MainActivity.kt`, `accessibility/ScreenCaptureManager.kt` (phone) | the `MediaProjection` | ask the user, capture, tell the backend | `screenshot_service.py` |

Everything in the backend runs on one asyncio event loop, so code interleaves at
`await`s only. What is hard:

* a cancel reaches the coordinator while it is suspended anywhere, and the flag
  it sets lives in state that a replan replaces;
* the loop has some thirty ways to retry, replan, skip, complete or abort, each
  with its own counter, and a verdict has to be the same in the goal, in the
  result and in the bubble the user sees;
* steps are decided on one screen and fired on another;
* the phone is behind an unreliable link: responses, acknowledgements and
  reports are lost or come late, while requests time out and are repeated;
* a session's turns share one checkpoint, of which a new turn overwrites a part;
* two readers take turns at one socket, and the second drops most of what it reads;
* on the phone, the main thread, socket readers, detector and player jobs
  interleave over plain fields, and a cancelled job runs its `finally` late.

What makes each part correct:

* *Coordinator*: it ends; budgets hold; a reported success means every phase is
  done; questions never reach the device; a cancel is obeyed and never outlives
  its task.
* *Task progress*: the step list and the flags agree; a finished list is settled.
* *Command queue*: a command reaches one device at most once and never after its
  expiry; a completed command stays completed.
* *HITL*: every working connection is asked (but see below); the first answer to a question
  counts and reaches its asker or nobody; a transcript answers the question that
  waits longest; every asker comes back, and nothing is left behind for it.
* *Device link*: success means that the phone did it, and a gesture is done no more often than
  the phone attempts it; acknowledgements are awaited as long as their gesture is; the end of an old
  connection leaves a new one alone.
* *Perception*: a bundle shows only what was taken for it; an answer in time is
  never dropped and nothing is left pending.
* *Screen permission*: a turn works only with a grant, a grant that comes while it waits
  is not overheard, and the service's own dialog is not asked for while a turn works.
* *Workflow*: a turn works on its own request and answers it; work on the phone that went
  wrong is not reported as done, nor remembered; every request is answered once.
* *Conversation*: a phone that shows THINKING has something to wait for; an utterance
  is made of its own audio; a cancel stops what it was meant for.
* *Listening*: the detector listens when it says so; an active mode is
  watched; the wake word always comes back.
* *Live session*: one player plays; the microphone is shut against the echo; a turn
  gives the microphone back.

## Modules

| Module | Models | Role |
|---|---|---|
| `CommandDelivery` | what a command queue promises its users | abstract specification |
| `CommandQueue` | `command_queue.py`, its endpoints, the phone's client | refines `CommandDelivery` |
| `TaskFlags` | the flags of one session in `task_progress.py` | abstract specification, and the part the coordinator uses |
| `TaskProgress` | `task_progress.py` with its step list | refines `TaskFlags` |
| `Coordinator` | `coordinator.py`, with `agent_state.py`, and the answers of planner, generator and verifier | extends `TaskFlags` |
| `CoordinatorProofs` | | theorems about `Coordinator` |
| `Inquiry` | what a question promises its asker | abstract specification |
| `Hitl` | `hitl_service.py` with the connections and the user | refines `Inquiry` |
| `HitlProofs` | | theorems about `Hitl` |
| `RemoteCall` | what a gesture request promises its caller | abstract specification |
| `DeviceLink` | `real_accessibility.py`, the begin and end of a conversation in `websocket_router.py`, the phone | refines `RemoteCall` |
| `Observation` | what a look at the phone promises | abstract specification |
| `Capture` | `request_perception` of `perception_controller.py`, `ui_tree_service.py`, `screenshot_service.py` | refines `Observation` |
| `CaptureProofs` | | theorems about `Capture` |
| `ScreenPermission` | the gate of `websocket_router.py`, the permission state of `screenshot_service.py`, the phone's dialog and projection | |
| `Turns` | what a user may rely on who makes several requests | abstract specification |
| `Workflow` | `aura_graph`: entry points, nodes, routing, checkpoint, session memory | refines `Turns` |
| `WorkflowProofs` | | theorems about `Workflow` |
| `Conversation` | `/ws/conversation` of `websocket_router.py`, `VoiceCaptureController.kt`, `ConversationViewModel.kt` | extends `TaskFlags` |
| `ConversationProofs` | | theorems about `Conversation` |
| `Listening` | `ListeningModeController.kt`, `WakeWordListeningService.kt`, `WakeWordDetector.kt`, the overlay's clicks | |
| `ListeningProofs` | | theorems about `Listening` |
| `LiveSession` | `adk_streaming_server.py`, `GeminiLiveController.kt` | |
| `LiveSessionProofs` | | theorems about `LiveSession` |
| `ServiceProofs` | | theorems about `CommandQueue`, `DeviceLink`, `TaskProgress` and `ScreenPermission` |
| `MC...` | | small instances for TLC |

The four small services are proved in one module, which extends them together; so their standard
names carry a prefix (`QueueSpec`, `LinkTypeOK`, `ProgressInit`, `ScreenNext`, ...).

### Coordinator

`pc` is the place where `execute` is suspended or may be interrupted: `planning`
(web hints, then the plan), `top` (the head of the `while`), `step` (a subgoal
was chosen, its target is not located yet), `act` (located, about to snapshot
and fire), `post` (fired), `verify` (the screen afterwards captured), `finish`
(after the loop), `done`, `raised` (an exception left `execute`). One action is
one outcome of the code between two of these places, with everything this code
changes: `NotFound`, for instance, scrolls if attempts are left, looks again,
counts a replan, and either replans (which clears the verdict and replaces the
cancel event) or aborts. `Cancel` is the WebSocket reader's, and may come
between any two.

* `goal` keeps the phases and subgoals still to do. In the code these are lists
  with an index, of which the part before the index is only shown to language
  models. Attempts and rung are those of the current subgoal. A step is its kind
  (`act`), the requested effect its target names (`commit`), the flag that it
  completes its phase (`last`) and whether a gesture has been fired since it was
  decided (`fresh`, history only).
* `run` keeps the counters of `execute`. The repetition counters (`same`, `taps`,
  `repeat`) count the trailing repetitions of the code's histories. For the
  taps the model is coarser: they count without telling places apart and only
  start anew after a loop was found.
* `hist` is history: the requested and the fired effects, whether a cancel was
  asked during the run, and the gestures fired since a cancel took effect.
* Language and vision models, perception and the device may answer anything the
  code lets through: `Generated` for the step generator (which also ticks off
  commits and may advance every phase), `Planned` for replans, `Answers` for
  the merged verification.

Left out: the static mode without a step generator and goals without phases
(`main.py` always wires a generator, which plans in phases); the
`__goal_complete__` flag at generation time, which cannot be seen because the
generator has already advanced the phases it would advance; wording, logging,
annotation of screenshots; the token accounting (a choice).

### TaskFlags and TaskProgress

`TaskProgress` has the list of items with its index, the two flags and the cancel
event; an action is a method of the service. `TaskFlags` forgets the list. The
coordinator uses the latter, and the run `task_progress` checks that the former
implements it (`ImplementsFlags`).

### CommandQueue

`status`, `addressee` and `overdue` are the queue's; `responses` are poll
responses on the way to a device, `held` what a device has received, `handed`
(history) who was ever sent a command. Time is the action `GrowOld`. Every
endpoint runs under the queue's lock, so one call is one step; what is in
flight between backend and phone can be lost (`LoseResponse`, `LoseReport`) or
late. The client does not retry. `CommandDelivery` says: a command waits, and is
then taken by one poll of its addressee or dropped.

### Hitl

The asker of a question is a coroutine: `phase` says whether it is in the
broadcast (`sending`, suspended in the send to `cast.cur`), in `wait_for`
(`waiting`), back (`done`), or was left by an exception (`raised`). `Iterate` is
what happens between two sends: a `WeakSet` must not change its size under an
iteration, so a connection that was registered meanwhile makes the next round
raise; closed connections are collected only while nobody iterates. If one was added and another
dropped the size is as before, and what the iterator still meets is any part of the set
(`cast.left`), because a set is walked slot by slot: the newcomer may sit in a slot already
passed. `EveryoneIsAsked` holds of the other broadcasts (`cast.joined` tells them apart). `history`
gives `pending` the order of a Python dictionary. `handle_response` is the answer of a
dialog that was shown, at any time and any number of times;
`register_voice_answer` that of a transcript, to the first pending question
only. `Timeout` may win against an answer that was accepted but not yet
delivered, as `wait_for` of Python 3.12 (`Dockerfile:24`) does.

`Kind` has two of the four kinds of question, of which the others are copies. `Meaning`
is how an answer is read: from the field of the kind of question, though it is
written to the field of the way it came. So a spoken yes to a confirmation is
told as nothing, which `Inquiry` allows and `ask_confirmation` turns into a no.

`disable`, `cancel_question`, `cancel_all_pending` and `unregister_websocket` have
no caller and are left out.

### DeviceLink

`_websocket` and `connected` are the service's; `handler` says which conversations
run. A conversation installs its socket when it begins (`Connect`) and clears whatever
socket is installed when it ends (`CleanUp`), which may be long after its
connection broke (`Break`) and the phone opened another. `call` follows the
coroutine that sends a command: a `Gesture` waits for its acknowledgement, a `Launch`
is reported as done once sent. A command is on the `wire` of the socket that was installed
when it was sent, and its acknowledgement may be lost or late.

On the phone a touch (`Injected`) is attempted up to `retryCount + 1` times: an attempt the system
rejects, cancels or does not finish in 5 s is followed by another, though it may have had its
effect (`Fails`) or have it later (`ComesLate`), after the answer too. Text is tried once. The
keyboard's and the navigation's actions (`Blind`) are acknowledged as successes whatever
became of them (`FailsBlindly`; `press_enter` ends in `return true` on every path).
So `RemoteCall` says: no more often than it may be attempted, only if accepted, `ok` only if performed
or blind; `failed` promises nothing. It does not say *once*, since the code does not.

Left out: coordinates, payload formats and the resolution of contacts.

### Capture

`pc` is where `request_perception` is suspended: in the only tree request or its
retries (`tree`), in the `gather` of both (`gather`; a retry of an empty tree waits here
too), in the second request for a missing screenshot (`again`), in the request of `VISION`
(`image`). Each of its requests is a coroutine of its own in `call`: `sending`,
`waiting` for its future, `pausing` before the second attempt of a screenshot, `back`
with a reply. A request id is whose request it is and which; number 0 of a
screenshot is used twice. `pending` holds the keys of both `pending_requests`, `asked` what
the phone has been sent and not answered: an answer comes at any time or never, in any
order. The tree's handler leaves the entry to the requester, the screenshot's removes it.

What a picture shows is reduced to the number of screen changes when it was taken (`of`).
The phone is assumed to look at its screen when it has the request
(`VoiceCaptureController.kt:1236`, `1313`); the frame that Android's `ImageReader` then
hands out may be older, which this repository does not decide. The choice between
`UI_TREE`, `VISION` and `HYBRID` is any, as is the validation of the finished bundle. What
is in memory only while a perception runs is cleared when it ends (`Off`, `none`).

Left out: the permission (see below), which only bears on that choice; the buffer of timed-out requests, whose futures are
cancelled and take no answer; the description by a vision model.

### ScreenPermission

A turn of a conversation finds the flag up, or tells its client, asks the phone and
waits (`ask`, `wait`, `tell`) before its task runs. `woken` says whose wait
`_permission_event` has ended: setting the event wakes all that wait, and that another
gate clears it afterwards does not undo this. The timer may win against an event set in
the same instant. `stage` follows each request, those of gates and those of the
service's own accord (`Own`), from its coroutine to the phone's dialog; `posts` are the results
the phone sends, each by a coroutine of its own, so that a grant and a denial may overtake
each other or be lost. `shot` is the screenshot under way: a picture raises the flag, two empty
ones in a row lead to a request. `Direct` tasks, of the live agent or the REST
interface, pass no gate and are not counted.

Left out: wall-clock times (a dialog or a request remembered may have been forgotten or
not); the response `error` of a screenshot, which this phone never sends. So
`mark_permission_invalidated` is never reached: when the projection stops, the flag stays up, and
no turn asks again until a denial is posted.

### Workflow

`pc` is the node that runs next; one action is a node with the routing after it (`edges.py`).
`input` to `retry_count` are the fields of `TaskState`, kept by the `MemorySaver` checkpointer
for the thread: `Begin` resets those `_create_initial_state` names and leaves the
others (`spoken_response`, `perception_bundle`, `executed_steps`, the joined errors). Data
are the number of the turn they stem from, so what one turn takes from another is seen; words are
the set of what they were made from (`Source`: of which turn, and whether its request, its
errors, steps, screen or search). `memory`
is the session's. A transcript is one of four kinds routing tells apart, an intent one of
seven actions. The policies of the validation may refuse a turn; every node may
fail where the code catches or lets through.

`speak_node` has the answer generated (`Generated`) from the request, the errors joined over the
turns of the thread and, if the coordinator worked on this request, the steps joined likewise; it
describes the screen that is kept, and throws the feedback of a search away. So `WorksOnOwnRequest` is as
far as the code's resets go: intent and goal are the turn's own, and an answer reported as
completed is about its request (`AboutTheRequest`) but may mix in what was kept. That the answer of a
*failed* turn is in words of its own is not promised, and not so. `outcome` tells work on the
phone that went wrong (`bad`) from a search or a description without a result (`unfound`), which
is reported as completed.

Left out: the query engine (off by default); texts and prompts.

### Conversation

The server's handler is at `receive`, or works on one utterance (`transcribe` to `task`,
`stopping` its reader). While a task runs the background reader takes the messages of the socket:
cancels and answers are heard, everything else is dropped, so an utterance begun meanwhile
loses its start (`muted`) or itself (`dropped`). `up` and `down` are the socket's two directions, in
order; the link may go down at any time (`onFailure`). The phone's part is its phase, its
recording and what it does on each message. `task` is `TaskFlags`'s, so that a cancel is
`abort_task` with its event. `fate` says what became of each utterance. A dismissal ends a recording
at once and tells the overlay's service to hide it; when the service does (`hideOverlay`) the
controller is cleaned up and the socket closed, whatever is under way. What the phone has not read
when it closes the socket counts as gone.

Left out: offline recognition and the local model of the phone (`local` marks what it carries
out itself), spoken answers to questions (`Hitl`), device info, heartbeats, and
`conversation_manager.py`, which has no caller.

### Listening

`main` is the queue of pieces posted to the phone's main thread; detector jobs run
beside it, and a spoken answer's callback on a thread of its own (`completing`: between its
reading of the mode and its writing). `job` has each detection job from launch to its
`finally`, with the `AudioRecord` it holds: in its detector's field or replaced there by a
later job's, which the late `finally` then releases. The watchdog turns an old ACTIVE mode back. Two exceptions are
history variables: `broken` (a detection ended although nobody stopped it) and
`overtaken` (the mode changed between that thread's reading and writing).

Left out: `transitionToHitl`, `canTransitionTo`, `isWakeWordActive` and `isSTTActive`, which nothing
reads, and the callbacks of `createUnlockActivity`, which returns nothing to call.

### LiveSession

Gemini's events become messages `down`. A silent `turn_complete` ends the answer at once; one
that comes with audio may be followed by more, so a flush is deferred for half a second, which any
event cancels. On the phone `player` has each player
coroutine at its place between suspensions, `audioPlayerJob` the one the controller knows
of, `main` what was posted to the main thread. A player that was cancelled runs on to its next
suspension, and a player that ends clears `audioPlayerJob` whoever is stored there: `stopped` and
`overlap` remember that a player was cancelled, or launched while another was still ending. `missed` and
`unclosed` are the two known ways an answer's end is lost. A dismissal ends a recording at once; the
service later hides the overlay, which cleans the controller up (`Hide`), and when its service
is destroyed the coroutines end (`Destroy`). Between the two the socket's reader still takes what
comes in.

Left out: loss of the connection, transcripts and bubbles, screenshots, pings, tools,
the speakerphone.

## Runs

| Run | Checks | Instance |
|---|---|---|
| `command_queue` | `HandedOnce`, `NeverHandedLate`, `CompletedIsFinal`, `ImplementsDelivery` | 3 commands, 2 devices |
| `task_progress` | `ItemsAreHonest`, `ImplementsFlags` | lists of up to 3 items |
| `coordinator` | `CompletedMeansPhasesDone`, `UiMatchesResult`, `CancelOnlyIfAsked`, `CancelStopsGestures`, `HitlNeverReachesActor`, `Budgets`, `Terminates` | 7 kinds of step, 2 phases, plans of 1 step, budget 2 |
| `hitl` | `PendingIsUnfinished`, `EveryoneIsAsked`, `VoiceServesTheOldest`, `EveryQuestionEnds`, `ImplementsInquiry` | 2 questions, 2 connections at a time |
| `device_link` | `AcksAreAwaited`, `LinkIsServed`, `ImplementsRemoteCall`, `EveryCommandEnds` | 1 touch with 1 retry, 1 blind action, 1 launch, 2 connections |
| `capture` | `PendingIsUnderWay`, `ImplementsObservation` | 2 perceptions, one at a time; 1 retry, 1 change of the screen |
| `screen_permission` | `GateIsRight`, `NeverInterrupts`, `EveryGateEnds` | 2 turns, 1 direct task, 1 request of the service's own; 1 loss of the projection, 1 grant and 1 denial under way |
| `workflow` | `WorksOnOwnRequest`, `RemembersTheAnswered`, `ImplementsTurns`, `EveryTurnEnds` | 2 requests on one thread, 3 retries |
| `conversation` | `ThinkingIsExplained`, `EachItsOwn`, `EveryUtteranceIsSettled` | 3 utterances, one of them typed; 1 cancel from the notification |
| `listening` | `DetectorIsTrue`, `ActiveIsWatched`, `WakeWordReturns` | 2 detector jobs at a time, 4 events |
| `live_session` | `OneConsumer`, `MutedWhilePlaying`, `TurnsEnd` | 2 players at a time, 1 utterance, 3 events of Gemini, 1 click |
| `commits_first` | `CommitsFireFirst` is violated | one requested effect |

`Budgets` is `BudgetBound`, `ReplanBound` and `QueueBound`; `ItemsAreHonest` is
`OneItemInProgress` and `CompleteListIsSettled`; `GateIsRight`, `EachItsOwn` and `DetectorIsTrue`
are two named conjuncts each. A type invariant that TLAPS proves is not repeated in a run.

The bounds of the coordinator are smaller than the code's (30 actions, 3 replans, 6 failures), but
every counter reaches its limit in them, all comparisons of the code are
against these constants, and no property depends on their values; for the safety
properties the proofs remove the bounds altogether. Two phases tell the last from
another; two steps in a plan tell the current from a queued one. `MaxPhases` and
`MaxPlan` bound what language models return (the code sets no limit);
`AttemptCap` bounds the attempts beyond the largest number the code compares
them with. Two questions tell the oldest from another, and two connections the
one that replaces from the one replaced; in `Hitl` a connection that was collected
before any broadcast met it may come again. One retry in `DeviceLink` (the code has two) is
enough for an effect of a first attempt to come beside that of the second, or after the answer. In `Capture` the second perception is there
for the late answers of the first; one perception at a time (`MaxTogether`) is what a task
does, and the proofs hold for any number. The perceptions are symmetric.

Two turns show what one leaves to the next in `Workflow`, and at the gate of
`ScreenPermission` the one that waits while another clears the event; one loss of
the projection is enough for a grant that no longer holds, and a grant and a denial under way for
their reordering. Three utterances in `Conversation` are one at work, one that the
background reader meets and one after it; a typed one comes without audio. Two detector jobs,
and two players, are the old one and its successor; four events in `Listening` are a
wake word, a command, a dismissal and a failure of the microphone, in any order; three events
in `LiveSession` are the pieces of an answer, the end of which is not counted.

Deadlock is checked for the queue, the list and the coordinator, where a
command can always be polled for and a task always begin. It is not
for the others: when all questions, commands, perceptions, turns or events are
through and all connections closed nothing is left to do. That nothing stops earlier is what
their liveness properties say.

### What the violation shows, and what else does not hold

`commits_first`: `agent_state.py` promises that pending commits fire before a goal
counts as complete. Nothing in `execute` looks at them.

Other statements of the repository that TLC refutes when asked; the definitions are
in the modules, where they are, with the instance that shows it:

* `CancelStopsLoop` (`Coordinator`): `task_progress.py` signals the cancel event so that the loop
  stops. Each replan calls `start_task`, which creates a new event: a cancel
  between the check and the replan is lost.
* `DecidedOnLiveScreen` (`Coordinator`, `MaxPlan` 2, `SameTap` 3): `agent_state.py` says each step is
  decided after observing the live screen. A replan queues several steps, and a step decided
  after a gesture goes to the end of the queue.
* `PendingHasAsker` (`Hitl`): `get_pending_questions` lists what is currently pending. A connection
  registered during the broadcast makes the iteration raise outside the `try` whose
  `finally` removes the entry; it stays, and is the one that takes the next transcript.
* `AllConnectedAreAsked` (`Hitl`): "Broadcast question to all connected WebSockets"
  (`hitl_service.py:487`). A connection breaks, another broadcast drops it, a third is
  registered in its place while this one is suspended: the size is the same, and the new one
  may be passed over.
* `EveryOkIsTrue` (`DeviceLink`): `handle_gesture_ack` takes `success` for whether the gesture was
  executed on Android (`real_accessibility.py:131`). For five actions the phone says yes without having
  looked.
* `NothingBleedsThrough` (`Workflow`): `graph.py:81-82` and `core_nodes.py:1034-1037` reset fields so that
  values of earlier tasks on the thread do not bleed through. The reset of errors and steps goes
  through reducers that add to what is there (`state.py:20-47`): both get into the prompt of
  later answers. A request to read the screen that reaches `speak_node` by way of the coordinator has the
  screen of an earlier one described.
* `PlannedOnOwnScreen` (`Workflow`): `coordinator_node` takes `perception_bundle` for "pre-seeded
  perception" (`coordinator_node.py:34`). Without a perception on the way it is an earlier request's.
* `SearchIsTold` (`Workflow`): "The result is placed in `feedback_message` so the speak node reads
  it" (`web_search_node.py:5-6`). `speak_node` uses a feedback only if the status says failed or retry
  (`core_nodes.py:960`), and reports the turn, also of a search that failed, as completed.
* `SingleConsumer` (`LiveSession`): "only one consumer coroutine ever writes to PcmStreamPlayer"
  (`GeminiLiveController.kt:468-469`). The end of a player that was cancelled clears `audioPlayerJob`, where its
  successor was stored: with the next chunk a third is launched beside it.
* `NoEcho` (`LiveSession`): "mic is muted during playback to prevent echo feedback loop"
  (`GeminiLiveController.kt:152`). A player launched while the one before is still in its
  cooldown plays on when that one opens the microphone again.
* `LiveLinkIsKept` (`DeviceLink`, 1 gesture): the clean-up of a conversation, and the handler of a
  failed send, clear the socket that is installed, which may be the working one of the connection
  that replaced theirs. Gestures are refused until the phone connects again.
* `CarriedOutOnce` (`Conversation`, 2 utterances, no other cancel): when the phone carries out a
  transcribed command itself it sends `cancel_task`, so that the server leaves it
  (`VoiceCaptureController.kt:566-570`). A cancel that is read before the task exists, or after
  it acted, stops nothing, and the command is carried out twice.
* "Wake word and STT must NEVER run simultaneously" (`ListeningModeController.kt:16`): a click on
  the microphone (`AuraOverlayService.kt:1240`) records a command without leaving the passive
  mode, beside a detector that holds its own `AudioRecord` (in `Listening`: `recording` while some
  `job[j].record` is not `none`).

Seen while modelling, and not made a run: the second attempt of a screenshot whose
send raises leaves its entry in `pending_requests` (`PendingIsUnderWay` admits it); a rejection
of a tree is remembered until one is parsed, so that a later perception whose tree merely times
out goes on with `VISION` instead of failing; `README.md:585` has the retry ladder run
before any replanning, but two rejected verifications, a wrong screen or a
coordinate loop replan on its first rung; `SEMANTIC_MAP.md:322` calls 30 actions
a hard cap, but recovery gestures are counted after the check (`BudgetBound` states
the 32 that hold), and scrolls of a target search and focus taps are not counted at all; a transcript is
refused, and becomes a task, while the oldest pending question is resolved but
not yet removed.

## Fairness

`CommandQueue` assumes that each device keeps polling (weak fairness of `Poll`): the
client's loop polls as long as the app runs. Nothing is assumed of lost or
delivered messages.

`Coordinator` assumes weak fairness of `Execute`, the coroutine's next step: each
of its awaits ends, since every call has a timeout of its own (10 s for a
gesture, the HTTP client's for models, `timeout_seconds` for a question). No
fairness is assumed of `Cancel`, `Begin` or of any particular outcome.
`Terminates` allows for runs that ask, search or find their text typed for
ever: these steps cost no action (`FreeStep`), and only the language model's good
sense bounds them.

`Capture` is checked and proved without fairness; that every perception ends follows
from its timeouts and is not checked.

`Workflow` assumes that each node returns (`Run`), and `Conversation` that the handler's own
steps go on (`Serve`): their calls have timeouts. `ScreenPermission` assumes the steps of the
gate: two sends and a wait with a timer. `Listening` assumes that the main thread runs what was
posted, that a job told to end does, that the watchdog's timer barks and the callback's
thread goes on; `LiveSession` that Gemini ends an answer it began, that the
relay's and the phone's loops run, and that the phone's system does what its services are told (`System`; each
of these steps uses up something bounded). In none of them need the user, the link or the microphone do anything.

`Hitl` and `DeviceLink` assume weak fairness of `Asker` and `Caller`, the coroutine of one
question or command: a send ends, by success or failure, and `wait_for` has a
timer. The user, the phone and the connections may do nothing for ever.

## Proofs

Every invariant and every action property that a passing run checks is a theorem, for all values
of the constants, and so are the refinements.

`ServiceProofs`, of `CommandQueue`: `QueueTypeCorrect`, `HandedOnceHolds`, `NeverHandedLateHolds`,
`CompletedStays` and `QueueImplementsDelivery`. The argument is a provenance invariant (what is in flight,
held or reported was handed to its holder, and a pending command was handed to
nobody) and a settled invariant (how `handed` and `status` agree); the
refinement maps a poll to a delivery of exactly the pending commands of its
device, and every other step to a queueing, or a stutter.

`CoordinatorProofs` proves every invariant the runs check. `TypeOK` is not
inductive: the tail of the queue is taken without a test, so a subgoal at work
must be known to exist; a counter is raised before it is compared. The
inductive invariant has three parts:

* `GoalInv`: the goal is well formed; outside `finish` and `done` it has no verdict and its
  queue is bounded (`InPlay`); a subgoal at work exists and is a gesture;
  a completed goal has no phase left.
* `RunInv`: where the loop can go on, failures, repetitions and replans are strictly
  below the limits that end it (`Within`), and the budget is not spent where a
  gesture may start.
* `FlagInv`: how many gestures can have been fired since the cancel event was set, at
  each place (`LateInv`); while a task runs it is known and not complete.

Each is preserved by every action: lemmas say what the operations on goals
(`NextSubgoalGoal`, `DisturbanceKeeps`, `ReplanKeeps`, ...) and on counters (`WithinKeeps`,
`ReplanCounted`) keep, and how a handler can end (`ContinueGoal`,
`AbortedGoal`, `ReplannedOrAborted`, ...); one lemma per stretch of the
loop then has one step per action. The assumptions are the named ones of
`Coordinator`: bounds are positive, a screen is compared with at least one
other, and gestures that the code itself adds are among the kinds of step.

`HitlProofs` proves all but the liveness of `Hitl`, for any questions and any finite
set of connections. `PendingIsUnfinished` becomes inductive together with `Entries`: a
question is in the history once, one not asked yet has no answer or entry, and one not
returned has no result. `EveryoneAsked` needs what a broadcast knows of the
connections that do not lie ahead of it (`Ahead`: each was told, is dead, or was collected), as long as
nobody was registered meanwhile. The refinement maps the phases to
`Inquiry`'s stages; after the question is closed the abstract `said` is forgotten.

`ServiceProofs` proves all but the liveness of `DeviceLink`, for any commands and
connections. `Truth` (a yes, wherever it is, is about a gesture that has arrived, and was carried
out unless it is blind), `Tracks` (a command has one message at most, after it was sent and
before it arrived) and `Counts` (what took effect, and what still may, was attempted, and attempts
have their limit) are inductive with `LinkTypeOK`; from them follow `OkMeansExecuted` and the
refinement, where the bound on late effects is the hard half.

`CaptureProofs` proves all of `Capture`, for any perceptions, any number of them
together and any number of retries. `TypeOK` needs `Places` (a pause is between the first
and second attempt of a screenshot; a waiting call has no reply but what the phone can
send). `Entries` adds to `PendingIsUnderWay` that an answered screenshot has no entry, because
its handler took it. `Fresh` says that requests and full answers are not older than
their perception. All steps of `request_perception` are one kind of step (`GoDoes`), of which
the lemmas say what it keeps. The refinement maps a finished bundle to `See`, by `Fresh`.

`WorkflowProofs` proves all but the liveness of `Workflow`, for any number of turns and
retries. The invariant: what lies in the future is blank (`FutureIsBlank`), the data of
the nodes ahead stem from this turn (`Present`), each node runs only where its input is there
(`Place`), a good end has no bad outcome and words about its request (`Ending`), and memory has only answered turns
(`RemembersTheAnswered`). What may be in the words generated or described is a lemma each (`SourcesAreKnown`, `SaidIsAbout`). The refinement maps `pc` to the open request; `Answer`'s
`completed` never meets a bad outcome by `Ending`.

`ServiceProofs` proves `ItemsAreHonest` and that the progress service implements `TaskFlags`,
for lists of any length: the first is inductive with the types, and says where the item in
progress is.

`ServiceProofs` proves `GateIsRight` and `NeverInterrupts` for any turns and
requests. The counter is the number of turns at work (`Counted`), so an own request decided
at 0 finds none (`NoneFound`); a grant that fell into a wait is still known when the turn wakes
(`Remembered`).

`ConversationProofs` proves all but the liveness of `Conversation`, for any utterances, typed or
spoken, and any cancels. `EachItsOwn` is about the turn at work, and what makes it true lies in the
messages that are still under way, which two readers take with different effects. So the
invariant says of each `end_turn` in the queue what the buffer will hold when it is read (`Clean`:
nothing but its own audio lies behind its start, or lies in the buffer and before it, or the start was
muted), that a cancel behind the end of an utterance has marked it (`Marked`), that
each utterance ends once and is unsettled until then (`Once`, `Awaited`), and the same of
the recording not yet sent and of the turn at work (`OnItsWay`, `AtWork`). Lemmas say what a message
that is sent, read or lost does to these (`WayPost`, `WayRead`, `WayCut`); then every step is one of
them. After the handler has closed nothing is said of the queue, which nobody reads.
`ThinkingIsExplained` needs that a phone which waits on a dead link has sent in vain (`Waits`).

`ListeningProofs` proves `DetectorIsTrue` and `ActiveIsWatched` for any jobs and events. The mode is
told to the service through the main thread's queue, so both hold of a settled mode only:
the last mode posted is the mode there is (`WillBeTold`), unless a thread was overtaken. A
listening detector has a live job of its own (`HasJob`).

`LiveSessionProofs` proves `OneConsumer` and `MutedWhilePlaying` for any players. A player waits for at
most one block in the main thread's queue (`Fit`, `Once`). As long as none was cancelled the one
at work is `audioPlayerJob` (`Sole`), and as long as none overlap there is only one (`Single`). The
microphone may have to be opened again while the next player is launched: that block lies
before the one that mutes it, so the new player has not begun to play when it is run
(`RestartFirst`).

Only model-checked: `Terminates`, `EveryQuestionEnds`, `EveryCommandEnds`, `EveryTurnEnds`,
`EveryGateEnds`, `EveryUtteranceIsSettled`, `WakeWordReturns` and `TurnsEnd` (liveness and `ENABLED`
are out of the prover's reach), and the violation.

## Not modelled

* Prompts, parsing, element detection, intent classification, the perceiver and the
  perception pipeline: they map data to data, and the models take any of their results.
* `gesture_executor.py` beyond what `DeviceLink` and `Coordinator` say of one gesture, and
  the order of fallbacks between model providers (`llm.py`, `vlm.py`): sequences without state.
* The policy engine, which only the graph's validation asks (a refusal in `Workflow`), and
  Reflexion and web search, whose results only reach prompts.
* `command_logger.py`, the log uploader, the phone's layout, settings and onboarding, deployment: output.
* Of modelled parts, what each section above leaves out.

What could come next: the composition of the coordinator's gesture with `RemoteCall`, so
that a repetition the coordinator decides on after a timeout can be seen to fire twice, and of its question with
`Inquiry`; loss of the connection in `LiveSession`; more of the perceiver and the gesture executor.
