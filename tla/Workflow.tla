------------------------------- MODULE Workflow -------------------------------
(***************************************************************************)
(* aura_graph: the graph that takes one request from transcript to answer, *)
(* run again and again on one thread.  The checkpointer keeps the state of *)
(* the thread; what a new request does not overwrite is still there.  Data *)
(* are represented by the number of the turn they stem from, 0 for none;   *)
(* words by what they were made from.                                      *)
(***************************************************************************)
EXTENDS Naturals

CONSTANTS
  MaxTurns,    \* bound: the requests made on the thread
  max_retries, \* as _create_initial_state sets it
  NoIntent

ASSUME TurnsAssumption == MaxTurns \in Nat \ {0}

ASSUME RetriesAssumption == max_retries \in Nat

Turn == 1 .. MaxTurns

Tag == 0 .. MaxTurns

Inputs == {"text", "audio"}   \* "text" stands for "streaming" as well

\* What routing looks for in a transcript: a word of greeting or thanks, a
\* conjunction, or a word for something on the screen.
Utterances == {"plain", "greets", "several", "screen"}

\* One representative for each way an action is treated.
Actions == {"unknown", "talk", "web_search", "open_app", "send_message", "tap", "read_screen"}

NO_UI_ACTIONS == {"open_app"}

Intent == [action : Actions, confidence : {"none", "low", "high"}, delegate : BOOLEAN, turn : Turn]

ASSUME NoIntentIsNone == NoIntent \notin Intent

\* What words are made from: of which turn, and what of it.  The conversation so far,
\* which is meant to be taken up, is not counted.
Source == Turn \X {"request", "error", "step", "screen", "search"}

VARIABLES
  pc,        \* the node that runs next, "idle", "answer" or "raised"
  turn,      \* the requests made so far
  input,     \* input_type and transcript of the request
  intent,
  status,
  feedback_message, spoken_response,  \* sets of sources, {} for none
  perception_bundle, agent_state, goal_summary,
  executed_steps,  \* the turns the recorded steps stem from
  error_message,   \* the errors joined: <<turn, kind>>
  retry_count,
  memory,    \* the turns the session's entities and last action stem from
  refused,   \* history: the turns blocked by the policies
  outcome,   \* history: how the work of each turn went
  answer,    \* history: the status reported for each turn
  heard      \* history: the sources of the last answer's words

thread == <<input, intent, status, feedback_message, spoken_response, perception_bundle,
            agent_state, goal_summary, executed_steps, error_message, retry_count>>

history == <<refused, outcome, answer, heard>>

vars == <<pc, turn, thread, memory, history>>

Nodes == {"stt", "parse_intent", "web_search", "perception", "coordinator", "error_handler", "speak"}

Statuses == {"starting", "transcribed", "stt_failed", "intent_already_parsed", "intent_parsed",
             "intent_failed", "blocked", "web_search_complete", "web_search_failed",
             "perception_complete", "perception_failed", "executed", "completed", "failed", "retry"}

TypeOK ==
  /\ pc \in Nodes \cup {"idle", "answer", "raised"}
  /\ turn \in Tag
  /\ input \in [type : Inputs, says : Utterances]
  /\ intent \in Intent \cup {NoIntent}
  /\ status \in Statuses
  /\ feedback_message \subseteq Source /\ spoken_response \subseteq Source /\ heard \subseteq Source
  /\ perception_bundle \in Tag /\ agent_state \in Tag /\ goal_summary \in Tag
  /\ executed_steps \subseteq Turn
  /\ error_message \subseteq Turn \X {"timeout", "other"}
  /\ retry_count \in 0 .. max_retries
  /\ memory \subseteq Turn
  /\ refused \subseteq Turn
  /\ outcome \in [Turn -> {"none", "ok", "unfound", "bad"}]
  /\ answer \in [Turn -> {"none", "completed", "failed", "retry"}]

Init ==
  /\ pc = "idle" /\ turn = 0
  /\ input = [type |-> "text", says |-> "plain"]
  /\ intent = NoIntent /\ status = "starting"
  /\ feedback_message = {} /\ spoken_response = {} /\ perception_bundle = 0
  /\ agent_state = 0 /\ goal_summary = 0 /\ executed_steps = {}
  /\ error_message = {} /\ retry_count = 0
  /\ memory = {}
  /\ refused = {} /\ heard = {}
  /\ outcome = [t \in Turn |-> "none"]
  /\ answer = [t \in Turn |-> "none"]

\* What is said of this request alone.
Own == {<<turn, "request">>}

ErrorsKept == {<<e[1], "error">> : e \in error_message}

Worked(o) == outcome' = [outcome EXCEPT ![turn] = o]

\* "timeout" stands for all errors the handler retries: timeouts and network errors.
AddError(kind) == error_message' = error_message \cup {<<turn, kind>>}

-----------------------------------------------------------------------------
(* A request: _create_initial_state, on top of what the checkpoint kept *)

\* Mutant of ResetTask: the intent is left as the last request had it.
ResetTaskButIntent ==
  /\ status' = "starting" /\ feedback_message' = {}
  /\ agent_state' = 0 /\ goal_summary' = 0 /\ retry_count' = 0
  /\ UNCHANGED <<intent, spoken_response, perception_bundle, executed_steps, error_message>>

\* The reducers of error_message and executed_steps add the new values, None and
\* the empty list, to the old ones.
ResetTask ==
  /\ intent' = NoIntent /\ status' = "starting" /\ feedback_message' = {}
  /\ agent_state' = 0 /\ goal_summary' = 0 /\ retry_count' = 0
  /\ UNCHANGED <<spoken_response, perception_bundle, executed_steps, error_message>>

\* After five minutes without a request the session starts anew; requests that
\* come as audio have a session of their own each.
Session ==
  IF input'.type = "audio" THEN UNCHANGED memory ELSE memory' \in {memory, {}}

\* route_from_start
AfterStart(i) == IF i.type = "text" THEN "parse_intent" ELSE "stt"

Begin ==
  /\ pc = "idle" /\ turn < MaxTurns
  /\ turn' = turn + 1
  /\ input' \in [type : Inputs, says : Utterances]
  /\ pc' = AfterStart(input')
  /\ ResetTask /\ Session
  /\ UNCHANGED history

-----------------------------------------------------------------------------
(* stt_node and should_continue_after_stt *)

\* What is left of a transcript may be a single letter: too short for a request.
AfterStt(s, tooShort) == IF s = "stt_failed" \/ tooShort THEN "error_handler" ELSE "parse_intent"

Transcribe ==
  /\ pc = "stt"
  /\ status' = "transcribed"
  /\ \E tooShort \in BOOLEAN : pc' = AfterStt(status', tooShort)
  /\ UNCHANGED <<turn, input, intent, feedback_message, spoken_response, perception_bundle,
                 agent_state, goal_summary, executed_steps, error_message, retry_count,
                 memory, history>>

SttFails ==
  /\ pc = "stt"
  /\ status' = "stt_failed" /\ pc' = AfterStt(status', FALSE)
  /\ \E kind \in {"timeout", "other"} : AddError(kind)
  /\ UNCHANGED <<turn, input, intent, feedback_message, spoken_response, perception_bundle,
                 agent_state, goal_summary, executed_steps, retry_count, memory, history>>

-----------------------------------------------------------------------------
(* parse_intent_node and should_continue_after_intent_parsing *)

\* A greeting word decides before the kind of action does.
AfterParse(i, s, says) ==
  IF s = "blocked" THEN "speak"
  ELSE IF s = "intent_failed" \/ i.confidence = "none" THEN "error_handler"
  ELSE IF i.delegate THEN "coordinator"
  ELSE IF i.action = "web_search" THEN "web_search"
  ELSE IF i.action = "talk" \/ says = "greets" THEN "speak"
  ELSE IF \/ i.confidence = "low" \/ says = "several"
          \/ i.action \in NO_UI_ACTIONS
          \/ i.action = "send_message" /\ says # "screen"
       THEN "coordinator" ELSE "perception"

\* The prompt guard or the policy on sensitive actions refuses.
Block ==
  /\ pc = "parse_intent"
  /\ status' = "blocked" /\ spoken_response' = Own
  /\ AddError("other")
  /\ pc' = AfterParse(intent, "blocked", input.says)
  /\ refused' = refused \cup {turn}
  /\ UNCHANGED <<turn, input, intent, feedback_message, perception_bundle, agent_state,
                 goal_summary, executed_steps, retry_count, memory, outcome, answer, heard>>

AlreadyParsed == intent # NoIntent /\ intent.confidence = "high"

\* An intent that is there and trusted is taken for that of the request.
ParseIntent ==
  /\ pc = "parse_intent"
  /\ intent' \in IF AlreadyParsed THEN {intent} ELSE {i \in Intent : i.turn = turn}
  /\ status' = IF AlreadyParsed THEN "intent_already_parsed" ELSE "intent_parsed"
  /\ pc' = AfterParse(intent', status', input.says)
  /\ UNCHANGED <<turn, input, feedback_message, spoken_response, perception_bundle, agent_state,
                 goal_summary, executed_steps, error_message, retry_count, memory, history>>

ParseFails ==
  /\ pc = "parse_intent"
  /\ intent' = [action |-> "unknown", confidence |-> "none", delegate |-> FALSE, turn |-> turn]
  /\ status' = "intent_failed"
  /\ \E kind \in {"timeout", "other"} : AddError(kind)
  /\ pc' = AfterParse(intent', status', input.says)
  /\ UNCHANGED <<turn, input, feedback_message, spoken_response, perception_bundle, agent_state,
                 goal_summary, executed_steps, retry_count, memory, history>>

-----------------------------------------------------------------------------
(* web_search_node, perception_node, coordinator_node *)

\* A search that fails in the service is complete too, and its answer an apology; one
\* that has nothing to look for is not.
WebSearch ==
  /\ pc = "web_search"
  /\ \/ status' = "web_search_complete" /\ \E o \in {"ok", "unfound"} : Worked(o)
     \/ status' = "web_search_failed" /\ Worked("unfound")
  /\ feedback_message' = {<<turn, "search">>}
  /\ pc' = "speak"
  /\ UNCHANGED <<turn, input, intent, spoken_response, perception_bundle, agent_state,
                 goal_summary, executed_steps, error_message, retry_count, memory, refused,
                 answer, heard>>

\* should_continue_after_perception
AfterPerception(s) ==
  IF s = "perception_failed" THEN "error_handler"
  ELSE IF intent.action = "read_screen" THEN "speak" ELSE "coordinator"

Perceive ==
  /\ pc = "perception"
  /\ perception_bundle' = turn /\ status' = "perception_complete"
  /\ pc' = AfterPerception(status')
  /\ UNCHANGED <<turn, input, intent, feedback_message, spoken_response, agent_state,
                 goal_summary, executed_steps, error_message, retry_count, memory, history>>

PerceptionFails ==
  /\ pc = "perception"
  /\ perception_bundle' = 0 /\ status' = "perception_failed"
  /\ \E kind \in {"timeout", "other"} : AddError(kind)
  /\ pc' = AfterPerception(status')
  /\ UNCHANGED <<turn, input, intent, feedback_message, spoken_response, agent_state,
                 goal_summary, executed_steps, retry_count, memory, history>>

\* Mutant of CoordinatorDone: the status of the task is not looked at.
CoordinatorDoneAnyway(o) == status' = "executed" /\ Worked(o)

CoordinatorDone(o) ==
  /\ status' = IF o = "ok" THEN "executed" ELSE "failed"
  /\ Worked(o)

\* execute came back: the task was completed, aborted or given up.
Coordinate ==
  /\ pc = "coordinator"
  /\ \E o \in {"ok", "bad"} : CoordinatorDone(o)
  /\ executed_steps' = executed_steps \cup {turn}
  /\ feedback_message' = Own /\ agent_state' = turn /\ goal_summary' = turn
  /\ pc' = "speak"
  /\ UNCHANGED <<turn, input, intent, spoken_response, perception_bundle, error_message,
                 retry_count, memory, refused, answer, heard>>

CoordinatorRaises ==
  /\ pc = "coordinator"
  /\ status' = "failed" /\ Worked("bad")
  /\ \E kind \in {"timeout", "other"} : AddError(kind)
  /\ feedback_message' = Own
  /\ pc' = "speak"
  /\ UNCHANGED <<turn, input, intent, spoken_response, perception_bundle, agent_state,
                 goal_summary, executed_steps, retry_count, memory, refused, answer, heard>>

-----------------------------------------------------------------------------
(* error_handler_node and should_continue_after_error_handling *)

\* The kind of error is read from all the errors of the thread.
ShouldRetry == retry_count < max_retries /\ \E e \in error_message : e[2] = "timeout"

\* Mutant of AfterErrorHandler: a failed perception is repeated, however often.
AfterErrorHandlerForever(s, retries) ==
  IF intent = NoIntent THEN "raised"
  ELSE IF intent.action \notin NO_UI_ACTIONS THEN "perception" ELSE "speak"

\* Without an intent the routing function raises.
AfterErrorHandler(s, retries) ==
  IF intent = NoIntent THEN "raised"
  ELSE IF intent.action \notin NO_UI_ACTIONS /\ retries < max_retries /\ s = "perception_failed"
       THEN "perception" ELSE "speak"

\* So is the message.
HandleError ==
  /\ pc = "error_handler"
  /\ feedback_message' = Own \cup ErrorsKept
  /\ status' = IF ShouldRetry THEN "retry" ELSE "failed"
  /\ retry_count' = IF ShouldRetry THEN retry_count + 1 ELSE retry_count
  /\ Worked("bad")
  /\ pc' = AfterErrorHandler(status', retry_count')
  /\ UNCHANGED <<turn, input, intent, spoken_response, perception_bundle, agent_state,
                 goal_summary, executed_steps, error_message, memory, refused, answer, heard>>

-----------------------------------------------------------------------------
(* speak_node *)

Reading == intent # NoIntent /\ intent.action = "read_screen"

Failing == status \in {"failed", "retry"} /\ feedback_message # {}

Says(words) == feedback_message' = words /\ spoken_response' = words

\* The screen that is kept is described, whichever turn looked at it, or the user is told
\* that it cannot be seen.
Describe ==
  /\ pc = "speak" /\ Reading
  /\ \/ /\ perception_bundle # 0
        /\ Says(Own \cup {<<perception_bundle, "screen">>}) /\ Worked("ok")
     \/ Says(Own) /\ Worked("unfound")
  /\ status' = "completed"
  /\ pc' = "answer"
  /\ UNCHANGED <<turn, input, intent, perception_bundle, agent_state, goal_summary,
                 executed_steps, error_message, retry_count, memory, refused, answer, heard>>

\* Mutant of SpeakFailure: the session is told of failures as well.
SpeakFailureRemembered ==
  /\ pc = "speak" /\ ~Reading /\ Failing
  /\ memory' = memory \cup {turn}
  /\ pc' = "answer"
  /\ UNCHANGED <<turn, thread, history>>

\* A failure keeps the message it came with, and is not said.
SpeakFailure ==
  /\ pc = "speak" /\ ~Reading /\ Failing
  /\ pc' = "answer"
  /\ UNCHANGED <<turn, thread, memory, history>>

\* The entities of the request go to its session, if there is an intent.
Remember ==
  memory' = IF intent # NoIntent /\ input.type = "text" THEN memory \cup {turn} ELSE memory

StepsKept == {<<t, "step">> : t \in executed_steps}

\* generate_feedback has a canned answer, or asks the model: about the errors kept in
\* the thread and, if the coordinator worked on this request, the steps kept there.
Generated ==
  {Own, Own \cup ErrorsKept,
   Own \cup ErrorsKept \cup (IF agent_state = 0 THEN {} ELSE StepsKept)}

\* The feedback there is, the answer of a search for one, is not used.
Speak ==
  /\ pc = "speak" /\ ~Reading /\ ~Failing
  /\ \E words \in Generated : Says(words)
  /\ status' = "completed"
  /\ Remember
  /\ pc' = "answer"
  /\ UNCHANGED <<turn, input, intent, perception_bundle, agent_state, goal_summary,
                 executed_steps, error_message, retry_count, history>>

\* Generating the feedback raises.
SpeakRaises ==
  /\ pc = "speak" /\ ~Reading /\ ~Failing
  /\ Says(Own) /\ status' = "failed"
  /\ pc' = "answer"
  /\ UNCHANGED <<turn, input, intent, perception_bundle, agent_state, goal_summary,
                 executed_steps, error_message, retry_count, memory, history>>

-----------------------------------------------------------------------------
(* The callers: execute_aura_task_from_streaming, _from_text, execute_aura_task *)

Report ==
  /\ answer' = [answer EXCEPT ![turn] = status]
  /\ pc' = "idle"
  /\ UNCHANGED <<turn, thread, memory, refused, outcome>>

\* What is said is the spoken response of the thread, the feedback only if there is none.
AnswerText ==
  /\ pc = "answer" /\ input.type = "text"
  /\ heard' = IF spoken_response # {} THEN spoken_response ELSE feedback_message
  /\ Report

\* What the last node returned, not what the thread holds.
AnswerAudio ==
  /\ pc = "answer" /\ input.type = "audio"
  /\ heard' = feedback_message
  /\ Report

Answer == AnswerText \/ AnswerAudio

AnswerRaised ==
  /\ pc = "raised"
  /\ answer' = [answer EXCEPT ![turn] = "failed"]
  /\ heard' = Own
  /\ pc' = "idle"
  /\ UNCHANGED <<turn, thread, memory, refused, outcome>>

-----------------------------------------------------------------------------

Parse == Block \/ ParseIntent \/ ParseFails

\* The nodes of create_aura_graph; its edges are the pc' of their actions.
Run ==
  \/ Transcribe \/ SttFails \/ Parse
  \/ WebSearch \/ Perceive \/ PerceptionFails \/ Coordinate \/ CoordinatorRaises
  \/ HandleError \/ Describe \/ SpeakFailure \/ Speak \/ SpeakRaises
  \/ Answer \/ AnswerRaised

Next == Begin \/ Run

Spec == Init /\ [][Next]_vars

\* Every node returns: the calls it waits for have timeouts of their own.
FairSpec == Spec /\ WF_vars(Run)

(***************************************************************************)
(* Properties                                                              *)
(***************************************************************************)

\* Words about this request.  Of other requests there are at most the errors that the
\* thread keeps, the steps if something was done for this one too, and the screen
\* if it was to be read.
AboutTheRequest(words) ==
  /\ <<turn, "request">> \in words
  /\ \A w \in words :
       \/ w[1] = turn
       \/ w[2] = "error"
       \/ w[2] = "step" /\ agent_state = turn
       \/ w[2] = "screen" /\ Reading

\* What earlier requests left in the thread never takes the place of the request:
\* search, perception and coordinator work on an intent of this request, the answer
\* tells of a goal of this request if of any, and what the user hears when his
\* request is reported as completed is about it, whatever else slipped in.  (Of one
\* that failed he may hear what was said before.)
WorksOnOwnRequest ==
  /\ pc \in {"web_search", "perception", "coordinator"} => intent # NoIntent /\ intent.turn = turn
  /\ pc = "speak" => agent_state \in {0, turn} /\ goal_summary = agent_state
  /\ pc = "idle" /\ turn > 0 /\ answer[turn] = "completed" => AboutTheRequest(heard)

\* graph.py and speak_node say that nothing of a previous task bleeds through.
NothingBleedsThrough ==
  pc = "idle" /\ turn > 0 /\ answer[turn] = "completed" => \A w \in heard : w[1] = turn

\* coordinator_node takes the screen of the thread for one seen in advance of this task.
PlannedOnOwnScreen == pc = "coordinator" => perception_bundle \in {0, turn}

\* web_search_node says that the speak node reads its result to the user.
SearchIsTold ==
  pc = "idle" /\ turn > 0 /\ answer[turn] = "completed" /\ intent # NoIntent =>
    (intent.action = "web_search" /\ outcome[turn] = "ok" /\ agent_state = 0 =>
       <<turn, "search">> \in heard)

\* Only requests that were carried out or answered are remembered by the
\* session: "it" never refers to something that failed.
RemembersTheAnswered ==
  \A t \in memory : answer[t] = "completed" \/ (t = turn /\ pc = "answer" /\ status = "completed")

Open == IF pc = "idle" THEN 0 ELSE turn

Promise == INSTANCE Turns WITH open <- Open

\* One request at a time, one answer each, a refused one is never worked on, and work
\* on the phone that went wrong is never reported as completed; a search or a
\* description that found nothing is.
ImplementsTurns == Promise!Spec

\* Every request is answered.
EveryTurnEnds == pc # "idle" ~> pc = "idle"
=============================================================================
