---------------------------- MODULE WorkflowProofs ----------------------------
(***************************************************************************)
(* Proofs about the graph that answers one request after the other: types, *)
(* what a request may take from the ones before, what the session          *)
(* remembers, and that Workflow implements Turns.                          *)
(***************************************************************************)
EXTENDS Workflow, TLAPS

\* Where the graph goes next, and what the callers do with the answer.
USE DEF AfterStart, AfterStt, AfterPerception, AnswerText, AnswerAudio, Report

Before == {"stt", "parse_intent"}

Working == {"web_search", "perception", "coordinator"}

\* The requests to come have left no trace.
FutureIsBlank ==
  \A t \in Turn : t > turn => answer[t] = "none" /\ outcome[t] = "none" /\ t \notin refused

\* The request at work: what the graph knows of it is its own, and its answer is open.
Present ==
  pc # "idle" =>
    /\ turn \in Turn /\ answer[turn] = "none"
    /\ intent = NoIntent \/ intent.turn = turn
    /\ agent_state \in {0, turn} /\ goal_summary = agent_state

\* Where the graph is tells whether it has an intent, and what has come of the work.
Place ==
  /\ pc \in Before => intent = NoIntent
  /\ pc \in Working => intent # NoIntent
  /\ pc \in Before \cup Working \cup {"error_handler"} =>
       outcome[turn] = "none" /\ turn \notin refused
  /\ pc \in {"speak", "answer", "raised"} /\ turn \in refused =>
       intent = NoIntent /\ outcome[turn] = "none"

\* A request that went wrong is on its way to an answer that says so.
Ending ==
  /\ pc = "speak" /\ outcome[turn] = "bad" => Failing
  /\ pc = "answer" =>
       /\ status \in {"completed", "failed", "retry"}
       /\ status = "completed" =>
            /\ outcome[turn] # "bad" /\ spoken_response = feedback_message
            /\ AboutTheRequest(spoken_response)
  /\ pc = "idle" /\ turn > 0 /\ answer[turn] = "completed" => AboutTheRequest(heard)

Inv == TypeOK /\ FutureIsBlank /\ Present /\ Place /\ Ending /\ RemembersTheAnswered

-----------------------------------------------------------------------------
(* Types *)

LEMMA Numbers == /\ MaxTurns \in Nat \ {0} /\ max_retries \in Nat /\ NoIntent \notin Intent
                 /\ Turn \subseteq Tag /\ 0 \in Tag /\ Turn \subseteq Nat \ {0}
BY TurnsAssumption, RetriesAssumption, NoIntentIsNone DEF Turn, Tag

LEMMA InitInv == Init => Inv
<1> SUFFICES ASSUME Init PROVE Inv
  OBVIOUS
<1> USE Numbers DEF Init
<1>1. TypeOK
  BY DEF TypeOK, Nodes, Statuses, Inputs, Utterances
<1>2. FutureIsBlank /\ Present /\ Place /\ Ending /\ RemembersTheAnswered
  BY DEF FutureIsBlank, Present, Place, Ending, RemembersTheAnswered, Before, Working
<1> QED
  BY <1>1, <1>2 DEF Inv

\* Where the graph goes after the request was parsed.
LEMMA AfterParseGoes ==
  ASSUME NEW i, NEW s, NEW says
  PROVE  /\ AfterParse(i, s, says) \in Working \cup {"error_handler", "speak"}
         /\ s = "blocked" => AfterParse(i, s, says) = "speak"
         /\ s = "intent_failed" => AfterParse(i, s, says) = "error_handler"
BY DEF AfterParse, Working

\* An error of this turn is added, or none.
LEMMA ErrorsGrow ==
  ASSUME error_message \subseteq Turn \X {"timeout", "other"}, turn \in Turn,
         NEW kind \in {"timeout", "other"}, AddError(kind)
  PROVE  error_message' \subseteq Turn \X {"timeout", "other"}
BY DEF AddError

\* The words there can be are made of the sources there are.
LEMMA SourcesAreKnown ==
  ASSUME TypeOK, turn \in Turn
  PROVE  /\ Own \subseteq Source /\ ErrorsKept \subseteq Source /\ StepsKept \subseteq Source
         /\ {<<turn, "search">>} \subseteq Source
         /\ perception_bundle # 0 => {<<perception_bundle, "screen">>} \subseteq Source
         /\ \A words \in Generated : words \subseteq Source
<1>1. Own \subseteq Source /\ {<<turn, "search">>} \subseteq Source
  BY DEF Own, Source
<1>2. ErrorsKept \subseteq Source
  BY DEF ErrorsKept, Source, TypeOK
<1>3. StepsKept \subseteq Source
  BY DEF StepsKept, Source, TypeOK
<1>4. perception_bundle # 0 => {<<perception_bundle, "screen">>} \subseteq Source
  BY Numbers DEF Source, TypeOK, Tag, Turn
<1>5. \A words \in Generated : words \subseteq Source
  BY <1>1, <1>2, <1>3 DEF Generated
<1> QED
  BY <1>1, <1>2, <1>3, <1>4, <1>5

\* What is said on the way to the answer is about the request.
LEMMA SaidIsAbout ==
  ASSUME turn \in Turn, agent_state \in {0, turn}
  PROVE  /\ AboutTheRequest(Own) /\ (\A words \in Generated : AboutTheRequest(words))
         /\ Reading => AboutTheRequest(Own \cup {<<perception_bundle, "screen">>})
BY Numbers DEF AboutTheRequest, Own, Generated, ErrorsKept, StepsKept

LEMMA TypeStep == TypeOK /\ Present /\ Ending /\ [Next]_vars => TypeOK'
<1> SUFFICES ASSUME TypeOK, Present, Ending, [Next]_vars PROVE TypeOK'
  OBVIOUS
<1> USE Numbers DEF thread, history
<1>0. pc # "idle" => turn \in Turn /\ turn \in Tag
  BY DEF Present
<1>1. CASE Begin
  <2>1. turn + 1 \in Tag
    BY <1>1 DEF Begin, TypeOK, Tag
  <2>2. memory' \subseteq Turn
    BY <1>1 DEF Begin, Session, TypeOK
  <2>3. pc' \in {"stt", "parse_intent"} /\ status' = "starting" /\ intent' = NoIntent
    BY <1>1 DEF Begin, ResetTask
  <2>4. input' \in [type : Inputs, says : Utterances]
    BY <1>1 DEF Begin
  <2>5. /\ turn' = turn + 1 /\ feedback_message' = {} /\ agent_state' = 0 /\ goal_summary' = 0
        /\ retry_count' = 0
        /\ UNCHANGED <<spoken_response, perception_bundle, executed_steps, error_message>>
        /\ UNCHANGED <<refused, outcome, answer, heard>>
    BY <1>1 DEF Begin, ResetTask
  <2>6. pc' \in Nodes /\ status' \in Statuses /\ retry_count' \in 0 .. max_retries
    BY <2>3, <2>5 DEF Nodes, Statuses
  <2> QED
    BY <2>1, <2>2, <2>3, <2>4, <2>5, <2>6 DEF TypeOK
<1>2. CASE Transcribe
  BY <1>2 DEF Transcribe, TypeOK, Nodes, Statuses
<1>3. CASE SttFails
  <2>1. error_message' \subseteq Turn \X {"timeout", "other"}
    BY <1>0, <1>3, ErrorsGrow DEF SttFails, TypeOK
  <2> QED
    BY <1>3, <2>1 DEF SttFails, TypeOK, Nodes, Statuses
<1>4. CASE Parse
  <2>1. pc' \in Nodes /\ status' \in Statuses
    BY <1>4, AfterParseGoes DEF Parse, Block, ParseIntent, ParseFails, Working, Nodes, Statuses
  <2>2. error_message' \subseteq Turn \X {"timeout", "other"}
    BY <1>0, <1>4, ErrorsGrow DEF Parse, Block, ParseIntent, ParseFails, TypeOK
  <2>3. intent' \in Intent \cup {NoIntent}
    <3>1. pc = "parse_intent"
      BY <1>4 DEF Parse, Block, ParseIntent, ParseFails
    <3>2. [action |-> "unknown", confidence |-> "none", delegate |-> FALSE, turn |-> turn] \in Intent
      BY <1>0, <3>1 DEF Intent, Actions
    <3> QED
      BY <1>4, <3>2 DEF Parse, Block, ParseIntent, ParseFails, TypeOK
  <2>4. /\ refused' \subseteq Turn /\ spoken_response' \subseteq Source
        /\ UNCHANGED <<turn, input, feedback_message, perception_bundle, agent_state, goal_summary,
                       executed_steps, retry_count, memory, outcome, answer, heard>>
    BY <1>0, <1>4, SourcesAreKnown DEF Parse, Block, ParseIntent, ParseFails, TypeOK
  <2> QED
    BY <2>1, <2>2, <2>3, <2>4 DEF TypeOK
<1>5. CASE WebSearch \/ Perceive
  <2>1. pc' \in Nodes /\ status' \in Statuses
    BY <1>5 DEF WebSearch, Perceive, Nodes, Statuses
  <2>2. feedback_message' \subseteq Source /\ outcome' \in [Turn -> {"none", "ok", "unfound", "bad"}]
    BY <1>0, <1>5, SourcesAreKnown DEF WebSearch, Perceive, TypeOK, Worked
  <2> QED
    BY <1>0, <1>5, <2>1, <2>2 DEF WebSearch, Perceive, TypeOK
<1>6. CASE PerceptionFails
  <2>1. error_message' \subseteq Turn \X {"timeout", "other"}
    BY <1>0, <1>6, ErrorsGrow DEF PerceptionFails, TypeOK
  <2> QED
    BY <1>6, <2>1 DEF PerceptionFails, TypeOK, Nodes, Statuses
<1>7. CASE Coordinate
  <2>1. pc' \in Nodes /\ status' \in Statuses
    BY <1>7 DEF Coordinate, CoordinatorDone, Nodes, Statuses
  <2>2. outcome' \in [Turn -> {"none", "ok", "unfound", "bad"}]
    BY <1>7 DEF Coordinate, CoordinatorDone, Worked, TypeOK
  <2> QED
    BY <1>0, <1>7, <2>1, <2>2, SourcesAreKnown DEF Coordinate, TypeOK
<1>8. CASE CoordinatorRaises
  <2>1. error_message' \subseteq Turn \X {"timeout", "other"}
    BY <1>0, <1>8, ErrorsGrow DEF CoordinatorRaises, TypeOK
  <2> QED
    BY <1>0, <1>8, <2>1, SourcesAreKnown DEF CoordinatorRaises, Worked, TypeOK, Nodes, Statuses
<1>9. CASE HandleError
  <2>1. pc' \in {"raised", "perception", "speak"}
    BY <1>9 DEF HandleError, AfterErrorHandler
  <2>2. retry_count' \in 0 .. max_retries
    BY <1>9 DEF HandleError, ShouldRetry, TypeOK
  <2> QED
    BY <1>0, <1>9, <2>1, <2>2, SourcesAreKnown DEF HandleError, Worked, TypeOK, Nodes, Statuses
<1>10. CASE Describe \/ SpeakFailure \/ Speak \/ SpeakRaises
  <2>1. feedback_message' \subseteq Source /\ spoken_response' \subseteq Source
    BY <1>0, <1>10, SourcesAreKnown DEF Describe, SpeakFailure, Speak, SpeakRaises, Says, thread, TypeOK
  <2>2. outcome' \in [Turn -> {"none", "ok", "unfound", "bad"}]
    BY <1>10 DEF Describe, SpeakFailure, Speak, SpeakRaises, Worked, TypeOK
  <2>3. status' \in Statuses /\ pc' = "answer" /\ memory' \subseteq Turn
    BY <1>0, <1>10 DEF Describe, SpeakFailure, Speak, SpeakRaises, Remember, TypeOK, Statuses
  <2>4. UNCHANGED <<turn, input, intent, perception_bundle, agent_state, goal_summary,
                    executed_steps, error_message, retry_count, refused, answer, heard>>
    BY <1>10 DEF Describe, SpeakFailure, Speak, SpeakRaises
  <2> QED
    BY <2>1, <2>2, <2>3, <2>4 DEF TypeOK
<1>11. CASE Answer
  BY <1>0, <1>11 DEF Answer, Ending, TypeOK
<1>12. CASE AnswerRaised
  BY <1>0, <1>12, SourcesAreKnown DEF AnswerRaised, TypeOK
<1>13. CASE UNCHANGED vars
  BY <1>13 DEF vars, TypeOK
<1> QED
  BY <1>1, <1>2, <1>3, <1>4, <1>5, <1>6, <1>7, <1>8, <1>9, <1>10, <1>11, <1>12, <1>13
     DEF Next, Run

-----------------------------------------------------------------------------
(* The parts of the invariant, step by step *)

\* Only the request at work is worked on, refused or answered.
LEMMA OnlyTheTurn ==
  ASSUME Inv, [Next]_vars
  PROVE  /\ turn' = turn \/ (Begin /\ turn' = turn + 1)
         /\ \A t \in Turn :
              t # turn => /\ outcome'[t] = outcome[t]
                          /\ answer'[t] = answer[t]
                          /\ (t \in refused') = (t \in refused)
<1> USE Numbers DEF thread, history
<1>0. outcome \in [Turn -> {"none", "ok", "unfound", "bad"}] /\ refused \subseteq Turn
      /\ answer \in [Turn -> {"none", "completed", "failed", "retry"}]
  BY DEF Inv, TypeOK
<1>1. CASE Begin
  BY <1>1 DEF Begin
<1>2. CASE Transcribe \/ SttFails \/ WebSearch \/ Perceive \/ PerceptionFails
  BY <1>0, <1>2 DEF Transcribe, SttFails, WebSearch, Perceive, PerceptionFails, Worked
<1>3. CASE Parse
  BY <1>0, <1>3 DEF Parse, Block, ParseIntent, ParseFails
<1>4. CASE Coordinate
  BY <1>0, <1>4 DEF Coordinate, CoordinatorDone, Worked
<1>5. CASE CoordinatorRaises \/ HandleError \/ Describe
  BY <1>0, <1>5 DEF CoordinatorRaises, HandleError, Describe, Worked
<1>6. CASE SpeakFailure \/ Speak \/ SpeakRaises
  BY <1>6 DEF SpeakFailure, Speak, SpeakRaises
<1>7. CASE Answer \/ AnswerRaised
  BY <1>0, <1>7 DEF Answer, AnswerRaised
<1>8. CASE UNCHANGED vars
  BY <1>8 DEF vars
<1> QED
  BY <1>1, <1>2, <1>3, <1>4, <1>5, <1>6, <1>7, <1>8 DEF Next, Run

LEMMA BlankStep == Inv /\ [Next]_vars => FutureIsBlank'
<1> SUFFICES ASSUME Inv, [Next]_vars, NEW t \in Turn, t > turn'
             PROVE  answer'[t] = "none" /\ outcome'[t] = "none" /\ t \notin refused'
  BY DEF FutureIsBlank
<1>1. turn \in Nat /\ t \in Nat
  BY Numbers DEF Inv, TypeOK, Tag
<1>2. t > turn /\ t # turn
  BY <1>1, OnlyTheTurn
<1>3. answer[t] = "none" /\ outcome[t] = "none" /\ t \notin refused
  BY <1>2 DEF Inv, FutureIsBlank
<1> QED
  BY <1>2, <1>3, OnlyTheTurn

\* A new request finds its answer open and takes no intent over.
LEMMA BeginInv == Inv /\ Begin => Present' /\ Place' /\ Ending' /\ RemembersTheAnswered'
<1> SUFFICES ASSUME Inv, Begin PROVE Present' /\ Place' /\ Ending' /\ RemembersTheAnswered'
  OBVIOUS
<1> USE Numbers
<1>0. turn' = turn + 1 /\ turn < MaxTurns /\ pc = "idle" /\ pc' \in Before
  BY DEF Begin, Before
<1>1. turn \in Nat /\ turn' \in Turn /\ turn' > turn
  BY <1>0 DEF Inv, TypeOK, Tag, Turn
<1>2. /\ UNCHANGED <<refused, outcome, answer, heard>>
      /\ intent' = NoIntent /\ agent_state' = 0 /\ goal_summary' = 0
  BY DEF Begin, ResetTask, history
<1>3. answer'[turn'] = "none" /\ outcome'[turn'] = "none" /\ turn' \notin refused'
  BY <1>1, <1>2 DEF Inv, FutureIsBlank
<1>4. Present'
  BY <1>1, <1>2, <1>3 DEF Present
<1>5. Place'
  BY <1>0, <1>2, <1>3 DEF Place, Before, Working
<1>6. Ending'
  BY <1>0 DEF Ending, Before
<1>7. memory' \subseteq memory
  BY DEF Begin, Session
<1>8. RemembersTheAnswered'
  BY <1>0, <1>2, <1>7 DEF Inv, RemembersTheAnswered
<1> QED
  BY <1>4, <1>5, <1>6, <1>8

\* A node runs for a request that is there and has no answer.
LEMMA RunIsPresent ==
  ASSUME Inv, Run
  PROVE  /\ pc # "idle" /\ turn' = turn
         /\ turn \in Turn /\ turn \in Nat /\ turn # 0 /\ answer[turn] = "none"
         /\ intent = NoIntent \/ intent.turn = turn
         /\ agent_state \in {0, turn} /\ goal_summary = agent_state
<1>1. pc # "idle"
  BY DEF Run, Transcribe, SttFails, Parse, Block, ParseIntent, ParseFails, WebSearch, Perceive,
         PerceptionFails, Coordinate, CoordinatorRaises, HandleError, Describe, SpeakFailure,
         Speak, SpeakRaises, Answer, AnswerRaised
<1>2. turn' = turn
  BY DEF Run, Transcribe, SttFails, Parse, Block, ParseIntent, ParseFails, WebSearch, Perceive,
         PerceptionFails, Coordinate, CoordinatorRaises, HandleError, Describe, SpeakFailure,
         Speak, SpeakRaises, Answer, AnswerRaised
<1> QED
  BY <1>1, <1>2, Numbers DEF Inv, Present

LEMMA PresentStep == Inv /\ Run => Present'
<1> SUFFICES ASSUME Inv, Run PROVE Present'
  OBVIOUS
<1>0. /\ turn' = turn /\ turn \in Turn /\ answer[turn] = "none"
      /\ intent = NoIntent \/ intent.turn = turn
      /\ agent_state \in {0, turn} /\ goal_summary = agent_state
  BY RunIsPresent
<1>1. pc' # "idle" => answer' = answer
  BY DEF Run, Transcribe, SttFails, Parse, Block, ParseIntent, ParseFails, WebSearch, Perceive,
         PerceptionFails, Coordinate, CoordinatorRaises, HandleError, Describe, SpeakFailure,
         Speak, SpeakRaises, Answer, AnswerRaised, history
<1>2. intent' = intent \/ intent'.turn = turn
  <2>1. CASE Parse
    BY <2>1 DEF Parse, Block, ParseIntent, ParseFails
  <2>2. CASE ~Parse
    BY <2>2 DEF Run, Transcribe, SttFails, WebSearch, Perceive, PerceptionFails, Coordinate,
         CoordinatorRaises, HandleError, Describe, SpeakFailure, Speak, SpeakRaises, Answer,
         AnswerRaised, thread
  <2> QED
    BY <2>1, <2>2
<1>3. \/ agent_state' = turn /\ goal_summary' = turn
      \/ UNCHANGED <<agent_state, goal_summary>>
  BY DEF Run, Transcribe, SttFails, Parse, Block, ParseIntent, ParseFails, WebSearch, Perceive,
         PerceptionFails, Coordinate, CoordinatorRaises, HandleError, Describe, SpeakFailure,
         Speak, SpeakRaises, Answer, AnswerRaised, thread
<1> QED
  BY <1>0, <1>1, <1>2, <1>3 DEF Present

LEMMA RememberedStep == Inv /\ Run => RemembersTheAnswered'
<1> SUFFICES ASSUME Inv, Run PROVE RemembersTheAnswered'
  OBVIOUS
<1>0. /\ turn' = turn /\ turn \in Turn /\ answer[turn] = "none"
      /\ answer \in [Turn -> {"none", "completed", "failed", "retry"}]
      /\ memory \subseteq Turn
      /\ \A t \in memory :
           answer[t] = "completed" \/ (t = turn /\ pc = "answer" /\ status = "completed")
  BY RunIsPresent DEF Inv, TypeOK, RemembersTheAnswered
<1>1. CASE Speak
  BY <1>0, <1>1 DEF Speak, Remember, history, RemembersTheAnswered
<1>2. CASE Answer
  <2>1. pc = "answer" /\ memory' = memory /\ answer' = [answer EXCEPT ![turn] = status]
    BY <1>2 DEF Answer
  <2>2. ASSUME NEW t \in memory PROVE answer'[t] = "completed"
    BY <1>0, <2>1
  <2> QED
    BY <2>1, <2>2 DEF RemembersTheAnswered
<1>3. CASE AnswerRaised
  <2>1. \A t \in memory : answer[t] = "completed" /\ t # turn
    BY <1>0, <1>3, RunIsPresent DEF AnswerRaised
  <2> QED
    BY <1>0, <1>3, <2>1 DEF AnswerRaised, RemembersTheAnswered
<1>4. CASE ~(Speak \/ Answer \/ AnswerRaised)
  <2>1. pc # "answer" /\ memory' = memory /\ answer' = answer
    BY <1>4 DEF Run, Transcribe, SttFails, Parse, Block, ParseIntent, ParseFails, WebSearch,
         Perceive, PerceptionFails, Coordinate, CoordinatorRaises, HandleError, Describe,
         SpeakFailure, SpeakRaises, history
  <2> QED
    BY <1>0, <2>1 DEF RemembersTheAnswered
<1> QED
  BY <1>1, <1>2, <1>3, <1>4

LEMMA PlaceStep == Inv /\ Run => Place'
<1> SUFFICES ASSUME Inv, Run PROVE Place'
  OBVIOUS
<1>0. /\ turn' = turn /\ turn \in Turn /\ Place
      /\ outcome \in [Turn -> {"none", "ok", "unfound", "bad"}]
  BY RunIsPresent DEF Inv, TypeOK
<1> USE DEF Place, Before, Working, history, thread
<1>1. CASE Transcribe \/ SttFails \/ WebSearch \/ Perceive \/ PerceptionFails
  BY <1>0, <1>1 DEF Transcribe, SttFails, WebSearch, Perceive, PerceptionFails, Worked
<1>2. CASE Block
  <2>1. pc = "parse_intent" /\ pc' = "speak" /\ intent' = intent /\ outcome' = outcome
    BY <1>2, AfterParseGoes DEF Block
  <2> QED
    BY <1>0, <2>1
<1>3. CASE ParseIntent \/ ParseFails
  <2>1. /\ pc = "parse_intent" /\ pc' \in Working \cup {"error_handler", "speak"}
        /\ outcome' = outcome /\ refused' = refused
    BY <1>3, AfterParseGoes DEF ParseIntent, ParseFails
  <2>2. pc' \in Working => intent' # NoIntent
    <3>1. CASE ParseIntent
      BY <1>0, <2>1, <3>1, Numbers DEF ParseIntent, AlreadyParsed
    <3>2. CASE ParseFails
      BY <3>2, AfterParseGoes DEF ParseFails
    <3> QED
      BY <1>3, <3>1, <3>2
  <2> QED
    BY <1>0, <2>1, <2>2
<1>4. CASE Coordinate \/ CoordinatorRaises
  BY <1>0, <1>4 DEF Coordinate, CoordinatorRaises
<1>5. CASE HandleError
  <2>1. /\ pc = "error_handler" /\ pc' \in {"raised", "speak"}
        /\ refused' = refused
    BY <1>5 DEF HandleError, AfterErrorHandler
  <2> QED
    BY <1>0, <2>1
<1>6. CASE Describe
  BY <1>0, <1>6 DEF Describe, Reading
<1>7. CASE SpeakFailure \/ Speak \/ SpeakRaises
  BY <1>0, <1>7 DEF SpeakFailure, Speak, SpeakRaises
<1>8. CASE Answer \/ AnswerRaised
  BY <1>8 DEF Answer, AnswerRaised
<1> QED
  BY <1>1, <1>2, <1>3, <1>4, <1>5, <1>6, <1>7, <1>8 DEF Run, Parse

LEMMA EndingStep == Inv /\ Run => Ending'
<1> SUFFICES ASSUME Inv, Run PROVE Ending'
  OBVIOUS
<1>0. /\ turn' = turn /\ turn \in Turn /\ turn # 0 /\ Ending /\ Place
      /\ outcome \in [Turn -> {"none", "ok", "unfound", "bad"}]
      /\ answer \in [Turn -> {"none", "completed", "failed", "retry"}]
      /\ agent_state \in {0, turn}
  BY RunIsPresent DEF Inv, TypeOK
<1> USE DEF Ending, Failing
<1>1. CASE Transcribe \/ SttFails \/ PerceptionFails
  BY <1>1 DEF Transcribe, SttFails, PerceptionFails
<1>2. CASE Parse \/ Perceive
  <2>1. /\ pc \in Before \cup Working /\ outcome' = outcome
        /\ pc' \in Working \cup {"error_handler", "speak"}
    BY <1>2, AfterParseGoes DEF Parse, Block, ParseIntent, ParseFails, Perceive,
                                Before, Working, history
  <2> QED
    BY <1>0, <2>1 DEF Place, Working
<1>9. CASE WebSearch
  <2>1. pc' = "speak" /\ outcome'[turn] \in {"ok", "unfound"}
    BY <1>0, <1>9 DEF WebSearch, Worked
  <2> QED
    BY <1>0, <2>1
<1>3. CASE Coordinate
  <2>1. PICK o \in {"ok", "bad"} : CoordinatorDone(o)
    BY <1>3 DEF Coordinate
  <2>2. outcome'[turn] = o /\ (o = "bad" => status' = "failed")
    BY <1>0, <2>1 DEF CoordinatorDone, Worked
  <2> QED
    BY <1>0, <1>3, <2>2 DEF Coordinate, Own
<1>4. CASE CoordinatorRaises \/ HandleError
  <2>1. /\ status' \in {"failed", "retry"} /\ feedback_message' # {}
        /\ pc' \in {"speak", "perception", "raised"}
    BY <1>4 DEF CoordinatorRaises, HandleError, AfterErrorHandler, Own
  <2> QED
    BY <1>0, <2>1
<1>5. CASE Describe
  <2>1. /\ pc' = "answer" /\ status' = "completed" /\ outcome'[turn] # "bad"
        /\ spoken_response' = feedback_message' /\ UNCHANGED <<turn, intent, agent_state>>
        /\ AboutTheRequest(spoken_response')
    BY <1>0, <1>5, SaidIsAbout DEF Describe, Worked, Says
  <2> QED
    BY <2>1 DEF AboutTheRequest, Reading
<1>6. CASE SpeakFailure \/ SpeakRaises
  BY <1>0, <1>6 DEF SpeakFailure, SpeakRaises, thread, history
<1>10. CASE Speak
  <2>1. /\ pc' = "answer" /\ status' = "completed" /\ outcome'[turn] # "bad"
        /\ spoken_response' = feedback_message' /\ UNCHANGED <<turn, intent, agent_state>>
        /\ AboutTheRequest(spoken_response')
    BY <1>0, <1>10, SaidIsAbout DEF Speak, Says, history
  <2> QED
    BY <2>1 DEF AboutTheRequest, Reading
<1>7. CASE Answer
  <2>1. /\ pc = "answer" /\ pc' = "idle" /\ answer'[turn] = status
        /\ UNCHANGED <<turn, intent, agent_state>>
        /\ heard' \in {spoken_response, feedback_message}
    BY <1>0, <1>7 DEF Answer, thread
  <2>2. status = "completed" => AboutTheRequest(heard')
    BY <1>0, <2>1
  <2> QED
    BY <2>1, <2>2 DEF AboutTheRequest, Reading
<1>8. CASE AnswerRaised
  BY <1>0, <1>8 DEF AnswerRaised
<1> QED
  BY <1>1, <1>2, <1>3, <1>4, <1>5, <1>6, <1>7, <1>8, <1>9, <1>10 DEF Run

LEMMA InvStep == Inv /\ [Next]_vars => Inv'
<1> SUFFICES ASSUME Inv, [Next]_vars PROVE Inv'
  OBVIOUS
<1>1. TypeOK'
  BY TypeStep DEF Inv
<1>2. FutureIsBlank'
  BY BlankStep
<1>3. CASE Begin
  BY <1>1, <1>2, <1>3, BeginInv DEF Inv
<1>4. CASE Run
  BY <1>1, <1>2, <1>4, PresentStep, PlaceStep, EndingStep, RememberedStep DEF Inv
<1>5. CASE UNCHANGED vars
  BY <1>1, <1>2, <1>5
     DEF Inv, vars, thread, history, Present, Place, Ending, Failing, RemembersTheAnswered,
         AboutTheRequest, Reading
<1> QED
  BY <1>3, <1>4, <1>5 DEF Next

LEMMA InvHolds == Spec => []Inv
<1>1. Init => Inv
  BY InitInv
<1>2. Inv /\ [Next]_vars => Inv'
  BY InvStep
<1> QED
  BY <1>1, <1>2, PTL DEF Spec

\* The variables keep their types, those of the thread and those of the session:
\* retry_count never passes max_retries, and the errors are those of known turns.
THEOREM TypeCorrect == Spec => []TypeOK
<1>1. Inv => TypeOK
  BY DEF Inv
<1> QED
  BY <1>1, InvHolds, PTL

\* What the thread kept from earlier requests never takes the place of the request,
\* whatever the number of requests and of retries (graph.py, nodes/coordinator_node.py).
THEOREM OwnRequestHolds == Spec => []WorksOnOwnRequest
<1>1. Inv => WorksOnOwnRequest
  BY DEF Inv, Present, Place, Ending, Working, WorksOnOwnRequest
<1> QED
  BY <1>1, InvHolds, PTL

\* The session remembers answered requests only (speak_node, update_session).
THEOREM RememberedHolds == Spec => []RemembersTheAnswered
<1>1. Inv => RemembersTheAnswered
  BY DEF Inv
<1> QED
  BY <1>1, InvHolds, PTL

-----------------------------------------------------------------------------
(* Workflow implements Turns *)

LEMMA RunIsATurn ==
  ASSUME Inv, Inv', Run
  PROVE  Promise!Next \/ UNCHANGED Promise!vars
<1>0. /\ Open = turn /\ turn \in Turn /\ turn' = turn /\ Place /\ Ending
      /\ outcome \in [Turn -> {"none", "ok", "unfound", "bad"}]
  BY RunIsPresent DEF Inv, TypeOK, Open
<1>1. pc' # "idle" => Open' = turn
  BY <1>0 DEF Open
<1> USE DEF Promise!vars, history
<1>2. CASE Transcribe \/ SttFails \/ ParseIntent \/ ParseFails \/ Perceive \/ PerceptionFails
  <2>1. pc' # "idle" /\ UNCHANGED <<outcome, refused, answer>>
    BY <1>2, AfterParseGoes DEF Transcribe, SttFails, ParseIntent, ParseFails,
                                Perceive, PerceptionFails, Working
  <2> QED
    BY <1>0, <1>1, <2>1
<1>3. CASE Block
  <2>1. pc = "parse_intent" /\ pc' = "speak" /\ refused' = refused \cup {turn}
        /\ UNCHANGED <<outcome, answer>>
    BY <1>3, AfterParseGoes DEF Block
  <2>2. Promise!Refuse(turn)
    BY <1>0, <1>1, <2>1 DEF Promise!Refuse, Place, Before
  <2> QED
    BY <1>0, <2>2 DEF Promise!Next
<1>4. CASE WebSearch \/ Coordinate \/ CoordinatorRaises \/ HandleError \/ Describe
  <2>1. turn \notin refused /\ pc' # "idle" /\ UNCHANGED <<refused, answer>>
    BY <1>0, <1>4 DEF WebSearch, Coordinate, CoordinatorRaises, HandleError, AfterErrorHandler,
                      Describe, Reading, Place, Working
  <2>2. \E o \in {"ok", "unfound", "bad"} : outcome' = [outcome EXCEPT ![turn] = o]
    BY <1>4 DEF WebSearch, Coordinate, CoordinatorDone, CoordinatorRaises, HandleError, Describe, Worked
  <2>3. Promise!Work(turn)
    BY <1>0, <1>1, <2>1, <2>2 DEF Promise!Work
  <2> QED
    BY <1>0, <2>3 DEF Promise!Next
<1>5. CASE SpeakFailure \/ Speak \/ SpeakRaises
  <2>1. pc' # "idle" /\ UNCHANGED <<outcome, refused, answer>>
    BY <1>5 DEF SpeakFailure, Speak, SpeakRaises
  <2> QED
    BY <1>0, <1>1, <2>1
<1>6. CASE Answer \/ AnswerRaised
  <2>1. Open' = 0 /\ UNCHANGED <<outcome, refused>>
    BY <1>6 DEF Answer, AnswerRaised, Open
  <2>2. \E s \in {"completed", "failed", "retry"} :
          (s = "completed" => outcome[turn] # "bad") /\ answer' = [answer EXCEPT ![turn] = s]
    BY <1>0, <1>6 DEF Answer, AnswerRaised, Ending
  <2>3. Promise!Answer(turn)
    BY <1>0, <2>1, <2>2 DEF Promise!Answer
  <2> QED
    BY <1>0, <2>3 DEF Promise!Next
<1> QED
  BY <1>2, <1>3, <1>4, <1>5, <1>6 DEF Run, Parse

LEMMA BeginIsATurn ==
  ASSUME Inv, Begin
  PROVE  Promise!Next
<1>1. turn + 1 \in Turn /\ turn + 1 > turn
  BY Numbers DEF Begin, Inv, TypeOK, Tag, Turn
<1>2. /\ pc = "idle" /\ pc' # "idle" /\ turn' = turn + 1
      /\ UNCHANGED <<outcome, refused, answer>>
  BY DEF Begin, history
<1>3. Promise!Begin(turn + 1)
  BY <1>1, <1>2 DEF Promise!Begin, Open, Inv, FutureIsBlank
<1> QED
  BY <1>1, <1>3 DEF Promise!Next

\* Whatever the number of requests made on the thread: one is dealt with at a time
\* and answered once, a refused one is not worked on, and one that went wrong is
\* never reported as completed, unless a search or a description was the last work on it.
THEOREM WorkflowImplementsTurns == Spec => ImplementsTurns
<1>1. Init => Promise!Init
  BY DEF Init, Promise!Init, Open
<1>2. Inv /\ Inv' /\ [Next]_vars => [Promise!Next]_(Promise!vars)
  <2> SUFFICES ASSUME Inv, Inv', [Next]_vars PROVE Promise!Next \/ UNCHANGED Promise!vars
    OBVIOUS
  <2>1. CASE Begin
    BY <2>1, BeginIsATurn
  <2>2. CASE Run
    BY <2>2, RunIsATurn
  <2>3. CASE UNCHANGED vars
    BY <2>3 DEF vars, history, Promise!vars, Open
  <2> QED
    BY <2>1, <2>2, <2>3 DEF Next
<1> QED
  BY <1>1, <1>2, InvHolds, PTL DEF Spec, ImplementsTurns, Promise!Spec
=============================================================================
