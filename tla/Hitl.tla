-------------------------------- MODULE Hitl --------------------------------
(***************************************************************************)
(* services/hitl_service.py: questions that agents ask the user.  An asker *)
(* is a coroutine that suspends in every send_json of the broadcast and    *)
(* then in wait_for; between two of its steps connections come and go, the *)
(* user answers in a dialog or by voice, and other agents ask.             *)
(***************************************************************************)
EXTENDS Naturals, FiniteSets, Sequences

CONSTANTS
  Question,  \* bound: the questions asked, each once (their ids are random)
  Socket,    \* bound: the connections at a time
  NoSocket

ASSUME SocketsAreFinite == IsFiniteSet(Socket)

ASSUME NoSocketIsNone == NoSocket \notin Socket

VARIABLES
  open,      \* external: the connections that still work
  sockets,   \* _websockets
  kind,      \* kind[q]: which ask_ method is called for q
  phase,     \* phase[q]: where the asker of q is
  cast,      \* cast[q]: the iteration of _broadcast_question over sockets
  history,   \* _question_history: every question asked, in order
  pending,   \* the keys of _pending_questions; a dictionary keeps that order
  future,    \* future[q]: the result of the future of q, or Unset
  result,    \* result[q]: what the ask_ method returned
  told       \* told[q]: the connections the question was sent over

vars == <<open, sockets, kind, phase, cast, history, pending, future, result, told>>

Answer == {"yes", "no"}

\* ask_confirmation and ask_choice use a response alike.
Kind == {"choice", "contextual"}

Unset == [via |-> "nobody", ans |-> "none"]

Response == [via : {"dialog"}, ans : Answer \cup {"cancelled"}] \cup [via : {"voice"}, ans : Answer]

\* left: what the iterator may still meet; joined: whether a connection was
\* registered during the broadcast (only the properties read it).
NoCast == [cur |-> NoSocket, left |-> {}, dead |-> {}, size |-> 0, joined |-> FALSE]

Cast == [cur : Socket \cup {NoSocket}, left : SUBSET Socket, dead : SUBSET Socket,
         size : 0..Cardinality(Socket), joined : BOOLEAN]

TypeOK ==
  /\ open \subseteq Socket /\ sockets \subseteq Socket
  /\ kind \in [Question -> Kind]
  /\ phase \in [Question -> {"new", "sending", "waiting", "done", "raised"}]
  /\ cast \in [Question -> Cast]
  /\ \A q \in Question : phase[q] = "sending" => cast[q].cur # NoSocket
  /\ history \in Seq(Question) /\ pending \subseteq Question
  /\ future \in [Question -> Response \cup {Unset}]
  /\ result \in [Question -> Answer \cup {"none", "late"}]
  /\ told \in [Question -> SUBSET Socket]

Init ==
  /\ open = {} /\ sockets = {}
  /\ kind \in [Question -> Kind]
  /\ phase = [q \in Question |-> "new"]
  /\ cast = [q \in Question |-> NoCast]
  /\ history = <<>> /\ pending = {}
  /\ future = [q \in Question |-> Unset]
  /\ result = [q \in Question |-> "none"]
  /\ told = [q \in Question |-> {}]

-----------------------------------------------------------------------------
(* Connections *)

\* The connections that a broadcast refers to.
Held == UNION {{cast[q].cur} \cup cast[q].dead : q \in Question}

\* The members of the WeakSet that may have been collected.
Collected == sockets \ (open \cup Held)

\* Sending, with somebody new: a member that is added goes to any slot of the set,
\* or moves all others to new ones: what lies ahead of an iterator is anything.
Joined(q, left) ==
  IF phase[q] = "sending" THEN [cast[q] EXCEPT !.left = left, !.joined = TRUE] ELSE cast[q]

\* register_websocket.  A WeakSet drops the members that were collected while
\* somebody iterated over it when the next one is added.
register_websocket(ws) ==
  \E gone \in SUBSET Collected :
    /\ ws \notin open \cup sockets \cup Held \cup UNION {cast[q].left \cup told[q] : q \in Question}
    /\ open' = open \cup {ws}
    /\ sockets' = (sockets \ gone) \cup {ws}
    /\ \E left \in [Question -> SUBSET sockets'] :
         cast' = [q \in Question |-> Joined(q, left[q])]
    /\ UNCHANGED <<kind, phase, history, pending, future, result, told>>

\* The connection breaks.  Nobody calls unregister_websocket.
Disconnect(ws) ==
  /\ ws \in open
  /\ open' = open \ {ws}
  /\ UNCHANGED <<sockets, kind, phase, cast, history, pending, future, result, told>>

\* A closed connection is collected, unless an iteration is under way.
Collect(ws) ==
  /\ ws \in sockets \ open /\ \A q \in Question : phase[q] # "sending"
  /\ sockets' = sockets \ {ws}
  /\ UNCHANGED <<open, kind, phase, cast, history, pending, future, result, told>>

-----------------------------------------------------------------------------
(* An agent asks *)

\* The iteration goes on: it raises when the size of the set has changed, else
\* it suspends in the next send or, when nothing is left but what was collected,
\* drops the dead sockets; that drops the collected ones as well.
Iterate(q, c) ==
  \/ /\ Cardinality(sockets) # c.size
     /\ phase' = [phase EXCEPT ![q] = "raised"]
     /\ cast' = [cast EXCEPT ![q] = NoCast]
     /\ UNCHANGED sockets
  \/ /\ Cardinality(sockets) = c.size
     /\ \E ws \in c.left \cap sockets :
          cast' = [cast EXCEPT ![q] = [c EXCEPT !.cur = ws, !.left = @ \ {ws}]]
     /\ phase' = [phase EXCEPT ![q] = "sending"]
     /\ UNCHANGED sockets
  \/ /\ Cardinality(sockets) = c.size /\ c.left \cap sockets \subseteq Collected
     /\ phase' = [phase EXCEPT ![q] = "waiting"]
     /\ cast' = [cast EXCEPT ![q] = NoCast]
     /\ \E gone \in SUBSET Collected :
          /\ c.dead = {} => gone = {}
          /\ sockets' = sockets \ (c.dead \cup gone)

\* _ask_and_wait, up to its first suspension.
_ask_and_wait(q) ==
  /\ phase[q] = "new"
  /\ history' = Append(history, q) /\ pending' = pending \cup {q}
  /\ Iterate(q, [NoCast EXCEPT !.left = sockets, !.size = Cardinality(sockets)])
  /\ UNCHANGED <<open, kind, future, result, told>>

\* Mutant of SendFails: the first dead socket ends the broadcast.
SendFailsForAll(q) ==
  /\ phase[q] = "sending" /\ cast[q].cur \notin open
  /\ phase' = [phase EXCEPT ![q] = "waiting"] /\ cast' = [cast EXCEPT ![q] = NoCast]
  /\ sockets' = sockets \ {cast[q].cur}
  /\ UNCHANGED <<open, kind, history, pending, future, result, told>>

Sent(q) ==
  /\ phase[q] = "sending" /\ cast[q].cur \in open
  /\ told' = [told EXCEPT ![q] = @ \cup {cast[q].cur}]
  /\ Iterate(q, cast[q])
  /\ UNCHANGED <<open, kind, history, pending, future, result>>

SendFails(q) ==
  /\ phase[q] = "sending" /\ cast[q].cur \notin open
  /\ Iterate(q, [cast[q] EXCEPT !.dead = @ \cup {cast[q].cur}])
  /\ UNCHANGED <<open, kind, history, pending, future, result, told>>

\* What the ask_ methods make of a response: a spoken answer is a text_input,
\* which ask_confirmation and ask_choice do not look at.
Meaning(k, r) ==
  IF r.ans = "cancelled" \/ (r.via = "voice" /\ k # "contextual") THEN "none" ELSE r.ans

Return(q, value) ==
  /\ phase' = [phase EXCEPT ![q] = "done"]
  /\ result' = [result EXCEPT ![q] = value]
  /\ UNCHANGED <<open, sockets, kind, cast, history, future, told>>

\* Mutant of Oldest: the dictionary is read from its other end.
Newest ==
  {history[i] : i \in {i \in DOMAIN history :
     history[i] \in pending /\ \A j \in i + 1..Len(history) : history[j] \notin pending}}

\* The first key of the dictionary, if it has one.
Oldest ==
  {history[i] : i \in {i \in DOMAIN history :
     history[i] \in pending /\ \A j \in 1..i - 1 : history[j] \notin pending}}

\* Mutant of Forget: the entry removed is the oldest.
ForgetOldest(q) == pending' = pending \ Oldest

\* The finally clause.
Forget(q) == pending' = pending \ {q}

\* wait_for returns the response.
Wake(q) ==
  /\ phase[q] = "waiting" /\ future[q] # Unset
  /\ Return(q, Meaning(kind[q], future[q]))
  /\ Forget(q)

\* Mutant of Timeout: the timer is not set for a question nobody was sent.
TimeoutIfTold(q) ==
  /\ phase[q] = "waiting" /\ told[q] # {}
  /\ Return(q, "late") /\ Forget(q)

\* The timer fires: also when the future was resolved but the asker, woken, has
\* not run yet (wait_for of Python 3.12 cancels the task and raises then too).
Timeout(q) ==
  /\ phase[q] = "waiting"
  /\ Return(q, "late") /\ Forget(q)

-----------------------------------------------------------------------------
(* The user answers *)

Resolve(q, r) ==
  /\ future' = [future EXCEPT ![q] = r]
  /\ UNCHANGED <<open, sockets, kind, phase, cast, history, pending, result, told>>

\* Mutant of handle_response: whether the future is done is not asked.
handle_response_again(q, r) ==
  /\ told[q] # {} /\ q \in pending
  /\ Resolve(q, r)

\* A dialog that was shown is answered: at any time, and any number of times.
\* What is not pending or is resolved already is dropped.
handle_response(q, r) ==
  /\ told[q] # {}
  /\ q \in pending /\ future[q] = Unset
  /\ Resolve(q, r)

\* A transcript answers the oldest pending question; if there is none, or it is
\* resolved already, it becomes a task.
register_voice_answer(a) ==
  \E q \in Oldest : future[q] = Unset /\ Resolve(q, [via |-> "voice", ans |-> a])

-----------------------------------------------------------------------------

Asker(q) == Sent(q) \/ SendFails(q) \/ Wake(q) \/ Timeout(q)

Next ==
  \/ \E ws \in Socket : register_websocket(ws) \/ Disconnect(ws) \/ Collect(ws)
  \/ \E q \in Question :
       \/ _ask_and_wait(q) \/ Asker(q)
       \/ \E r \in Response : r.via = "dialog" /\ handle_response(q, r)
  \/ \E a \in Answer : register_voice_answer(a)

Spec == Init /\ [][Next]_vars

\* A send ends, a timer fires, a coroutine that can run is run.
FairSpec == Spec /\ \A q \in Question : WF_vars(Asker(q))

(***************************************************************************)
(* Properties                                                              *)
(***************************************************************************)

\* The pending questions are those whose agents are not back, so that an answer
\* can reach them, and those whose broadcast raised, but no other.
PendingIsUnfinished ==
  pending = {q \in Question : phase[q] \in {"sending", "waiting", "raised"}}

\* When the broadcast is over, every registered connection that still works has
\* the question, whoever broke or was dropped meanwhile, by this broadcast or
\* another; unless one was registered while it was under way.
EveryoneIsAsked ==
  [][ \A q \in Question :
        phase[q] # "waiting" /\ phase'[q] = "waiting" /\ ~cast[q].joined =>
          open \cap sockets \subseteq told'[q] ]_vars

\* _broadcast_question says it asks all connected WebSockets.  One that was
\* registered in the place of a dead one may be in a slot already passed.
AllConnectedAreAsked ==
  [][ \A q \in Question : phase[q] # "waiting" /\ phase'[q] = "waiting" =>
        open \cap sockets \subseteq told'[q] ]_vars

\* A transcript that answers a question answers the one that waits the longest:
\* nobody who asked earlier is still without an answer.
VoiceServesTheOldest ==
  [][ \A q \in Question : future[q] = Unset /\ future'[q].via = "voice" =>
        \A i, j \in DOMAIN history :
          history[j] = q /\ history[i] \in pending /\ future[history[i]] = Unset => j <= i ]_vars

\* Every agent that asks comes back, answered or not.
EveryQuestionEnds ==
  \A q \in Question : phase[q] \in {"sending", "waiting"} ~> phase[q] \in {"done", "raised"}

\* What Inquiry sees of a question.
Waits(q) == phase[q] \in {"sending", "waiting"}

Stage == [q \in Question |-> IF phase[q] = "new" THEN "unasked"
                             ELSE IF Waits(q) THEN "asked" ELSE "closed"]

Said == [q \in Question |-> IF Waits(q) THEN future[q].ans ELSE "none"]

Reply == [q \in Question |-> IF result[q] = "late" THEN "none" ELSE result[q]]

Asked == INSTANCE Inquiry WITH
  Answer <- Answer \cup {"cancelled"}, stage <- Stage, said <- Said, told <- Reply

\* The first answer counts, and the agent is told it or nothing, once.
ImplementsInquiry == Asked!Spec

\* get_pending_questions calls what it lists currently pending: somebody waits.
PendingHasAsker ==
  \A q \in Question : q \in pending => phase[q] \in {"sending", "waiting"}
=============================================================================
