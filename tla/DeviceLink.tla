----------------------------- MODULE DeviceLink -----------------------------
(***************************************************************************)
(* services/real_accessibility.py: the one WebSocket over which gestures   *)
(* and app launches go to the phone, the acknowledgements that come back,  *)
(* and the conversation handlers of api_handlers/websocket_router.py that  *)
(* install the socket when they start and clear it when they end.  The     *)
(* phone reconnects by opening a new connection, whether or not the        *)
(* handler of the old one has noticed the end of its own.  The phone tries *)
(* a touch again that the system rejected, cancelled or did not finish in  *)
(* time, and calls some actions done without having looked.                *)
(***************************************************************************)
EXTENDS Naturals

CONSTANTS
  Gesture, Launch,  \* bound: the commands sent, each with an id of its own
  Injected,         \* the touches: tap, swipe, long press
  Blind,            \* dismiss_keyboard, press_enter, press_search, back, home
  retryCount,       \* GestureOptions.retryCount
  Socket,           \* bound: the connections made
  NoSocket

ASSUME NoSocketIsNone == NoSocket \notin Socket

ASSUME KindsDiffer ==
  Gesture \cap Launch = {} /\ Injected \cup Blind \subseteq Gesture /\ Injected \cap Blind = {}

ASSUME RetriesAreFinite == retryCount \in Nat

LinkCommand == Gesture \cup Launch

\* maxAttempts of RetryExecutor; what is no touch is tried once.
Attempts == [c \in Gesture |-> IF c \in Injected THEN retryCount + 1 ELSE 1]

VARIABLES
  handler,    \* handler[ws]: "new", "running" or "over"
  open,       \* external: the connections that work
  _websocket,
  connected,  \* device_info["connected"]
  call,       \* call[c]: where the coroutine that sends c is, or its result
  via,        \* via[c]: the socket c is being sent over
  _pending_acks,
  ack,        \* ack[c]: the result of the future of c, if there is one, or "none"
  wire,       \* external: the gestures on their way, <<socket, command>>
  phone,      \* phone[c]: whether c has arrived, and is answered
  tries,      \* tries[c]: how often the phone has attempted c
  loose,      \* loose[c]: attempts given up on that may still take effect
  executed,   \* external: executed[c]: how often c has taken effect
  acks        \* external: the acknowledgements on their way

linkVars == <<handler, open, _websocket, connected, call, via, _pending_acks, ack, wire,
              phone, tries, loose, executed, acks>>

server == <<handler, open, _websocket, connected>>

onPhone == <<phone, tries, loose, executed>>

reached == <<wire, onPhone, acks>>

Ack == [cmd : Gesture, success : {"yes", "no"}]

LinkTypeOK ==
  /\ handler \in [Socket -> {"new", "running", "over"}]
  /\ open \subseteq Socket
  /\ _websocket \in Socket \cup {NoSocket}
  /\ connected \in BOOLEAN
  /\ call \in [LinkCommand -> {"new", "refused", "sending", "waiting", "ok", "failed"}]
  /\ via \in [LinkCommand -> Socket \cup {NoSocket}]
  /\ _pending_acks \subseteq Gesture
  /\ ack \in [Gesture -> {"none", "yes", "no"}]
  /\ wire \subseteq Socket \X Gesture
  /\ phone \in [Gesture -> {"away", "working", "answered"}]
  /\ tries \in [Gesture -> Nat] /\ loose \in [Gesture -> Nat] /\ executed \in [Gesture -> Nat]
  /\ acks \subseteq Ack

LinkInit ==
  /\ handler = [ws \in Socket |-> "new"] /\ open = {}
  /\ _websocket = NoSocket /\ connected = FALSE
  /\ call = [c \in LinkCommand |-> "new"] /\ via = [c \in LinkCommand |-> NoSocket]
  /\ _pending_acks = {} /\ ack = [c \in Gesture |-> "none"]
  /\ wire = {} /\ acks = {}
  /\ phone = [c \in Gesture |-> "away"] /\ tries = [c \in Gesture |-> 0]
  /\ loose = [c \in Gesture |-> 0] /\ executed = [c \in Gesture |-> 0]

-----------------------------------------------------------------------------
(* Connections *)

\* websocket_conversation begins: set_websocket and set_device_connection.
Connect(ws) ==
  /\ handler[ws] = "new"
  /\ handler' = [handler EXCEPT ![ws] = "running"] /\ open' = open \cup {ws}
  /\ _websocket' = ws /\ connected' = TRUE
  /\ UNCHANGED <<call, via, _pending_acks, ack, reached>>

\* The connection breaks, and what is on its way is lost.
Break(ws) ==
  /\ ws \in open
  /\ open' = open \ {ws}
  /\ wire' = {m \in wire : m[1] # ws}
  /\ UNCHANGED <<handler, _websocket, connected, call, via, _pending_acks, ack, onPhone, acks>>

\* Mutant of CleanUp: the service is left alone.
CleanUpNothing(ws) ==
  /\ handler[ws] = "running" /\ ws \notin open
  /\ handler' = [handler EXCEPT ![ws] = "over"]
  /\ UNCHANGED <<open, _websocket, connected, call, via, _pending_acks, ack, reached>>

\* The finally clause of the handler: clear_websocket and disconnect_device.
CleanUp(ws) ==
  /\ handler[ws] = "running" /\ ws \notin open
  /\ handler' = [handler EXCEPT ![ws] = "over"]
  /\ _websocket' = NoSocket /\ connected' = FALSE
  /\ UNCHANGED <<open, call, via, _pending_acks, ack, reached>>

\* POST /device/register and /device/connect.
set_device_connection ==
  /\ ~connected /\ connected' = TRUE
  /\ UNCHANGED <<handler, open, _websocket, call, via, _pending_acks, ack, reached>>

\* DELETE /device/disconnect.
disconnect_device ==
  /\ connected /\ connected' = FALSE
  /\ _websocket' = NoSocket
  /\ UNCHANGED <<handler, open, call, via, _pending_acks, ack, reached>>

-----------------------------------------------------------------------------
(* _send_gesture_to_device, launch_app_via_intent, launch_deep_link *)

Becomes(c, p) == call' = [call EXCEPT ![c] = p]

Refuse(c) ==
  /\ call[c] = "new" /\ (~connected \/ _websocket = NoSocket)
  /\ Becomes(c, "refused")
  /\ UNCHANGED <<server, via, _pending_acks, ack, reached>>

\* Up to the suspension in send_json; a gesture waits for its acknowledgement.
Send(c) ==
  /\ call[c] = "new" /\ connected /\ _websocket # NoSocket
  /\ Becomes(c, "sending")
  /\ via' = [via EXCEPT ![c] = _websocket]
  /\ _pending_acks' = _pending_acks \cup ({c} \cap Gesture)
  /\ UNCHANGED <<server, ack, reached>>

\* A launch is reported as a success as soon as it was sent; what becomes of it
\* on the phone is not followed.
Sent(c) ==
  /\ call[c] = "sending"
  /\ Becomes(c, IF c \in Gesture THEN "waiting" ELSE "ok")
  /\ via' = [via EXCEPT ![c] = NoSocket]
  /\ wire' = wire \cup ({<<via[c], c>>} \cap (open \X Gesture))
  /\ UNCHANGED <<server, _pending_acks, ack, onPhone, acks>>

\* Mutant of Forget: the finally clause is missing.
Keep(c) == UNCHANGED <<_pending_acks, ack>>

Forget(c) ==
  /\ _pending_acks' = _pending_acks \ {c}
  /\ ack' = [ack EXCEPT ![c] = "none"]

\* send_json raises: for a gesture the service drops the socket it has now.
SendFails(c) ==
  /\ call[c] = "sending" /\ via[c] \notin open
  /\ Becomes(c, "failed") /\ Forget(c)
  /\ via' = [via EXCEPT ![c] = NoSocket]
  /\ _websocket' = IF c \in Gesture THEN NoSocket ELSE _websocket
  /\ UNCHANGED <<handler, open, connected, reached>>

Acknowledged(c) ==
  /\ call[c] = "waiting" /\ ack[c] # "none"
  /\ Becomes(c, IF ack[c] = "yes" THEN "ok" ELSE "failed") /\ Forget(c)
  /\ UNCHANGED <<server, via, reached>>

\* Mutant of Timeout: the timer starts with the acknowledgement.
NoTimeout(c) ==
  /\ call[c] = "waiting" /\ ack[c] # "none"
  /\ Becomes(c, "failed") /\ Forget(c)
  /\ UNCHANGED <<server, via, reached>>

\* wait_for may raise although an acknowledgement was accepted just before.
Timeout(c) ==
  /\ call[c] = "waiting"
  /\ Becomes(c, "failed") /\ Forget(c)
  /\ UNCHANGED <<server, via, reached>>

-----------------------------------------------------------------------------
(* The phone *)

\* handleExecuteGesture: a gesture arrives and is worked on.
Arrive(ws, c) ==
  /\ <<ws, c>> \in wire
  /\ wire' = wire \ {<<ws, c>>}
  /\ phone' = [phone EXCEPT ![c] = "working"]
  /\ UNCHANGED <<server, call, via, _pending_acks, ack, tries, loose, executed, acks>>

\* sendGestureAck.
Answered(c, success) ==
  /\ phone' = [phone EXCEPT ![c] = "answered"]
  /\ acks' = acks \cup {[cmd |-> c, success |-> success]}

Attempt(c) ==
  /\ phone[c] = "working" /\ tries[c] < Attempts[c]
  /\ tries' = [tries EXCEPT ![c] = @ + 1]
  /\ UNCHANGED <<server, call, via, _pending_acks, ack, wire>>

TakesEffect(c) == executed' = [executed EXCEPT ![c] = @ + 1]

\* No service, no window, impossible coordinates, an exception: there is no
\* further attempt.
Declines(c) ==
  /\ phone[c] = "working"
  /\ Answered(c, "no")
  /\ UNCHANGED <<server, call, via, _pending_acks, ack, wire, tries, loose, executed>>

\* COMPLETED, or true.
Completes(c) ==
  /\ Attempt(c) /\ TakesEffect(c)
  /\ Answered(c, "yes")
  /\ UNCHANGED loose

\* A global action or a key event came to nothing, which nobody looks at.
FailsBlindly(c) ==
  /\ c \in Blind /\ Attempt(c)
  /\ Answered(c, "yes")
  /\ UNCHANGED <<loose, executed>>

\* REJECTED, CANCELLED, TIMEOUT, or false: the attempt had no effect, had one, or, a
\* touch whose time was up, may yet have one.  A touch is tried again, and
\* after the last attempt the failure is reported.
Fails(c) ==
  /\ c \notin Blind /\ Attempt(c)
  /\ \/ UNCHANGED <<loose, executed>>
     \/ TakesEffect(c) /\ UNCHANGED loose
     \/ c \in Injected /\ loose' = [loose EXCEPT ![c] = @ + 1] /\ UNCHANGED executed
  /\ IF tries'[c] < Attempts[c] THEN UNCHANGED <<phone, acks>> ELSE Answered(c, "no")

\* The system carries out a touch nobody waits for any more.
ComesLate(c) ==
  /\ loose[c] > 0 /\ loose' = [loose EXCEPT ![c] = @ - 1]
  /\ TakesEffect(c)
  /\ UNCHANGED <<server, call, via, _pending_acks, ack, wire, phone, tries, acks>>

LoseAck(a) ==
  /\ acks' = acks \ {a}
  /\ UNCHANGED <<server, call, via, _pending_acks, ack, wire, onPhone>>

\* Mutant of handle_gesture_ack: every command that waits is acknowledged.
handle_gesture_ack_all(a) ==
  /\ acks' = acks \ {a}
  /\ ack' = [c \in Gesture |-> IF c \in _pending_acks /\ ack[c] = "none" THEN a.success ELSE ack[c]]
  /\ UNCHANGED <<server, call, via, _pending_acks, wire, onPhone>>

\* An acknowledgement nobody waits for is dropped.
handle_gesture_ack(a) ==
  /\ acks' = acks \ {a}
  /\ ack' = IF a.cmd \in _pending_acks /\ ack[a.cmd] = "none"
            THEN [ack EXCEPT ![a.cmd] = a.success] ELSE ack
  /\ UNCHANGED <<server, call, via, _pending_acks, wire, onPhone>>

-----------------------------------------------------------------------------

Phone(c) == Declines(c) \/ Completes(c) \/ FailsBlindly(c) \/ Fails(c) \/ ComesLate(c)

Caller(c) == Sent(c) \/ SendFails(c) \/ Acknowledged(c) \/ Timeout(c)

LinkNext ==
  \/ \E ws \in Socket : Connect(ws) \/ Break(ws) \/ CleanUp(ws)
  \/ set_device_connection \/ disconnect_device
  \/ \E c \in LinkCommand : Refuse(c) \/ Send(c) \/ Caller(c)
  \/ \E c \in Gesture : Phone(c) \/ \E ws \in Socket : Arrive(ws, c)
  \/ \E a \in acks : LoseAck(a) \/ handle_gesture_ack(a)

LinkSpec == LinkInit /\ [][LinkNext]_linkVars

\* A send ends and a timer fires; nothing is assumed of the phone.
LinkFairSpec == LinkSpec /\ \A c \in LinkCommand : WF_linkVars(Caller(c))

(***************************************************************************)
(* Properties                                                              *)
(***************************************************************************)

\* A touch or a text reported as done was done: late, lost and foreign acknowledgements,
\* repeated attempts and broken connections never make a success of it.
OkMeansExecuted == \A c \in Gesture \ Blind : call[c] = "ok" => executed[c] > 0

\* handle_gesture_ack takes success for "whether the gesture executed successfully
\* on Android", of any gesture.
EveryOkIsTrue == \A c \in Gesture : call[c] = "ok" => executed[c] > 0

\* The acknowledgements expected are those of the gestures under way: none is
\* left behind, and none is missed because its entry is gone.
AcksAreAwaited == _pending_acks = {c \in Gesture : call[c] \in {"sending", "waiting"}}

\* A socket that is installed belongs to a handler that still runs, and to a
\* device that counts as connected.
LinkIsServed == _websocket # NoSocket => connected /\ handler[_websocket] = "running"

\* Every command that was sent comes to an end.
EveryCommandEnds ==
  \A c \in LinkCommand : call[c] = "sending" ~> call[c] \in {"ok", "failed"}

Answer == [c \in Gesture |-> IF call[c] = "new" THEN "idle"
                              ELSE IF call[c] \in {"sending", "waiting"} THEN "open" ELSE call[c]]

Requests == INSTANCE RemoteCall WITH
  Call <- Gesture, answer <- Answer,
  arrived <- {c \in Gesture : phone[c] # "away"},
  performed <- executed

\* No more often than it is attempted, only if accepted, and a success is not wrong
\* but of what the phone calls done without having looked.
ImplementsRemoteCall == Requests!Spec

\* "Clear WebSocket ... when connection closes", says the finally clause, and "Clear
\* broken connection" the handler of a failed send: unless a client asks for it,
\* only a socket that is closed is cleared.
LiveLinkIsKept ==
  [][ _websocket # NoSocket /\ _websocket' = NoSocket =>
        _websocket \notin open \/ disconnect_device ]_linkVars
=============================================================================
