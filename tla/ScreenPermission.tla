-------------------------- MODULE ScreenPermission --------------------------
(***************************************************************************)
(* Who asks the user for the screen, and who waits for the answer: the     *)
(* gate every turn of a conversation passes before its task               *)
(* (websocket_router.py, _ensure_screen_capture_ready), the requests the   *)
(* screenshot service makes of its own accord after empty pictures         *)
(* (screenshot_service.py), the phone's dialogs and its MediaProjection    *)
(* (MainActivity.kt, ScreenCaptureManager.kt), and the results it posts,   *)
(* each by a coroutine of its own, so that they may overtake each other or *)
(* never arrive.                                                           *)
(*                                                                         *)
(* Tasks of the live agent and of the REST interface pass no gate and are  *)
(* not counted; of them there may always be one (Direct).  The response    *)
(* "error" of a screenshot, which the service would take for a revocation, *)
(* is never sent by this phone.                                            *)
(***************************************************************************)
EXTENDS Naturals, FiniteSets

CONSTANTS
  Turn,        \* turns of conversations, whose tasks pass the gate
  Direct,      \* tasks that have passed no gate
  Own,         \* requests of the service's own accord (bound)
  MaxLosses,   \* how often the phone loses its projection (bound)
  MaxPosts     \* results of a kind on the way to the backend (bound)

ASSUME AskersAreApart == Turn \cap Own = {} /\ Turn \cap Direct = {}
ASSUME TurnsAreFinite == IsFiniteSet(Turn)
ASSUME BoundsAreNat == MaxLosses \in Nat /\ MaxPosts \in Nat

VARIABLES
  granted,     \* _permission_granted
  active,      \* _active_task_count
  empties,     \* _consecutive_empty_count, counted up to the threshold
  pc,          \* where each turn or direct task is
  woken,       \* turns whose wait _permission_event has ended
  ready,       \* turns the gate has let in, until their tasks end
  shot,        \* the screenshot each running task is waiting for
  stage,       \* how far each request for the permission has come
  projection,  \* the phone has a MediaProjection and its resources
  posts,       \* results the phone has posted, granted and denied
  losses,
  \* history
  found,       \* the counted tasks each own request found running
  revoked,     \* turns let in whose grant was taken back since
  heard        \* turns at the gate whose wait a grant fell into, unless it was
               \* taken back since or the wait ran out in that instant

service == <<granted, active, empties>>
phoneSide == <<projection, posts, losses>>
history == <<found, revoked, heard>>
screenVars == <<service, pc, woken, ready, shot, stage, phoneSide, history>>

Task == Turn \cup Direct
Asker == Turn \cup Own
Threshold == 2     \* EMPTY_THRESHOLD_BEFORE_PERMISSION_REQUEST

Running == {s \in Task : pc[s] = "running"}
Waiting == {s \in Turn : pc[s] = "wait"}

\* The phone posts a result, which may be lost; results on the way beyond
\* MaxPosts are taken to be.
Post(verdict) ==
  \/ posts' = posts
  \/ /\ posts[verdict] < MaxPosts
     /\ posts' = [posts EXCEPT ![verdict] = @ + 1]

ScreenTypeOK ==
  /\ granted \in BOOLEAN /\ projection \in BOOLEAN
  /\ active \in 0..Cardinality(Turn)
  /\ empties \in 0..Threshold
  /\ pc \in [Task -> {"idle", "ask", "wait", "tell", "running", "over"}]
  /\ woken \subseteq Turn /\ ready \subseteq Turn
  /\ shot \in [Task -> {"none", "first", "second", "picture"}]
  /\ stage \in [Asker -> {"none", "created", "sending", "sent", "up", "over"}]
  /\ posts \in [BOOLEAN -> 0..MaxPosts]
  /\ losses \in 0..MaxLosses
  /\ found \in [Own -> SUBSET Turn]
  /\ revoked \subseteq Turn /\ heard \subseteq Turn

ScreenInit ==
  /\ granted = FALSE
  /\ active = 0 /\ empties = 0
  /\ pc = [s \in Task |-> IF s \in Turn THEN "idle" ELSE "running"]
  /\ woken = {} /\ ready = {}
  /\ shot = [s \in Task |-> "none"]
  /\ stage = [a \in Asker |-> "none"]
  /\ projection \in BOOLEAN
  /\ posts = [verdict \in BOOLEAN |-> 0] /\ losses = 0
  /\ found = [a \in Own |-> {}]
  /\ revoked = {} /\ heard = {}

-----------------------------------------------------------------------------
\* The gate.

Goto(s, label) == pc' = [pc EXCEPT ![s] = label]

\* Mutant of mark_task_done: the counter is simply reset.
mark_all_done == active' = 0

\* mark_task_active and mark_task_done
mark_task_active == active' = active + 1
mark_task_done == active' = IF active > 0 THEN active - 1 ELSE 0

\* The permission is known: the task begins without another await.
EnterGranted(s) ==
  /\ pc[s] = "idle" /\ granted
  /\ Goto(s, "running")
  /\ ready' = ready \cup {s}
  /\ mark_task_active
  /\ UNCHANGED <<granted, empties, woken, shot,
                 stage, phoneSide, history>>

\* It is not: the client is told, and the phone asked for it, unless no
\* device is connected.
EnterAsking(s) ==
  /\ pc[s] = "idle" /\ ~granted
  /\ Goto(s, "ask") \/ Goto(s, "over")
  /\ UNCHANGED <<service, woken, ready, shot, stage, phoneSide, history>>

\* request_screen_capture_permission returns, sent or not (the gate does not
\* look), and wait_for_permission begins; it clears the event, so that only a
\* grant to come ends the wait.
Asked(s) ==
  /\ pc[s] = "ask"
  /\ \E way \in {"sent", "over"} : stage' = [stage EXCEPT ![s] = way]
  /\ IF granted
     THEN /\ Goto(s, "tell")
          /\ ready' = ready \cup {s}
     ELSE Goto(s, "wait") /\ UNCHANGED ready
  /\ UNCHANGED <<service, woken, shot, phoneSide, history>>

\* Mutant of LetsIn: the end of the wait is taken for the grant.
LetsInTheWoken(s) == TRUE

\* The event has ended the wait; what counts is the flag as it is now.
LetsIn(s) == granted

Wake(s) ==
  /\ pc[s] = "wait" /\ s \in woken
  /\ Goto(s, "tell")
  /\ ready' = IF LetsIn(s) THEN ready \cup {s} ELSE ready
  /\ woken' = woken \ {s}
  /\ UNCHANGED <<service, shot, stage, phoneSide, history>>

\* Mutant of GateTimeout: a wait whose request never reached the phone has no end.
GateTimeoutIfSent(s) ==
  /\ pc[s] = "wait" /\ stage[s] # "over"
  /\ Goto(s, "tell")
  /\ woken' = woken \ {s}
  /\ heard' = heard \ (woken \cap {s})
  /\ UNCHANGED <<service, ready, shot, stage, phoneSide, found, revoked>>

\* 25 seconds are over: refused, whatever the flag says by now.  A timer that
\* runs out just when the event is set wins, as in wait_for of Python 3.12.
GateTimeout(s) ==
  /\ pc[s] = "wait"
  /\ Goto(s, "tell")
  /\ woken' = woken \ {s}
  /\ heard' = heard \ (woken \cap {s})
  /\ UNCHANGED <<service, ready, shot, stage, phoneSide, found, revoked>>

\* The client has been told the verdict, and the task begins or is skipped.
Told(s) ==
  /\ pc[s] = "tell"
  /\ IF s \in ready
     THEN Goto(s, "running") /\ mark_task_active
     ELSE Goto(s, "over") /\ UNCHANGED active
  /\ heard' = heard \ {s}
  /\ UNCHANGED <<granted, empties, woken, ready,
                 shot, stage, phoneSide, found, revoked>>

\* The task ends, in whatever way (finally).
EndTask(s) ==
  /\ pc[s] = "running" /\ shot[s] = "none"
  /\ Goto(s, "over")
  /\ mark_task_done
  /\ ready' = ready \ {s} /\ revoked' = revoked \ {s}
  /\ UNCHANGED <<granted, empties, woken, shot, stage,
                 phoneSide, found, heard>>

-----------------------------------------------------------------------------
\* Screenshots and what the service learns from them.

\* One screenshot at a time is looked at (bound).
request_screenshot(s) ==
  /\ pc[s] = "running"
  /\ \A o \in Task : shot[o] = "none"
  /\ shot' = [shot EXCEPT ![s] = "first"]
  /\ UNCHANGED <<service, pc, woken, ready, stage, phoneSide, history>>

\* The phone has a projection and a frame: the picture is on its way.
captureScreen(s) ==
  /\ shot[s] \in {"first", "second"} /\ projection
  /\ shot' = [shot EXCEPT ![s] = "picture"]
  /\ UNCHANGED <<service, pc, woken, ready, stage, phoneSide, history>>

\* A picture arrives: the permission works.  The event is not set.
ParsePicture(s) ==
  /\ shot[s] = "picture"
  /\ shot' = [shot EXCEPT ![s] = "none"]
  /\ granted' = TRUE /\ empties' = 0
  /\ UNCHANGED <<active, pc, woken, ready, stage, phoneSide, history>>

\* The first attempt comes back empty, counts, and is repeated; or it times
\* out, and nothing is learnt.
FirstFails(s) ==
  /\ shot[s] = "first"
  /\ \/ /\ shot' = [shot EXCEPT ![s] = "second"]
        /\ empties' = IF empties < Threshold THEN empties + 1 ELSE empties
     \/ /\ shot' = [shot EXCEPT ![s] = "none"]
        /\ UNCHANGED empties
  /\ UNCHANGED <<granted, active, pc, woken, ready,
                 stage, phoneSide, history>>

\* The second one is empty too, or times out: with the threshold reached and
\* no grant known, a request is left to a coroutine of its own.
SecondFails(s) ==
  /\ shot[s] = "second"
  /\ shot' = [shot EXCEPT ![s] = "none"]
  /\ IF empties >= Threshold /\ ~granted
     THEN \E a \in Own : /\ stage[a] = "none"
                          /\ stage' = [stage EXCEPT ![a] = "created"]
     ELSE UNCHANGED stage
  /\ UNCHANGED <<service, pc, woken, ready, phoneSide, history>>

\* Mutant of MayRequest: tasks are not looked at.
MayRequestAnyTime == ~granted

\* The guards of _auto_request_permission that are not about time: no counted
\* task and no grant.
MayRequest == active = 0 /\ ~granted

\* An earlier request of its own accord is remembered for half a minute, the
\* dialog expected of it for a whole one unless a result or a picture arrives.
Requested == \E b \in Own : stage[b] \notin {"none", "created"}

_auto_request_permission(a) ==
  /\ stage[a] = "created"
  /\ MayRequest
  /\ stage' = [stage EXCEPT ![a] = "sending"]
  /\ found' = [found EXCEPT ![a] = Running \cap Turn]
  /\ UNCHANGED <<granted, active, empties, pc, woken, ready, shot, phoneSide,
                 revoked, heard>>

\* One of its guards stops it.
AutoStops(a) ==
  /\ stage[a] = "created"
  /\ ~MayRequest \/ Requested
  /\ stage' = [stage EXCEPT ![a] = "over"]
  /\ UNCHANGED <<service, pc, woken, ready, shot, phoneSide, history>>

\* The request is sent, or the send fails.
AutoSent(a) ==
  /\ stage[a] = "sending"
  /\ \E way \in {"sent", "over"} : stage' = [stage EXCEPT ![a] = way]
  /\ UNCHANGED <<service, pc, woken, ready, shot, phoneSide, history>>

-----------------------------------------------------------------------------
\* The phone.

\* A request reaches it: already granted, the backend is told so; otherwise
\* MainActivity shows the dialog, unless it cannot.
handleRequestScreenCapturePermission(a) ==
  /\ stage[a] = "sent"
  /\ IF projection
     THEN /\ stage' = [stage EXCEPT ![a] = "over"]
          /\ Post(TRUE)
     ELSE /\ \E way \in {"up", "over"} : stage' = [stage EXCEPT ![a] = way]
          /\ UNCHANGED posts
  /\ UNCHANGED <<service, pc, woken, ready, shot, projection, losses, history>>

\* The user decides: the projection is set up and works, or the request is
\* denied, or setting up fails, which is told as a denial.
Decide(a) ==
  /\ stage[a] = "up"
  /\ stage' = [stage EXCEPT ![a] = "over"]
  /\ \E works \in BOOLEAN :
       /\ projection' = (projection \/ works)
       /\ Post(works)
  /\ UNCHANGED <<service, pc, woken, ready, shot, losses, history>>

\* The projection ends: stopped by the user or the system, or its token is
\* used up (cleanup, invalidatePermission); the backend is not told.
cleanup ==
  /\ projection /\ losses < MaxLosses
  /\ projection' = FALSE /\ losses' = losses + 1
  /\ UNCHANGED <<service, pc, woken, ready, shot, stage, posts, history>>

\* The user switches screen capture off in the settings; the backend is told.
disableScreenCapture ==
  /\ losses < MaxLosses
  /\ projection' = FALSE /\ losses' = losses + 1
  /\ Post(FALSE)
  /\ UNCHANGED <<service, pc, woken, ready, shot, stage, history>>

\* A connection begins, and its device_info says that the screen is available.
\* That it is not is said too, and not looked at.
sendDeviceInfo ==
  /\ projection
  /\ Post(TRUE)
  /\ UNCHANGED <<service, pc, woken, ready, shot, stage, projection, losses, history>>

-----------------------------------------------------------------------------
\* A result reaches the service.

\* Mutant of Announce: one wait is ended.
AnnounceToOne ==
  \/ Waiting = {} /\ woken' = woken
  \/ \E s \in Waiting : woken' = woken \cup {s}

\* Setting the event ends every wait that has begun.
Announce == woken' = woken \cup Waiting

ResultGranted ==
  /\ posts[TRUE] > 0
  /\ posts' = [posts EXCEPT ![TRUE] = @ - 1]
  /\ granted' = TRUE
  /\ Announce
  /\ heard' = heard \cup Waiting
  /\ UNCHANGED <<active, empties, pc, ready, shot, stage, projection,
                 losses, found, revoked>>

ResultDenied ==
  /\ posts[FALSE] > 0
  /\ posts' = [posts EXCEPT ![FALSE] = @ - 1]
  /\ granted' = FALSE
  /\ heard' = {}
  /\ revoked' = ready
  /\ UNCHANGED <<active, empties, pc, woken, ready, shot, stage,
                 projection, losses, found>>

-----------------------------------------------------------------------------
Gate(s) == Asked(s) \/ Wake(s) \/ GateTimeout(s) \/ Told(s)

ScreenNext ==
  \/ \E s \in Turn : EnterGranted(s) \/ EnterAsking(s) \/ Gate(s) \/ EndTask(s)
  \/ \E s \in Task : \/ request_screenshot(s) \/ captureScreen(s) \/ ParsePicture(s)
                     \/ FirstFails(s) \/ SecondFails(s)
  \/ \E a \in Own : _auto_request_permission(a) \/ AutoStops(a) \/ AutoSent(a)
  \/ \E a \in Asker : handleRequestScreenCapturePermission(a) \/ Decide(a)
  \/ cleanup \/ disableScreenCapture \/ sendDeviceInfo
  \/ ResultGranted \/ ResultDenied

ScreenSpec == ScreenInit /\ [][ScreenNext]_screenVars

\* The gate's awaits end: two sends, and a wait with a timer.
ScreenFairSpec == ScreenSpec /\ \A s \in Turn : WF_screenVars(Gate(s))

-----------------------------------------------------------------------------
\* A task of a conversation is let in by a grant the service knew of at that
\* moment, however grants and denials overtake each other: it may be taken back
\* later, never before (wait_for_permission, _ensure_screen_capture_ready).
LetInByAGrant == \A s \in ready : granted \/ s \in revoked

\* A grant announced while a turn waits ends its wait and lets it in, whatever
\* other gates begin to wait and clear the event meanwhile; only a denial before
\* it wakes, or its own timer running out in that instant, undoes that.
NoGrantIsOverheard == \A s \in heard : pc[s] = "tell" => s \in ready

\* Both sides of the gate's verdict.
GateIsRight == LetInByAGrant /\ NoGrantIsOverheard

\* A dialog the service asks for of its own accord comes up during the task of
\* a turn only if it was decided before that task began: none is asked for
\* while a counted task runs (screenshot_service.py:54-57).
NeverInterrupts ==
  \A a \in Own : stage[a] \in {"sent", "up"} =>
    \A s \in found[a] : pc[s] # "running"

\* A turn that asks for the screen is let in or refused in the end, though the
\* user never answers and results are lost (wait_for_permission's timeout).
EveryGateEnds ==
  \A s \in Turn : pc[s] \in {"ask", "wait", "tell"} ~> pc[s] \in {"running", "over"}
=============================================================================
