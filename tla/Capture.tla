------------------------------ MODULE Capture ------------------------------
(***************************************************************************)
(* services/perception_controller.py, ui_tree_service.py and               *)
(* screenshot_service.py: one perception asks the phone for its UI tree,   *)
(* for a screenshot, or for both side by side, with retries, timeouts and  *)
(* escalation from one to the other.  The answers come over the WebSocket, *)
(* at any time after the request or never.                                 *)
(***************************************************************************)
EXTENDS Naturals, FiniteSets

CONSTANTS
  Perception,          \* bound: the perceptions requested
  MaxTogether,         \* bound: those under way at a time (one per task)
  ui_tree_max_retries,
  MaxScreen            \* bound: how often the screen changes

ASSUME RetriesAssumption == ui_tree_max_retries \in Nat

ASSUME ScreenAssumption == MaxScreen \in Nat

Caller == Perception \X {"tree", "image"}

\* A request id: whose call, and which.  The UI tree is requested under request_id,
\* "-r1", "-r2" ...; the screenshot under request_id (0), its "_retry" (1),
\* "-ss" (2) and its "_retry" (3).
Id == {id \in Caller \X Nat :
         id[2] <= IF id[1][2] = "tree" THEN ui_tree_max_retries ELSE 3}

VARIABLES
  screen,   \* external: how often the screen has changed
  pc,       \* pc[p]: where request_perception is
  modality,
  since,    \* history: the screen when p was requested
  call,     \* call[c]: the call under way or the last one, with its future
  bundle,   \* bundle[p]: the screens at which its tree and screenshot were taken
  pending,  \* the keys of both pending_requests
  asked,    \* external: the requests sent and not answered, <<id, screen then>>
  last_validation_failure

vars == <<screen, pc, modality, since, call, bundle, pending, asked, last_validation_failure>>

Content == {"full", "empty", "rejected", "requires_vision"}

Reply == [what : Content \cup {"unset", "none", "escalate"}, of : 0..MaxScreen]

Unset == [what |-> "unset", of |-> 0]

Call == [at : {"off", "sending", "waiting", "pausing", "back"}, n : Nat, reply : Reply]

Off == [at |-> "off", n |-> 0, reply |-> Unset]

\* Types; a tree is asked for at most ui_tree_max_retries times more, and a screenshot
\* under four ids.
TypeOK ==
  /\ screen \in 0..MaxScreen
  /\ pc \in [Perception -> {"new", "tree", "gather", "again", "image", "done", "raised"}]
  /\ modality \in [Perception -> {"none", "ui_tree", "vision", "hybrid"}]
  /\ since \in [Perception -> 0..MaxScreen]
  /\ call \in [Caller -> Call] /\ \A c \in Caller : <<c, call[c].n>> \in Id
  /\ bundle \in [Perception -> SUBSET (0..MaxScreen)]
  /\ pending \subseteq Id
  /\ asked \subseteq Id \X (0..MaxScreen)
  /\ last_validation_failure \in {"none", "rejected", "requires_vision"}

Init ==
  /\ screen = 0
  /\ pc = [p \in Perception |-> "new"]
  /\ modality = [p \in Perception |-> "none"]
  /\ since = [p \in Perception |-> 0]
  /\ call = [c \in Caller |-> Off]
  /\ bundle = [p \in Perception |-> {}]
  /\ pending = {} /\ asked = {}
  /\ last_validation_failure = "none"

\* The phone shows something else.
Change ==
  /\ screen < MaxScreen /\ screen' = screen + 1
  /\ UNCHANGED <<pc, modality, since, call, bundle, pending, asked, last_validation_failure>>

-----------------------------------------------------------------------------
(* request_ui_tree and request_screenshot *)

Request(n) == [at |-> "sending", n |-> n, reply |-> Unset]

Under(c, a) == call[c].at = a

IdOf(c) == <<c, call[c].n>>

\* Of the screenshot requests the odd ones are the second attempts of a call.
SecondAttempt(c) == c[2] = "image" /\ call[c].n \in {1, 3}

Set(c, new) == call' = [call EXCEPT ![c] = new]

\* The call is over, with a picture or without.  A perception that has the tree
\* only looks at the last failure in the same step.
Return(c, reply) ==
  Set(c, [at |-> "back", n |-> call[c].n, reply |-> reply])

Nothing(failure) ==
  [what |-> IF failure = "requires_vision" THEN "escalate" ELSE "none", of |-> 0]

Sent(c) ==
  /\ Under(c, "sending")
  /\ Set(c, [call[c] EXCEPT !.at = "waiting"])
  /\ asked' = asked \cup {<<IdOf(c), screen>>}
  /\ UNCHANGED <<screen, pc, modality, since, bundle, pending, last_validation_failure>>

\* No device or no socket, or the send raises.  For a second attempt what is
\* removed is the entry of the first.
SendFails(c) ==
  /\ Under(c, "sending")
  /\ Return(c, Nothing(last_validation_failure))
  /\ pending' = pending \ {IF SecondAttempt(c) THEN <<c, call[c].n - 1>> ELSE IdOf(c)}
  /\ UNCHANGED <<screen, pc, modality, since, bundle, asked, last_validation_failure>>

\* wait_for returns the tree, and _parse_ui_tree_response reads it.
TreeParsed(c) ==
  /\ c[2] = "tree" /\ Under(c, "waiting") /\ call[c].reply # Unset
  /\ LET what == call[c].reply.what IN
       /\ last_validation_failure' = IF what \in {"full", "empty"} THEN "none" ELSE what
       /\ Return(c, IF what \in {"full", "empty"} THEN call[c].reply ELSE Nothing(what))
  /\ pending' = pending \ {IdOf(c)}
  /\ UNCHANGED <<screen, pc, modality, since, bundle, asked>>

\* The tree cannot be read: the last failure stays what it was.
TreeUnreadable(c) ==
  /\ c[2] = "tree" /\ Under(c, "waiting") /\ call[c].reply.what \in {"full", "empty"}
  /\ Return(c, Nothing(last_validation_failure))
  /\ pending' = pending \ {IdOf(c)}
  /\ UNCHANGED <<screen, pc, modality, since, bundle, asked, last_validation_failure>>

\* wait_for returns a screenshot; an empty first one is asked for again later.
ImageParsed(c) ==
  /\ c[2] = "image" /\ Under(c, "waiting") /\ call[c].reply # Unset
  /\ IF call[c].reply.what = "full" THEN Return(c, call[c].reply)
     ELSE IF SecondAttempt(c) THEN Return(c, Nothing("none"))
     ELSE Set(c, [call[c] EXCEPT !.at = "pausing", !.reply = Unset])
  /\ UNCHANGED <<screen, pc, modality, since, bundle, pending, asked, last_validation_failure>>

\* Mutant of AskAgain: the second attempt is not registered.
AskAgainSilently(c) ==
  /\ Under(c, "pausing")
  /\ Set(c, Request(call[c].n + 1))
  /\ UNCHANGED <<screen, pc, modality, since, bundle, pending, asked, last_validation_failure>>

AskAgain(c) ==
  /\ Under(c, "pausing")
  /\ Set(c, Request(call[c].n + 1))
  /\ pending' = pending \cup {<<c, call[c].n + 1>>}
  /\ UNCHANGED <<screen, pc, modality, since, bundle, asked, last_validation_failure>>

\* The future is cancelled, so that timed_out_requests, where a screenshot's goes
\* now, can only be told that the answer is late.
Timeout(c) ==
  /\ Under(c, "waiting") /\ call[c].reply = Unset
  /\ Return(c, Nothing(last_validation_failure))
  /\ pending' = pending \ {IdOf(c)}
  /\ UNCHANGED <<screen, pc, modality, since, bundle, asked, last_validation_failure>>

-----------------------------------------------------------------------------
(* Answers.  The phone looks at its screen once it has the request; of is the
   screen at that time.  That a screenshot shows it is Android's business. *)

Answers(from, kinds) ==
  {[what |-> "full", of |-> s] : s \in from..screen}
    \cup {[what |-> k, of |-> 0] : k \in kinds}

\* The entry is found and its future is not done.
Takes(c, n) ==
  /\ <<c, n>> \in pending /\ call[c].n = n
  /\ call[c].at \in {"sending", "waiting"} /\ call[c].reply = Unset

\* Mutant of Resolve: the answer goes to whoever waits for one of its kind.
ResolveAny(c, n, from, kinds) ==
  \/ \E d \in Caller, r \in Answers(from, kinds) :
       d[2] = c[2] /\ Takes(d, call[d].n) /\ Set(d, [call[d] EXCEPT !.reply = r])
  \/ UNCHANGED call

\* An answer nobody waits for is dropped.
Resolve(c, n, from, kinds) ==
  \/ /\ Takes(c, n)
     /\ \E r \in Answers(from, kinds) : Set(c, [call[c] EXCEPT !.reply = r])
  \/ ~Takes(c, n) /\ UNCHANGED call

handle_ui_tree_response(c, n, from) ==
  /\ c[2] = "tree" /\ <<<<c, n>>, from>> \in asked
  /\ asked' = asked \ {<<<<c, n>>, from>>}
  /\ Resolve(c, n, from, {"empty", "rejected", "requires_vision"})
  /\ UNCHANGED <<screen, pc, modality, since, bundle, pending, last_validation_failure>>

\* Here the entry goes with the answer.
handle_screenshot_response(c, n, from) ==
  /\ c[2] = "image" /\ <<<<c, n>>, from>> \in asked
  /\ asked' = asked \ {<<<<c, n>>, from>>}
  /\ Resolve(c, n, from, {"empty"})
  /\ pending' = pending \ {<<c, n>>}
  /\ UNCHANGED <<screen, pc, modality, since, bundle, last_validation_failure>>

-----------------------------------------------------------------------------
(* request_perception *)

Tree(p) == call[<<p, "tree">>]

Image(p) == call[<<p, "image">>]

\* No call of p is under way.
Back(p) == Tree(p).at \in {"off", "back"} /\ Image(p).at \in {"off", "back"}

\* p goes on in another place and makes the calls of new.
Go(p, place, m, new) ==
  /\ pc' = [pc EXCEPT ![p] = place]
  /\ modality' = [modality EXCEPT ![p] = m]
  /\ call' = [c \in Caller |-> IF c \in DOMAIN new THEN new[c] ELSE call[c]]
  /\ pending' = pending \cup {<<c, new[c].n>> : c \in {c \in DOMAIN new : new[c].at = "sending"}}
  /\ UNCHANGED <<screen, asked, last_validation_failure>>

Calls(p, tree, image) ==
  [c \in {p} \X {"tree", "image"} |-> IF c[2] = "tree" THEN tree ELSE image]

Raise(p) ==
  /\ Go(p, "raised", "none", Calls(p, Off, Off))
  /\ UNCHANGED <<since, bundle>>

\* The pictures that go into a bundle of modality m.
Pictures(p, m) ==
  {r \in {Tree(p).reply} \cup {Image(p).reply} :
     r.what = "full" /\ (m = "vision" => r = Image(p).reply)}

\* The bundle is validated, and returned or refused.
Finish(p, m) ==
  \/ Raise(p)
  \/ /\ Pictures(p, m) # {}
     /\ bundle' = [bundle EXCEPT ![p] = {r.of : r \in Pictures(p, m)}]
     /\ Go(p, "done", "none", Calls(p, Off, Off))
     /\ UNCHANGED since

Unavailable(p) == pc[p] = "new" /\ Raise(p)

request_perception(p) ==
  /\ pc[p] = "new"
  /\ Cardinality({o \in Perception : pc[o] \notin {"new", "done", "raised"}}) < MaxTogether
  /\ since' = [since EXCEPT ![p] = screen]
  /\ UNCHANGED bundle
  /\ \/ Go(p, "tree", "ui_tree", Calls(p, Request(0), Off))
     \/ Go(p, "image", "vision", Calls(p, Off, Request(0)))
     \/ Go(p, "gather", "hybrid", Calls(p, Request(0), Request(0)))

Empty(p) == Tree(p).reply.what = "empty"

HasImage(p) == Image(p).reply.what = "full"

At(p, place) == pc[p] = place /\ Back(p)

\* An empty tree is asked for again, after the other call of a gather is back.
RetryTree(p) ==
  /\ At(p, "tree") \/ At(p, "gather")
  /\ Empty(p) /\ Tree(p).n < ui_tree_max_retries
  /\ Go(p, pc[p], modality[p], Calls(p, Request(Tree(p).n + 1), Image(p)))
  /\ UNCHANGED <<since, bundle>>

NoRetry(p) == Empty(p) => Tree(p).n >= ui_tree_max_retries

AskForImage(p, place, m, n) ==
  /\ Go(p, place, m, Calls(p, Tree(p), Request(n)))
  /\ UNCHANGED <<since, bundle>>

\* UI_TREE: without a tree it becomes VISION if the phone said so, or raises.
TreeDone(p) ==
  /\ At(p, "tree") /\ NoRetry(p)
  /\ \/ Tree(p).reply.what = "full" /\ Finish(p, "ui_tree")
     \/ Tree(p).reply.what \in {"empty", "escalate"} /\ AskForImage(p, "image", "vision", 0)
     \/ Tree(p).reply.what = "none" /\ Raise(p)

\* HYBRID: an empty tree makes it VISION; a missing screenshot is asked for again.
GatherDone(p) ==
  /\ At(p, "gather") /\ NoRetry(p)
  /\ LET m == IF Empty(p) THEN "vision" ELSE "hybrid" IN
       \/ HasImage(p) /\ Finish(p, m)
       \/ ~HasImage(p) /\ AskForImage(p, "again", m, 2)

\* VISION asks once more, under the id of the first request.
AgainDone(p) ==
  /\ At(p, "again")
  /\ \/ (HasImage(p) \/ modality[p] = "hybrid") /\ Finish(p, modality[p])
     \/ ~HasImage(p) /\ modality[p] = "vision" /\ AskForImage(p, "image", "vision", 0)

ImageDone(p) ==
  /\ At(p, "image")
  /\ \/ HasImage(p) /\ Finish(p, "vision")
     \/ ~HasImage(p) /\ Raise(p)

-----------------------------------------------------------------------------

Requester(c) ==
  \/ Sent(c) \/ SendFails(c) \/ TreeParsed(c) \/ TreeUnreadable(c)
  \/ ImageParsed(c) \/ AskAgain(c) \/ Timeout(c)

GoesOn(p) == RetryTree(p) \/ TreeDone(p) \/ GatherDone(p) \/ AgainDone(p) \/ ImageDone(p)

Next ==
  \/ Change
  \/ \E c \in Caller : Requester(c)
  \/ \E a \in asked : \/ handle_ui_tree_response(a[1][1], a[1][2], a[2])
                      \/ handle_screenshot_response(a[1][1], a[1][2], a[2])
  \/ \E p \in Perception : Unavailable(p) \/ request_perception(p) \/ GoesOn(p)

Spec == Init /\ [][Next]_vars

(***************************************************************************)
(* Properties                                                              *)
(***************************************************************************)

Awaits(c) == call[c].at \in {"sending", "waiting"} /\ call[c].reply = Unset

\* An answer in time reaches its call, and no entry outlives its call, except
\* that of a second attempt whose send failed.
PendingIsUnderWay ==
  /\ \A c \in Caller : Awaits(c) => IdOf(c) \in pending
  /\ \A id \in pending : \/ call[id[1]].at \in {"sending", "waiting"} /\ id = IdOf(id[1])
                         \/ id[1][2] = "image" /\ id[2] \in {1, 3}

Stage == [p \in Perception |->
  IF pc[p] = "new" THEN "idle" ELSE IF pc[p] = "raised" THEN "failed"
  ELSE IF pc[p] = "done" THEN "seen" ELSE "looking"]

Live == INSTANCE Observation WITH Look <- Perception, stage <- Stage, seen <- bundle

\* Tree and screenshot of a bundle were taken while it was being made, in spite of
\* late answers, retries and ids used twice.
ImplementsObservation == Live!Spec
=============================================================================
