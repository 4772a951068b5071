--------------------------- MODULE CaptureProofs ---------------------------
(***************************************************************************)
(* Proofs about Capture, for every set of perceptions, any number together *)
(* and any number of retries.  The inductive invariant is TypeOK, Places,  *)
(* Entries and Fresh.  Places: which calls a perception has where it is.   *)
(* Entries: what is in pending_requests.  Fresh: what was asked for a      *)
(* perception, and every answer it has, is not older than its request.     *)
(***************************************************************************)
EXTENDS Capture, TLAPS

Place == {"new", "tree", "gather", "again", "image", "done", "raised"}

Modality == {"none", "ui_tree", "vision", "hybrid"}

Places ==
  /\ \A c \in Caller : call[c].at = "pausing" => c[2] = "image" /\ call[c].n \in {0, 2}
  /\ \A c \in Caller : call[c].at \in {"sending", "waiting"}
                        => call[c].reply = Unset \/ call[c].reply.what \in Content
  /\ \A p \in Perception : pc[p] = "new" => Tree(p) = Off /\ Image(p) = Off

Entries ==
  /\ PendingIsUnderWay
  /\ \A c \in Caller :
       c[2] = "image" /\ call[c].at \in {"sending", "waiting"} /\ call[c].reply # Unset
         => IdOf(c) \notin pending

Fresh ==
  /\ \A p \in Perception : since[p] <= screen
  /\ \A c \in Caller : call[c].reply.what = "full" => call[c].reply.of \in since[c[1]]..screen
  /\ \A a \in asked : pc[a[1][1][1]] # "new" /\ a[2] \in since[a[1][1][1]]..screen

IInv == TypeOK /\ Places /\ Entries /\ Fresh

\* The calls that a perception makes when it goes on.
NextTree(p) == {Off, Tree(p)} \cup {Request(n) : n \in 0..ui_tree_max_retries}

NextImage(p) == {Off, Image(p)} \cup {Request(0), Request(2)}

\* p has no call under way and goes on with the calls of NextTree and NextImage.
Continues(p) ==
  /\ Back(p)
  /\ \E place \in Place \ {"new"}, m \in Modality, tree \in NextTree(p), image \in NextImage(p) :
       Go(p, place, m, Calls(p, tree, image))

LEMMA CallerParts ==
  ASSUME NEW c \in Caller
  PROVE  c[1] \in Perception /\ c[2] \in {"tree", "image"} /\ c = <<c[1], c[2]>>
BY DEF Caller

LEMMA UnsetIsReply == Unset \in Reply /\ Off \in Call /\ Off.at = "off" /\ Off.n = 0 /\ Off.reply = Unset
BY ScreenAssumption DEF Unset, Reply, Off, Call

LEMMA RequestIsCall ==
  ASSUME NEW n \in Nat
  PROVE  /\ Request(n) \in Call /\ Request(n).at = "sending" /\ Request(n).n = n
         /\ Request(n).reply = Unset
BY UnsetIsReply DEF Request, Call

LEMMA NothingIsReply ==
  ASSUME NEW f
  PROVE  Nothing(f) \in Reply /\ Nothing(f).what # "full"
BY ScreenAssumption DEF Nothing, Reply

\* What Go does to the calls of p, to those of others and to the entries.
GoDoes(p, place, m, tree, image) ==
  /\ call'[<<p, "tree">>] = tree /\ call'[<<p, "image">>] = image
  /\ \A c \in Caller : c[1] # p => call'[c] = call[c]
  /\ call' = [c \in Caller |-> call'[c]]
  /\ \A id : id \in pending' <=>
       \/ id \in pending
       \/ id = <<<<p, "tree">>, tree.n>> /\ tree.at = "sending"
       \/ id = <<<<p, "image">>, image.n>> /\ image.at = "sending"
  /\ pc' = [pc EXCEPT ![p] = place] /\ modality' = [modality EXCEPT ![p] = m]
  /\ UNCHANGED <<screen, asked, last_validation_failure>>

LEMMA GoEffect ==
  ASSUME TypeOK, NEW p \in Perception, NEW place, NEW m, NEW tree, NEW image,
         Go(p, place, m, Calls(p, tree, image))
  PROVE  GoDoes(p, place, m, tree, image)
<1> DEFINE new == Calls(p, tree, image)
<1>1. DOMAIN new = {<<p, "tree">>, <<p, "image">>}
  BY DEF Calls
<1>2. new[<<p, "tree">>] = tree /\ new[<<p, "image">>] = image
  BY DEF Calls
<1>3. <<p, "tree">> \in Caller /\ <<p, "image">> \in Caller
  BY DEF Caller
<1>4. call' = [c \in Caller |-> IF c \in DOMAIN new THEN new[c] ELSE call[c]]
  BY DEF Go
<1>5. pending' = pending \cup {<<c, new[c].n>> : c \in {c \in DOMAIN new : new[c].at = "sending"}}
  BY DEF Go
<1>6. call'[<<p, "tree">>] = tree /\ call'[<<p, "image">>] = image
      /\ call' = [c \in Caller |-> call'[c]]
  BY <1>1, <1>2, <1>3, <1>4
<1>7. ASSUME NEW c \in Caller, c[1] # p PROVE call'[c] = call[c]
  BY <1>1, <1>4, <1>7
<1>8. ASSUME NEW id
      PROVE  id \in pending' <=>
              \/ id \in pending
              \/ id = <<<<p, "tree">>, tree.n>> /\ tree.at = "sending"
              \/ id = <<<<p, "image">>, image.n>> /\ image.at = "sending"
  <2> HIDE DEF new
  <2> QED
    BY <1>1, <1>2, <1>5
<1> QED
  BY <1>6, <1>7, <1>8 DEF Go, GoDoes

\* Every step of request_perception is a continuation.
LEMMA PerceptionContinues ==
  ASSUME TypeOK, Places, NEW p \in Perception,
         Unavailable(p) \/ request_perception(p) \/ GoesOn(p)
  PROVE  Continues(p)
<1> USE DEF Continues, Place, Modality
<1>1. pc[p] \in Place /\ modality[p] \in Modality
  BY DEF TypeOK
<1>2. /\ Off \in NextTree(p) /\ Off \in NextImage(p) /\ Tree(p) \in NextTree(p)
      /\ Image(p) \in NextImage(p) /\ Request(0) \in NextImage(p) /\ Request(2) \in NextImage(p)
      /\ \A n \in 0..ui_tree_max_retries : Request(n) \in NextTree(p)
  BY DEF NextTree, NextImage
<1>3. pc[p] = "new" => Back(p)
  BY UnsetIsReply DEF Places, Back
<1>4. ASSUME Back(p), Raise(p) PROVE Continues(p)
  BY <1>2, <1>4 DEF Raise
<1>5. ASSUME Back(p), NEW m \in Modality, Finish(p, m) PROVE Continues(p)
  BY <1>2, <1>4, <1>5 DEF Finish
<1>6. ASSUME Back(p), NEW place \in Place \ {"new"}, NEW m \in Modality, NEW n \in {0, 2},
             AskForImage(p, place, m, n)
      PROVE  Continues(p)
  BY <1>2, <1>6 DEF AskForImage
<1>7. CASE Unavailable(p)
  BY <1>3, <1>4, <1>7 DEF Unavailable
<1>8. CASE request_perception(p)
  <2>1. Back(p) /\ Request(0) \in NextTree(p)
    BY <1>2, <1>3, <1>8, RetriesAssumption DEF request_perception
  <2> QED
    BY <2>1, <1>2, <1>8 DEF request_perception
<1>9. CASE RetryTree(p)
  <2>1. Tree(p).n \in Nat
    BY DEF Tree, TypeOK, Caller, Call
  <2>2. Request(Tree(p).n + 1) \in NextTree(p)
    BY <1>2, <1>9, <2>1, RetriesAssumption DEF RetryTree
  <2> QED
    BY <1>1, <1>2, <1>9, <2>2 DEF RetryTree, At
<1>10. CASE TreeDone(p)
  BY <1>4, <1>5, <1>6, <1>10 DEF TreeDone, At
<1>11. CASE GatherDone(p)
  BY <1>5, <1>6, <1>11 DEF GatherDone, At
<1>12. CASE AgainDone(p)
  BY <1>1, <1>5, <1>6, <1>12 DEF AgainDone, At
<1>13. CASE ImageDone(p)
  BY <1>4, <1>5, <1>13 DEF ImageDone, At
<1> QED
  BY <1>7, <1>8, <1>9, <1>10, <1>11, <1>12, <1>13 DEF GoesOn

\* An answer that is on its way is a reply, and one in time is from the screens
\* since the request.
LEMMA AnswersAreReplies ==
  ASSUME TypeOK, NEW from \in 0..MaxScreen, NEW kinds,
         kinds \subseteq {"empty", "rejected", "requires_vision"},
         NEW r \in Answers(from, kinds)
  PROVE  r \in Reply /\ r # Unset /\ (r.what = "full" => r.of \in from..screen)
<1>1. CASE \E s \in from..screen : r = [what |-> "full", of |-> s]
  <2>1. PICK s \in from..screen : r = [what |-> "full", of |-> s]
    BY <1>1
  <2>2. s \in 0..MaxScreen
    BY ScreenAssumption DEF TypeOK
  <2>3. r.what = "full" /\ r.of = s
    BY <2>1
  <2> QED
    BY <2>1, <2>2, <2>3 DEF Reply, Content, Unset
<1>2. CASE \E k \in kinds : r = [what |-> k, of |-> 0]
  <2>1. PICK k \in kinds : r = [what |-> k, of |-> 0]
    BY <1>2
  <2>2. k \in {"empty", "rejected", "requires_vision"} /\ 0 \in 0..MaxScreen
    BY ScreenAssumption
  <2>3. r.what = k
    BY <2>1
  <2> QED
    BY <2>1, <2>2, <2>3 DEF Reply, Content, Unset
<1> QED
  BY <1>1, <1>2 DEF Answers

\* The calls that a requester's step makes or ends stay calls.
LEMMA CallsStayCalls ==
  ASSUME TypeOK, NEW c \in Caller
  PROVE  /\ call[c] \in Call /\ call[c].n \in Nat /\ call[c].reply \in Reply
         /\ [call[c] EXCEPT !.at = "waiting"] \in Call
         /\ [call[c] EXCEPT !.at = "pausing", !.reply = Unset] \in Call
         /\ \A r \in Reply : /\ [call[c] EXCEPT !.reply = r] \in Call
                             /\ [at |-> "back", n |-> call[c].n, reply |-> r] \in Call
BY UnsetIsReply DEF TypeOK, Call

\* A step that changes the call of c only, to another one under a known id.
LEMMA SetKeepsType ==
  ASSUME TypeOK, NEW c \in Caller, NEW new \in Call, <<c, new.n>> \in Id, Set(c, new)
  PROVE  /\ call' \in [Caller -> Call]
         /\ \A d \in Caller : <<d, call'[d].n>> \in Id
BY DEF TypeOK, Set

LEMMA RequesterKeepsType ==
  ASSUME TypeOK, Places, NEW c \in Caller, Requester(c)
  PROVE  TypeOK'
<1>1. IdOf(c) \in Id
  BY DEF TypeOK, IdOf
<1>2. CASE Sent(c)
  <2> DEFINE new == [call[c] EXCEPT !.at = "waiting"]
  <2>1. new \in Call /\ new.n = call[c].n
    BY CallsStayCalls DEF Call
  <2>2. asked' \subseteq Id \X (0..MaxScreen)
    BY <1>1, <1>2 DEF Sent, TypeOK
  <2> QED
    BY <1>1, <1>2, <2>1, <2>2, SetKeepsType DEF Sent, TypeOK, IdOf
<1>3. ASSUME NEW r \in Reply, Return(c, r), pending' \subseteq pending,
             last_validation_failure' \in {"none", "rejected", "requires_vision"},
             UNCHANGED <<screen, pc, modality, since, bundle, asked>>
      PROVE  TypeOK'
  <2> DEFINE new == [at |-> "back", n |-> call[c].n, reply |-> r]
  <2>1. new \in Call /\ new.n = call[c].n
    BY CallsStayCalls
  <2> HIDE DEF new
  <2>2. Set(c, new)
    BY <1>3 DEF Return, new
  <2>3. /\ call' \in [Caller -> Call]
        /\ \A d \in Caller : <<d, call'[d].n>> \in Id
    BY <1>1, <2>1, <2>2, SetKeepsType DEF IdOf
  <2> QED
    BY <1>3, <2>3 DEF TypeOK
<1>4. CASE SendFails(c) \/ TreeUnreadable(c) \/ Timeout(c)
  BY <1>3, <1>4, NothingIsReply DEF SendFails, TreeUnreadable, Timeout, TypeOK
<1>5. CASE TreeParsed(c)
  <2>1. call[c].reply \in Reply /\ call[c].reply.what \in Content
    BY <1>5, CallsStayCalls DEF TreeParsed, Under, Places
  <2> QED
    BY <1>3, <1>5, <2>1, NothingIsReply DEF TreeParsed, TypeOK, Content
<1>6. CASE ImageParsed(c)
  <2>1. call[c].reply \in Reply
    BY CallsStayCalls
  <2>2. CASE Return(c, call[c].reply) \/ Return(c, Nothing("none"))
    BY <1>3, <1>6, <2>1, <2>2, NothingIsReply DEF ImageParsed, TypeOK
  <2>3. CASE Set(c, [call[c] EXCEPT !.at = "pausing", !.reply = Unset])
    <3> DEFINE new == [call[c] EXCEPT !.at = "pausing", !.reply = Unset]
    <3>1. new \in Call /\ new.n = call[c].n
      BY CallsStayCalls DEF Call
    <3>2. /\ call' \in [Caller -> Call]
          /\ \A d \in Caller : <<d, call'[d].n>> \in Id
      BY <1>1, <2>3, <3>1, SetKeepsType DEF IdOf
    <3> QED
      BY <1>6, <3>2 DEF ImageParsed, TypeOK
  <2> QED
    BY <1>6, <2>2, <2>3 DEF ImageParsed
<1>7. CASE AskAgain(c)
  <2>1. c[2] = "image" /\ call[c].n \in {0, 2}
    BY <1>7 DEF AskAgain, Under, Places
  <2>2. <<c, call[c].n + 1>> \in Id /\ call[c].n + 1 \in Nat
    BY <2>1 DEF Id
  <2>3. /\ Request(call[c].n + 1) \in Call /\ Request(call[c].n + 1).n = call[c].n + 1
    BY <2>2, RequestIsCall
  <2>4. /\ call' \in [Caller -> Call]
        /\ \A d \in Caller : <<d, call'[d].n>> \in Id
    BY <1>7, <2>2, <2>3, SetKeepsType DEF AskAgain
  <2>5. pending' \subseteq Id
    BY <1>7, <2>2 DEF AskAgain, TypeOK
  <2> QED
    BY <1>7, <2>4, <2>5 DEF AskAgain, TypeOK
<1> QED
  BY <1>2, <1>4, <1>5, <1>6, <1>7 DEF Requester

LEMMA AnswerKeepsType ==
  ASSUME TypeOK, NEW a \in asked,
         \/ handle_ui_tree_response(a[1][1], a[1][2], a[2])
         \/ handle_screenshot_response(a[1][1], a[1][2], a[2])
  PROVE  TypeOK'
<1> DEFINE c == a[1][1]
<1>1. c \in Caller /\ a[2] \in 0..MaxScreen
  BY DEF TypeOK, Id
<1>2. \E kinds \in SUBSET {"empty", "rejected", "requires_vision"} :
        Resolve(c, a[1][2], a[2], kinds)
  BY DEF handle_ui_tree_response, handle_screenshot_response
<1>3. call' \in [Caller -> Call] /\ \A d \in Caller : <<d, call'[d].n>> \in Id
  <2>1. CASE UNCHANGED call
    BY <2>1 DEF TypeOK
  <2>2. ASSUME NEW r \in Reply, Set(c, [call[c] EXCEPT !.reply = r])
        PROVE  call' \in [Caller -> Call] /\ \A d \in Caller : <<d, call'[d].n>> \in Id
    <3> DEFINE new == [call[c] EXCEPT !.reply = r]
    <3>1. new \in Call /\ new.n = call[c].n
      BY <1>1, CallsStayCalls DEF Call
    <3>2. <<c, call[c].n>> \in Id
      BY <1>1 DEF TypeOK
    <3> HIDE DEF new, c
    <3> QED
      BY <1>1, <2>2, <3>1, <3>2, SetKeepsType DEF new
  <2> QED
    BY <1>1, <1>2, <2>1, <2>2, AnswersAreReplies DEF Resolve
<1>4. asked' \subseteq asked /\ pending' \subseteq pending
  BY DEF handle_ui_tree_response, handle_screenshot_response
<1> QED
  BY <1>3, <1>4 DEF handle_ui_tree_response, handle_screenshot_response, TypeOK

\* What a step of a perception does to the history and to the bundle.
Starts(p) ==
  /\ pc[p] = "new" /\ pc' = [pc EXCEPT ![p] = pc'[p]] /\ pc'[p] \in {"tree", "gather", "image"}
  /\ since' = [since EXCEPT ![p] = screen] /\ UNCHANGED bundle

Raises(p) ==
  pc[p] \notin {"done", "raised"} /\ pc' = [pc EXCEPT ![p] = "raised"] /\ UNCHANGED <<since, bundle>>

Finishes(p) ==
  /\ pc[p] \notin {"new", "done", "raised"} /\ pc' = [pc EXCEPT ![p] = "done"] /\ UNCHANGED since
  /\ \E m \in Modality : /\ Pictures(p, m) # {}
                         /\ bundle' = [bundle EXCEPT ![p] = {r.of : r \in Pictures(p, m)}]

GoesOnLooking(p) ==
  /\ pc[p] \notin {"new", "done", "raised"} /\ UNCHANGED <<since, bundle>>
  /\ \E place \in {"tree", "gather", "again", "image"} : pc' = [pc EXCEPT ![p] = place]

LEMMA PerceptionCases ==
  ASSUME TypeOK, NEW p \in Perception,
         Unavailable(p) \/ request_perception(p) \/ GoesOn(p)
  PROVE  Starts(p) \/ Raises(p) \/ Finishes(p) \/ GoesOnLooking(p)
<1> USE DEF Modality
<1>1. pc \in [Perception -> Place] /\ modality[p] \in Modality
  BY DEF TypeOK, Place
<1>2. CASE Unavailable(p)
  BY <1>2 DEF Unavailable, Raise, Go, Raises
<1>3. CASE request_perception(p)
  BY <1>1, <1>3 DEF request_perception, Go, Starts
<1>4. ASSUME pc[p] \notin {"new", "done", "raised"}, NEW m \in Modality, Finish(p, m)
      PROVE  Raises(p) \/ Finishes(p)
  BY <1>4 DEF Finish, Raise, Go, Raises, Finishes
<1>5. ASSUME pc[p] \notin {"new", "done", "raised"}, NEW place \in {"again", "image"}, NEW m,
             NEW n, AskForImage(p, place, m, n)
      PROVE  GoesOnLooking(p)
  BY <1>5 DEF AskForImage, Go, GoesOnLooking
<1>6. CASE RetryTree(p)
  BY <1>1, <1>6 DEF RetryTree, At, Go, GoesOnLooking
<1>7. CASE TreeDone(p)
  <2>1. pc[p] = "tree"
    BY <1>7 DEF TreeDone, At
  <2>2. Raise(p) => Raises(p)
    BY <2>1 DEF Raise, Go, Raises
  <2> QED
    BY <1>4, <1>5, <1>7, <2>1, <2>2 DEF TreeDone
<1>8. CASE GatherDone(p)
  BY <1>4, <1>5, <1>8 DEF GatherDone, At
<1>9. CASE AgainDone(p)
  BY <1>1, <1>4, <1>5, <1>9 DEF AgainDone, At
<1>10. CASE ImageDone(p)
  <2>1. pc[p] = "image"
    BY <1>10 DEF ImageDone, At
  <2>2. Raise(p) => Raises(p)
    BY <2>1 DEF Raise, Go, Raises
  <2> QED
    BY <1>4, <1>10, <2>1, <2>2 DEF ImageDone
<1> QED
  BY <1>2, <1>3, <1>6, <1>7, <1>8, <1>9, <1>10 DEF GoesOn

\* The pictures of a bundle are full answers to calls of its perception.
LEMMA PicturesAreReplies ==
  ASSUME TypeOK, NEW p \in Perception, NEW m, NEW r \in Pictures(p, m)
  PROVE  \E c \in Caller : c[1] = p /\ r = call[c].reply /\ r \in Reply /\ r.what = "full"
<1>1. <<p, "tree">> \in Caller /\ <<p, "image">> \in Caller
  BY DEF Caller
<1>2. Tree(p).reply \in Reply /\ Image(p).reply \in Reply
  BY <1>1, CallsStayCalls DEF Tree, Image
<1> QED
  BY <1>1, <1>2 DEF Pictures, Tree, Image

\* The calls that a perception goes on with, with their parts.
LEMMA NextCalls ==
  ASSUME TypeOK, Places, NEW p \in Perception, Back(p),
         NEW tree \in NextTree(p), NEW image \in NextImage(p)
  PROVE  /\ tree \in Call /\ image \in Call
         /\ <<<<p, "tree">>, tree.n>> \in Id /\ <<<<p, "image">>, image.n>> \in Id
         /\ tree.at \in {"off", "back", "sending"} /\ image.at \in {"off", "back", "sending"}
         /\ tree.at = "sending" => tree.reply = Unset
         /\ image.at = "sending" => image.reply = Unset
         /\ tree.reply = Unset \/ tree = Tree(p)
         /\ image.reply = Unset \/ image = Image(p)
<1>1. <<p, "tree">> \in Caller /\ <<p, "image">> \in Caller
  BY DEF Caller
<1>2. /\ Tree(p) \in Call /\ Image(p) \in Call
      /\ <<<<p, "tree">>, Tree(p).n>> \in Id /\ <<<<p, "image">>, Image(p).n>> \in Id
  BY <1>1 DEF TypeOK, Tree, Image
<1>3. \A n \in 0..ui_tree_max_retries : <<<<p, "tree">>, n>> \in Id /\ n \in Nat
  BY <1>1, RetriesAssumption DEF Id
<1>4. \A n \in 0..3 : <<<<p, "image">>, n>> \in Id /\ n \in Nat
  BY <1>1 DEF Id
<1>5. Tree(p).at \in {"off", "back"} /\ Image(p).at \in {"off", "back"}
  BY DEF Back
<1>6. <<<<p, "tree">>, 0>> \in Id
  BY <1>1, RetriesAssumption DEF Id
<1>7. /\ tree \in Call /\ <<<<p, "tree">>, tree.n>> \in Id /\ tree.at \in {"off", "back", "sending"}
      /\ tree.at = "sending" => tree.reply = Unset
      /\ tree.reply = Unset \/ tree = Tree(p)
  BY <1>2, <1>3, <1>5, <1>6, UnsetIsReply, RequestIsCall DEF NextTree
<1>8. /\ image \in Call /\ <<<<p, "image">>, image.n>> \in Id
      /\ image.at \in {"off", "back", "sending"}
      /\ image.at = "sending" => image.reply = Unset
      /\ image.reply = Unset \/ image = Image(p)
  BY <1>2, <1>4, <1>5, UnsetIsReply, RequestIsCall DEF NextImage
<1> QED
  BY <1>7, <1>8

LEMMA PerceptionKeepsType ==
  ASSUME TypeOK, Places, NEW p \in Perception,
         Unavailable(p) \/ request_perception(p) \/ GoesOn(p)
  PROVE  TypeOK'
<1>1. Continues(p)
  BY PerceptionContinues
<1>2. PICK place \in Place, m \in Modality, tree \in NextTree(p), image \in NextImage(p) :
        Go(p, place, m, Calls(p, tree, image))
  BY <1>1 DEF Continues
<1>3. GoDoes(p, place, m, tree, image)
  BY <1>2, GoEffect
<1>4. /\ tree \in Call /\ image \in Call
      /\ <<<<p, "tree">>, tree.n>> \in Id /\ <<<<p, "image">>, image.n>> \in Id
  BY <1>1, NextCalls DEF Continues
<1>5. \A c \in Caller : call'[c] \in Call /\ <<c, call'[c].n>> \in Id
  <2>1. ASSUME NEW c \in Caller, c[1] # p PROVE call'[c] = call[c]
    BY <1>3, <2>1 DEF GoDoes
  <2>2. ASSUME NEW c \in Caller, c[1] = p
        PROVE  \/ c = <<p, "tree">> /\ call'[c] = tree
               \/ c = <<p, "image">> /\ call'[c] = image
    <3>1. c = <<p, "tree">> \/ c = <<p, "image">>
      BY <2>2, CallerParts
    <3>2. call'[<<p, "tree">>] = tree /\ call'[<<p, "image">>] = image
      BY <1>3 DEF GoDoes
    <3> QED
      BY <3>1, <3>2
  <2>3. \A c \in Caller : call[c] \in Call /\ <<c, call[c].n>> \in Id
    BY DEF TypeOK
  <2> QED
    BY <1>4, <2>1, <2>2, <2>3
<1>6. call' \in [Caller -> Call]
  BY <1>3, <1>5 DEF GoDoes
<1>7. pending' \subseteq Id
  BY <1>3, <1>4 DEF TypeOK, GoDoes
<1>8. since' \in [Perception -> 0..MaxScreen] /\ bundle' \in [Perception -> SUBSET (0..MaxScreen)]
  <2>1. Starts(p) \/ Raises(p) \/ Finishes(p) \/ GoesOnLooking(p)
    BY PerceptionCases
  <2>2. \A k \in Modality : {r.of : r \in Pictures(p, k)} \subseteq 0..MaxScreen
    BY PicturesAreReplies DEF Reply
  <2> QED
    BY <2>1, <2>2 DEF Starts, Raises, Finishes, GoesOnLooking, TypeOK
<1> QED
  BY <1>3, <1>5, <1>6, <1>7, <1>8 DEF TypeOK, Place, Modality, GoDoes

\* The calls of Places, Entries and Fresh, that only c changes.
LEMMA SetEffect ==
  ASSUME TypeOK, NEW c \in Caller, NEW new, Set(c, new)
  PROVE  /\ call'[c] = new
         /\ \A d \in Caller : d # c => call'[d] = call[d]
BY DEF TypeOK, Set

LEMMA RequesterKeepsPlaces ==
  ASSUME TypeOK, Places, NEW c \in Caller, Requester(c)
  PROVE  Places'
<1>1. call[c] \in Call /\ \A d \in Caller : call[d] \in Call
  BY DEF TypeOK
<1>2. call[c].at # "off" /\ pc' = pc
  BY DEF Requester, Sent, SendFails, TreeParsed, TreeUnreadable, ImageParsed, AskAgain, Timeout, Under
<1>3. pc[c[1]] # "new"
  <2>1. c = <<c[1], c[2]>> /\ c[1] \in Perception /\ c[2] \in {"tree", "image"}
    BY CallerParts
  <2> QED
    BY <1>2, <2>1, UnsetIsReply DEF Places, Tree, Image
<1>4. ASSUME NEW new, Set(c, new),
             new.at = "pausing" => c[2] = "image" /\ new.n \in {0, 2},
             new.at \in {"sending", "waiting"} => new.reply = Unset \/ new.reply.what \in Content
      PROVE  Places'
  <2>1. /\ call'[c] = new
        /\ \A d \in Caller : d # c => call'[d] = call[d]
    BY <1>4, SetEffect
  <2>2. \A p \in Perception : pc[p] = "new" =>
          Tree(p)' = Tree(p) /\ Image(p)' = Image(p)
    BY <1>3, <2>1 DEF Tree, Image, Caller
  <2> QED
    BY <1>2, <1>4, <2>1, <2>2 DEF Places
<1>5. ASSUME NEW r, Return(c, r) PROVE Places'
  BY <1>4, <1>5 DEF Return
<1>6. CASE Sent(c)
  <2> DEFINE new == [call[c] EXCEPT !.at = "waiting"]
  <2>1. new.at = "waiting" /\ new.reply = call[c].reply
    BY <1>1 DEF Call
  <2>2. call[c].reply = Unset \/ call[c].reply.what \in Content
    BY <1>6 DEF Sent, Under, Places
  <2> HIDE DEF new
  <2> QED
    BY <1>4, <1>6, <2>1, <2>2 DEF Sent, new
<1>7. CASE SendFails(c) \/ TreeParsed(c) \/ TreeUnreadable(c) \/ Timeout(c)
  BY <1>5, <1>7 DEF SendFails, TreeParsed, TreeUnreadable, Timeout
<1>8. CASE ImageParsed(c)
  <2> DEFINE new == [call[c] EXCEPT !.at = "pausing", !.reply = Unset]
  <2>1. new.at = "pausing" /\ new.n = call[c].n
    BY <1>1 DEF Call
  <2>2. c[2] = "image" /\ call[c].n \in 0..3
    <3>1. <<c, call[c].n>> \in Id /\ call[c].n \in Nat
      BY <1>1 DEF TypeOK, Call
    <3>2. c[2] = "image"
      BY <1>8 DEF ImageParsed
    <3>3. call[c].n <= 3
      BY <3>1, <3>2 DEF Id
    <3> QED
      BY <3>1, <3>2, <3>3
  <2> HIDE DEF new
  <2>3. ~SecondAttempt(c) => call[c].n \in {0, 2}
    BY <2>2 DEF SecondAttempt
  <2>4. CASE Set(c, new) /\ ~SecondAttempt(c)
    BY <1>4, <2>1, <2>2, <2>3, <2>4
  <2> QED
    BY <1>5, <1>8, <2>4 DEF ImageParsed, new
<1>9. CASE AskAgain(c)
  <2>1. call[c].n + 1 \in Nat
    BY <1>1 DEF Call
  <2> QED
    BY <1>4, <1>9, <2>1, RequestIsCall DEF AskAgain
<1> QED
  BY <1>6, <1>7, <1>8, <1>9 DEF Requester

LEMMA AnswerKeepsPlaces ==
  ASSUME TypeOK, Places, NEW a \in asked,
         \/ handle_ui_tree_response(a[1][1], a[1][2], a[2])
         \/ handle_screenshot_response(a[1][1], a[1][2], a[2])
  PROVE  Places'
<1> DEFINE c == a[1][1]
<1>1. c \in Caller /\ a[2] \in 0..MaxScreen
  BY DEF TypeOK, Id
<1>2. PICK kinds \in SUBSET {"empty", "rejected", "requires_vision"} :
        Resolve(c, a[1][2], a[2], kinds)
  BY DEF handle_ui_tree_response, handle_screenshot_response
<1>3. pc' = pc
  BY DEF handle_ui_tree_response, handle_screenshot_response
<1> HIDE DEF c
<1>4. CASE UNCHANGED call
  BY <1>3, <1>4 DEF Places, Tree, Image
<1>5. ASSUME NEW r \in Answers(a[2], kinds), Takes(c, a[1][2]),
             Set(c, [call[c] EXCEPT !.reply = r])
      PROVE  Places'
  <2>1. call[c] \in Call
    BY <1>1 DEF TypeOK
  <2>2. /\ call'[c] = [call[c] EXCEPT !.reply = r]
        /\ \A d \in Caller : d # c => call'[d] = call[d]
    BY <1>1, <1>5, SetEffect
  <2>3. /\ call'[c].at = call[c].at /\ call'[c].reply = r /\ call'[c].n = call[c].n
    BY <2>1, <2>2 DEF Call
  <2>4. r.what \in Content
    BY DEF Answers, Content
  <2>5. call[c].at \in {"sending", "waiting"}
    BY <1>5 DEF Takes
  <2>6. \A p \in Perception : pc[p] = "new" => Tree(p)' = Tree(p) /\ Image(p)' = Image(p)
    BY <1>1, <2>2, <2>5, UnsetIsReply DEF Places, Tree, Image, Caller
  <2> QED
    BY <1>3, <2>2, <2>3, <2>4, <2>5, <2>6 DEF Places
<1> QED
  BY <1>2, <1>4, <1>5 DEF Resolve

\* What a perception goes on with, in one place.
LEMMA PerceptionGoes ==
  ASSUME TypeOK, Places, NEW p \in Perception,
         Unavailable(p) \/ request_perception(p) \/ GoesOn(p)
  PROVE  /\ Back(p)
         /\ \E place \in Place \ {"new"}, m \in Modality, tree \in NextTree(p), image \in NextImage(p) :
              GoDoes(p, place, m, tree, image)
<1>1. Continues(p)
  BY PerceptionContinues
<1>2. PICK place \in Place \ {"new"}, m \in Modality, tree \in NextTree(p), image \in NextImage(p) :
        Go(p, place, m, Calls(p, tree, image))
  BY <1>1 DEF Continues
<1>3. GoDoes(p, place, m, tree, image)
  BY <1>2, GoEffect
<1> QED
  BY <1>1, <1>3 DEF Continues

LEMMA PerceptionKeepsPlaces ==
  ASSUME TypeOK, Places, NEW p \in Perception,
         Unavailable(p) \/ request_perception(p) \/ GoesOn(p)
  PROVE  Places'
<1>1. PICK place \in Place \ {"new"}, m \in Modality, tree \in NextTree(p), image \in NextImage(p) :
        GoDoes(p, place, m, tree, image)
  BY PerceptionGoes
<1>2. /\ tree.at \in {"off", "back", "sending"} /\ image.at \in {"off", "back", "sending"}
      /\ tree.at = "sending" => tree.reply = Unset
      /\ image.at = "sending" => image.reply = Unset
  BY PerceptionGoes, NextCalls
<1>3. \A c \in Caller : c[1] = p => call'[c] \in {tree, image}
  BY <1>1, CallerParts DEF GoDoes
<1>4. \A c \in Caller : /\ call'[c].at = "pausing" => call'[c] = call[c]
                        /\ call'[c].at \in {"sending", "waiting"} =>
                             call'[c] = call[c] \/ call'[c].reply = Unset
  BY <1>1, <1>2, <1>3 DEF GoDoes
<1>5. \A o \in Perception : pc'[o] = "new" => pc[o] = "new" /\ o # p
  BY <1>1 DEF GoDoes, TypeOK
<1>6. \A o \in Perception : o # p => Tree(o)' = Tree(o) /\ Image(o)' = Image(o)
  BY <1>1 DEF GoDoes, Tree, Image, Caller
<1> QED
  BY <1>4, <1>5, <1>6 DEF Places

-----------------------------------------------------------------------------

LEMMA RequesterKeepsEntries ==
  ASSUME TypeOK, Places, Entries, NEW c \in Caller, Requester(c)
  PROVE  Entries'
<1> USE DEF Entries, PendingIsUnderWay, Awaits, IdOf
<1>1. call[c] \in Call /\ call[c].n \in Nat /\ pending \subseteq Id
  BY DEF TypeOK, Call
<1>2. ASSUME NEW r, NEW k, Return(c, r) \/ Set(c, [call[c] EXCEPT !.at = "pausing", !.reply = Unset]),
             pending' = pending \ {<<c, k>>}, IdOf(c) \in pending' => SecondAttempt(c)
      PROVE  Entries'
  <2>1. PICK new : Set(c, new) /\ new.at \in {"pausing", "back"}
    <3>1. [call[c] EXCEPT !.at = "pausing", !.reply = Unset].at = "pausing"
      BY <1>1 DEF Call
    <3>2. [at |-> "back", n |-> call[c].n, reply |-> r].at = "back"
      OBVIOUS
    <3>3. CASE Return(c, r)
      BY <3>2, <3>3 DEF Return
    <3> QED
      BY <1>2, <3>1, <3>3
  <2>2. /\ call'[c] = new
        /\ \A d \in Caller : d # c => call'[d] = call[d]
    BY <2>1, SetEffect
  <2>3. \A id \in pending' : id \in pending /\ id[1] \in Caller /\ id = <<id[1], id[2]>>
    BY <1>1, <1>2 DEF Id
  <2>4. \A id \in pending' : id[1] = c => c[2] = "image" /\ id[2] \in {1, 3}
    BY <1>2, <2>3 DEF SecondAttempt
  <2>5. \A d \in Caller : d # c /\ <<d, call[d].n>> \in pending => <<d, call[d].n>> \in pending'
    BY <1>2
  <2> QED
    BY <1>2, <2>1, <2>2, <2>3, <2>4, <2>5
<1>3. CASE Sent(c)
  <2> DEFINE new == [call[c] EXCEPT !.at = "waiting"]
  <2>1. new.at = "waiting" /\ new.n = call[c].n /\ new.reply = call[c].reply
    BY <1>1 DEF Call
  <2>2. /\ call'[c] = new
        /\ \A d \in Caller : d # c => call'[d] = call[d]
    BY <1>3, SetEffect DEF Sent
  <2>3. call[c].at = "sending" /\ pending' = pending
    BY <1>3 DEF Sent, Under
  <2>4. \A id \in pending : id[1] \in Caller
    BY <1>1 DEF Id
  <2> HIDE DEF new
  <2> QED
    BY <2>1, <2>2, <2>3, <2>4
<1>4. CASE SendFails(c)
  <2>1. SecondAttempt(c) => call[c].n - 1 # call[c].n
    BY <1>1
  <2> QED
    BY <1>2, <1>4, <2>1 DEF SendFails
<1>5. CASE TreeParsed(c) \/ TreeUnreadable(c) \/ Timeout(c)
  BY <1>2, <1>5 DEF TreeParsed, TreeUnreadable, Timeout
<1>6. CASE ImageParsed(c)
  <2>1. IdOf(c) \notin pending /\ pending' = pending
    BY <1>6 DEF ImageParsed, Under
  <2>2. pending' = pending \ {<<c, call[c].n>>}
    BY <2>1
  <2> QED
    BY <1>2, <1>6, <2>1, <2>2 DEF ImageParsed
<1>7. CASE AskAgain(c)
  <2> DEFINE n == call[c].n + 1
  <2>1. c[2] = "image" /\ n \in Nat /\ call[c].at = "pausing"
    BY <1>1, <1>7 DEF AskAgain, Under, Places
  <2>2. Request(n).at = "sending" /\ Request(n).n = n /\ Request(n).reply = Unset
    BY <2>1, RequestIsCall
  <2>3. /\ call'[c] = Request(n)
        /\ \A d \in Caller : d # c => call'[d] = call[d]
    BY <1>7, SetEffect DEF AskAgain
  <2>4. pending' = pending \cup {<<c, n>>}
    BY <1>7 DEF AskAgain
  <2>5. \A id \in pending : id[1] \in Caller /\ (id[1] = c => id[2] \in {1, 3})
    BY <1>1, <2>1 DEF Id
  <2> HIDE DEF n
  <2> QED
    BY <2>1, <2>2, <2>3, <2>4, <2>5
<1> QED
  BY <1>3, <1>4, <1>5, <1>6, <1>7 DEF Requester

LEMMA AnswerKeepsEntries ==
  ASSUME TypeOK, Entries, NEW a \in asked,
         \/ handle_ui_tree_response(a[1][1], a[1][2], a[2])
         \/ handle_screenshot_response(a[1][1], a[1][2], a[2])
  PROVE  Entries'
<1> DEFINE c == a[1][1]
           n == a[1][2]
<1> USE DEF Entries, PendingIsUnderWay, Awaits, IdOf
<1>1. c \in Caller /\ n \in Nat /\ a[2] \in 0..MaxScreen /\ pending \subseteq Id
  BY DEF TypeOK, Id
<1>2. PICK kinds \in SUBSET {"empty", "rejected", "requires_vision"} :
        Resolve(c, n, a[2], kinds)
  BY DEF handle_ui_tree_response, handle_screenshot_response
<1>3. \/ c[2] = "tree" /\ pending' = pending
      \/ c[2] = "image" /\ pending' = pending \ {<<c, n>>}
  BY DEF handle_ui_tree_response, handle_screenshot_response
<1>4. \A id \in pending : id[1] \in Caller
  BY <1>1 DEF Id
<1> HIDE DEF c, n
<1>5. CASE ~Takes(c, n) /\ UNCHANGED call
  <2>1. \A d \in Caller : Awaits(d) => ~(d = c /\ call[d].n = n)
    BY <1>5 DEF Takes
  <2> QED
    BY <1>3, <1>4, <1>5, <2>1
<1>6. ASSUME NEW r \in Answers(a[2], kinds), Takes(c, n), Set(c, [call[c] EXCEPT !.reply = r])
      PROVE  Entries'
  <2>1. /\ call'[c] = [call[c] EXCEPT !.reply = r]
        /\ \A d \in Caller : d # c => call'[d] = call[d]
    BY <1>1, <1>6, SetEffect
  <2>2. /\ call'[c].at = call[c].at /\ call'[c].reply = r /\ call'[c].n = call[c].n
    BY <1>1, <2>1 DEF Call, TypeOK
  <2>3. r # Unset
    BY <1>1, AnswersAreReplies
  <2>4. call[c].n = n /\ call[c].at \in {"sending", "waiting"}
    BY <1>6 DEF Takes
  <2>5. ASSUME NEW d \in Caller, Awaits(d)' PROVE IdOf(d)' \in pending'
    BY <1>3, <2>1, <2>2, <2>3, <2>5
  <2>6. ASSUME NEW id \in pending'
        PROVE  \/ call'[id[1]].at \in {"sending", "waiting"} /\ id = <<id[1], call'[id[1]].n>>
               \/ id[1][2] = "image" /\ id[2] \in {1, 3}
    <3>1. id \in pending /\ id[1] \in Caller
      BY <1>3, <1>4
    <3>2. call'[id[1]].at = call[id[1]].at /\ call'[id[1]].n = call[id[1]].n
      BY <2>1, <2>2, <3>1
    <3> QED
      BY <3>1, <3>2
  <2>7. ASSUME NEW d \in Caller, d[2] = "image", call'[d].at \in {"sending", "waiting"},
               call'[d].reply # Unset
        PROVE  <<d, call'[d].n>> \notin pending'
    <3>1. CASE d = c
      <4>1. pending' = pending \ {<<c, n>>} /\ call'[c].n = n
        BY <1>3, <2>2, <2>4, <2>7, <3>1
      <4> QED
        BY <3>1, <4>1
    <3>2. CASE d # c
      <4>1. call'[d] = call[d]
        BY <2>1, <3>2
      <4>2. <<d, call[d].n>> \notin pending
        BY <2>7, <4>1
      <4> QED
        BY <1>3, <4>1, <4>2
    <3> QED
      BY <3>1, <3>2
  <2> QED
    BY <2>5, <2>6, <2>7
<1> QED
  BY <1>2, <1>5, <1>6 DEF Resolve

LEMMA PerceptionKeepsEntries ==
  ASSUME TypeOK, Places, Entries, NEW p \in Perception,
         Unavailable(p) \/ request_perception(p) \/ GoesOn(p)
  PROVE  Entries'
<1> USE DEF Entries, PendingIsUnderWay, Awaits, IdOf
<1>1. PICK place \in Place \ {"new"}, m \in Modality, tree \in NextTree(p), image \in NextImage(p) :
        GoDoes(p, place, m, tree, image)
  BY PerceptionGoes
<1>2. /\ tree.at \in {"off", "back", "sending"} /\ image.at \in {"off", "back", "sending"}
      /\ tree.at = "sending" => tree.reply = Unset
      /\ image.at = "sending" => image.reply = Unset
  BY PerceptionGoes, NextCalls
<1>3. /\ call'[<<p, "tree">>] = tree /\ call'[<<p, "image">>] = image
      /\ \A d \in Caller : d[1] # p => call'[d] = call[d]
  BY <1>1 DEF GoDoes
<1>4. \A d \in Caller : d[1] = p => /\ d = <<p, "tree">> \/ d = <<p, "image">>
                                    /\ call[d].at \in {"off", "back"}
  <2>1. ASSUME NEW d \in Caller, d[1] = p PROVE d = <<p, "tree">> \/ d = <<p, "image">>
    BY <2>1, CallerParts
  <2>2. call[<<p, "tree">>].at \in {"off", "back"} /\ call[<<p, "image">>].at \in {"off", "back"}
    BY PerceptionGoes DEF Back, Tree, Image
  <2> QED
    BY <2>1, <2>2
<1>5. \A id \in pending : id[1] \in Caller
  BY DEF TypeOK, Id
<1>6. \A id : id \in pending' <=>
        \/ id \in pending
        \/ id = <<<<p, "tree">>, tree.n>> /\ tree.at = "sending"
        \/ id = <<<<p, "image">>, image.n>> /\ image.at = "sending"
  BY <1>1 DEF GoDoes
<1>7. ASSUME NEW d \in Caller, Awaits(d)' PROVE IdOf(d)' \in pending'
  BY <1>2, <1>3, <1>4, <1>6, <1>7
<1>8. ASSUME NEW id \in pending'
      PROVE  \/ call'[id[1]].at \in {"sending", "waiting"} /\ id = <<id[1], call'[id[1]].n>>
             \/ id[1][2] = "image" /\ id[2] \in {1, 3}
  BY <1>2, <1>3, <1>4, <1>5, <1>6
<1>9. ASSUME NEW d \in Caller, d[2] = "image", call'[d].at \in {"sending", "waiting"},
             call'[d].reply # Unset
      PROVE  <<d, call'[d].n>> \notin pending'
  <2>1. d[1] # p
    BY <1>2, <1>3, <1>4, <1>9
  <2> QED
    BY <1>3, <1>6, <1>9, <2>1
<1> QED
  BY <1>7, <1>8, <1>9

-----------------------------------------------------------------------------

LEMMA RequesterKeepsFresh ==
  ASSUME TypeOK, Places, Fresh, NEW c \in Caller, Requester(c)
  PROVE  Fresh'
<1> USE DEF Fresh
<1>1. /\ call[c] \in Call /\ c[1] \in Perception /\ screen \in Nat
      /\ \A p \in Perception : since[p] \in Nat
  BY CallerParts, ScreenAssumption DEF TypeOK
<1>2. UNCHANGED <<screen, pc, since>>
  BY DEF Requester, Sent, SendFails, TreeParsed, TreeUnreadable, ImageParsed, AskAgain, Timeout
<1>3. ASSUME NEW new, Set(c, new), new.reply.what = "full" => new.reply = call[c].reply,
             asked' = asked
      PROVE  Fresh'
  <2>1. /\ call'[c] = new
        /\ \A d \in Caller : d # c => call'[d] = call[d]
    BY <1>3, SetEffect
  <2>2. \A d \in Caller : call'[d].reply.what = "full" => call'[d].reply = call[d].reply
    BY <1>3, <2>1
  <2> QED
    BY <1>2, <1>3, <2>2
<1>4. CASE Sent(c)
  <2> DEFINE new == [call[c] EXCEPT !.at = "waiting"]
  <2>1. new.reply = call[c].reply
    BY <1>1 DEF Call
  <2>2. /\ call'[c] = new
        /\ \A d \in Caller : d # c => call'[d] = call[d]
    BY <1>4, SetEffect DEF Sent
  <2>3. \A d \in Caller : call'[d].reply = call[d].reply
    BY <2>1, <2>2
  <2>4. pc[c[1]] # "new"
    <3>1. c = <<c[1], c[2]>> /\ c[2] \in {"tree", "image"}
      BY CallerParts
    <3> QED
      BY <1>1, <1>4, <3>1, UnsetIsReply DEF Sent, Under, Places, Tree, Image
  <2>5. asked' = asked \cup {<<IdOf(c), screen>>} /\ IdOf(c)[1] = c
    BY <1>4 DEF Sent, IdOf
  <2>6. ASSUME NEW a \in asked'
        PROVE  pc[a[1][1][1]] # "new" /\ a[2] \in since[a[1][1][1]]..screen
    BY <1>1, <2>4, <2>5
  <2> QED
    BY <1>2, <2>3, <2>6
<1>5. ASSUME NEW r, Return(c, r), r.what = "full" => r = call[c].reply, asked' = asked
      PROVE  Fresh'
  BY <1>3, <1>5 DEF Return
<1>6. CASE SendFails(c) \/ TreeUnreadable(c) \/ Timeout(c)
  BY <1>5, <1>6, NothingIsReply DEF SendFails, TreeUnreadable, Timeout
<1>7. CASE TreeParsed(c)
  BY <1>5, <1>7, NothingIsReply DEF TreeParsed
<1>8. CASE ImageParsed(c)
  <2>1. [call[c] EXCEPT !.at = "pausing", !.reply = Unset].reply.what # "full"
    BY <1>1 DEF Call, Unset
  <2> QED
    BY <1>3, <1>5, <1>8, <2>1, NothingIsReply DEF ImageParsed
<1>9. CASE AskAgain(c)
  <2>1. call[c].n + 1 \in Nat
    BY <1>1 DEF Call
  <2>2. Request(call[c].n + 1).reply.what # "full"
    BY <2>1, RequestIsCall DEF Unset
  <2> QED
    BY <1>3, <1>9, <2>2 DEF AskAgain
<1> QED
  BY <1>4, <1>6, <1>7, <1>8, <1>9 DEF Requester

LEMMA AnswerKeepsFresh ==
  ASSUME TypeOK, Fresh, NEW a \in asked,
         \/ handle_ui_tree_response(a[1][1], a[1][2], a[2])
         \/ handle_screenshot_response(a[1][1], a[1][2], a[2])
  PROVE  Fresh'
<1> DEFINE c == a[1][1]
           n == a[1][2]
<1> USE DEF Fresh
<1>1. /\ c \in Caller /\ c[1] \in Perception /\ a[2] \in 0..MaxScreen /\ screen \in Nat
      /\ since[c[1]] \in Nat
  BY CallerParts, ScreenAssumption DEF TypeOK, Id
<1>2. PICK kinds \in SUBSET {"empty", "rejected", "requires_vision"} :
        Resolve(c, n, a[2], kinds)
  BY DEF handle_ui_tree_response, handle_screenshot_response
<1>3. asked' \subseteq asked /\ UNCHANGED <<screen, pc, since>>
  BY DEF handle_ui_tree_response, handle_screenshot_response
<1>4. a[2] \in since[c[1]]..screen
  OBVIOUS
<1> HIDE DEF c, n
<1>5. CASE UNCHANGED call
  BY <1>3, <1>5
<1>6. ASSUME NEW r \in Answers(a[2], kinds), Set(c, [call[c] EXCEPT !.reply = r])
      PROVE  Fresh'
  <2>1. /\ call'[c] = [call[c] EXCEPT !.reply = r]
        /\ \A d \in Caller : d # c => call'[d] = call[d]
    BY <1>1, <1>6, SetEffect
  <2>2. call'[c].reply = r
    BY <1>1, <2>1 DEF Call, TypeOK
  <2>3. r.what = "full" => r.of \in since[c[1]]..screen
    <3>1. r.what = "full" => r.of \in a[2]..screen
      BY <1>1, AnswersAreReplies
    <3> QED
      BY <1>1, <1>4, <3>1
  <2> QED
    BY <1>3, <2>1, <2>2, <2>3
<1> QED
  BY <1>2, <1>5, <1>6 DEF Resolve

LEMMA PerceptionKeepsFresh ==
  ASSUME TypeOK, Places, Fresh, NEW p \in Perception,
         Unavailable(p) \/ request_perception(p) \/ GoesOn(p)
  PROVE  Fresh'
<1> USE DEF Fresh
<1>1. PICK place \in Place \ {"new"}, m \in Modality, tree \in NextTree(p), image \in NextImage(p) :
        GoDoes(p, place, m, tree, image)
  BY PerceptionGoes
<1>2. tree.reply = Unset \/ tree = Tree(p)
  BY PerceptionGoes, NextCalls
<1>3. image.reply = Unset \/ image = Image(p)
  BY PerceptionGoes, NextCalls
<1>4. /\ call'[<<p, "tree">>] = tree /\ call'[<<p, "image">>] = image
      /\ \A d \in Caller : d[1] # p => call'[d] = call[d]
      /\ UNCHANGED <<screen, asked>> /\ pc' = [pc EXCEPT ![p] = place]
  BY <1>1 DEF GoDoes
<1>5. ASSUME NEW d \in Caller, call'[d].reply.what = "full" PROVE call'[d] = call[d]
  <2>1. d[1] = p => d = <<p, "tree">> \/ d = <<p, "image">>
    BY CallerParts
  <2>2. Unset.what # "full"
    BY DEF Unset
  <2> QED
    BY <1>2, <1>3, <1>4, <1>5, <2>1, <2>2 DEF Tree, Image
<1>6. \A a \in asked : pc'[a[1][1][1]] # "new"
  BY <1>4 DEF TypeOK, Place
<1>7. CASE Starts(p)
  <2>1. \A d \in Caller : call[d].reply.what = "full" => d[1] # p
    <3>1. Tree(p).reply.what # "full" /\ Image(p).reply.what # "full"
      BY <1>7, UnsetIsReply DEF Starts, Places, Unset
    <3> QED
      BY <3>1, CallerParts DEF Tree, Image
  <2>2. since' = [since EXCEPT ![p] = screen] /\ screen \in Nat
    BY <1>7, ScreenAssumption DEF Starts, TypeOK
  <2>3. \A a \in asked : a[1][1][1] # p
    BY <1>7 DEF Starts
  <2>4. \A d \in Caller : call[d].reply.what = "full" => since'[d[1]] = since[d[1]]
    BY <2>1, <2>2, CallerParts DEF TypeOK
  <2>5. \A a \in asked : since'[a[1][1][1]] = since[a[1][1][1]]
    BY <2>2, <2>3 DEF TypeOK, Id, Caller
  <2>6. \A o \in Perception : since'[o] <= screen
    BY <2>2 DEF TypeOK
  <2> QED
    BY <1>4, <1>5, <1>6, <2>4, <2>5, <2>6
<1>8. CASE UNCHANGED since
  BY <1>4, <1>5, <1>6, <1>8
<1> QED
  BY <1>7, <1>8, PerceptionCases DEF Raises, Finishes, GoesOnLooking

-----------------------------------------------------------------------------

LEMMA InitialInvariant == Init => IInv
<1> SUFFICES ASSUME Init PROVE IInv
  OBVIOUS
<1>1. \A c \in Caller : call[c] = Off /\ <<c, 0>> \in Id
  BY RetriesAssumption DEF Init, Id
<1>2. TypeOK
  BY <1>1, ScreenAssumption, UnsetIsReply DEF Init, TypeOK
<1>3. \A p \in Perception : Tree(p) = Off /\ Image(p) = Off
  BY <1>1 DEF Tree, Image, Caller
<1> QED
  BY <1>1, <1>2, <1>3, UnsetIsReply
     DEF Init, IInv, Places, Entries, PendingIsUnderWay, Awaits, Fresh, Unset

LEMMA StepInvariant == IInv /\ [Next]_vars => IInv'
<1> SUFFICES ASSUME IInv, [Next]_vars PROVE IInv'
  OBVIOUS
<1> USE DEF IInv
<1>1. CASE Change
  <2>1. TypeOK'
    <3>1. screen' \in 0..MaxScreen
      BY <1>1, ScreenAssumption DEF Change, TypeOK
    <3> QED
      BY <1>1, <3>1 DEF Change, TypeOK
  <2>2. screen \in Nat /\ screen' = screen + 1 /\ UNCHANGED <<pc, since, call, asked, pending>>
    BY <1>1, ScreenAssumption DEF Change, TypeOK
  <2>3. Places' /\ Entries'
    BY <2>2 DEF Places, Entries, PendingIsUnderWay, Awaits, IdOf, Tree, Image
  <2>4. \A p \in Perception : since[p] \in Nat
    BY ScreenAssumption DEF TypeOK
  <2>5. \A c \in Caller : c[1] \in Perception
    BY CallerParts
  <2>6. \A a \in asked : a[1][1][1] \in Perception
    BY <2>5 DEF TypeOK, Id
  <2>7. Fresh'
    BY <2>2, <2>4, <2>5, <2>6 DEF Fresh
  <2> QED
    BY <2>1, <2>3, <2>7
<1>2. ASSUME NEW c \in Caller, Requester(c) PROVE IInv'
  BY <1>2, RequesterKeepsType, RequesterKeepsPlaces, RequesterKeepsEntries, RequesterKeepsFresh
<1>3. ASSUME NEW a \in asked,
             \/ handle_ui_tree_response(a[1][1], a[1][2], a[2])
             \/ handle_screenshot_response(a[1][1], a[1][2], a[2])
      PROVE  IInv'
  BY <1>3, AnswerKeepsType, AnswerKeepsPlaces, AnswerKeepsEntries, AnswerKeepsFresh
<1>4. ASSUME NEW p \in Perception, Unavailable(p) \/ request_perception(p) \/ GoesOn(p)
      PROVE  IInv'
  BY <1>4, PerceptionKeepsType, PerceptionKeepsPlaces, PerceptionKeepsEntries, PerceptionKeepsFresh
<1>5. CASE UNCHANGED vars
  BY <1>5 DEF vars, TypeOK, Places, Entries, PendingIsUnderWay, Awaits, IdOf, Tree, Image, Fresh
<1> QED
  BY <1>1, <1>2, <1>3, <1>4, <1>5 DEF Next

LEMMA Invariant == Spec => []IInv
BY InitialInvariant, StepInvariant, PTL DEF Spec

\* Type correctness: no order of calls, answers, retries and timeouts takes a
\* perception out of its types; no tree is asked for more often than the setting
\* allows, and no screenshot under an id of its own more than four times.
THEOREM TypeCorrect == Spec => []TypeOK
<1>1. IInv => TypeOK
  BY DEF IInv
<1> QED
  BY <1>1, Invariant, PTL

\* An answer in time is never dropped, and the only entries that outlive their
\* call are those of second attempts whose send failed.
THEOREM PendingHolds == Spec => []PendingIsUnderWay
<1>1. IInv => PendingIsUnderWay
  BY DEF IInv, Entries
<1> QED
  BY <1>1, Invariant, PTL

\* A perception is a look: whatever answers come late or twice, what its bundle
\* shows was taken between its request and its return.
THEOREM CaptureImplementsObservation == Spec => ImplementsObservation
<1>1. Init => Live!Init
  BY DEF Init, Live!Init, Stage
<1>2. IInv /\ [Next]_vars => [Live!Next]_(Live!vars)
  <2> SUFFICES ASSUME IInv, [Next]_vars PROVE Live!Next \/ UNCHANGED Live!vars
    OBVIOUS
  <2> USE DEF IInv
  <2>1. CASE Change
    BY <2>1 DEF Change, Live!Next, Live!Change, Stage
  <2>2. CASE UNCHANGED <<screen, pc, since, bundle>>
    BY <2>2 DEF Live!vars, Stage
  <2>3. ASSUME NEW c \in Caller, Requester(c) PROVE UNCHANGED <<screen, pc, since, bundle>>
    BY <2>3 DEF Requester, Sent, SendFails, TreeParsed, TreeUnreadable, ImageParsed, AskAgain,
         Timeout
  <2>4. ASSUME NEW a \in asked,
               \/ handle_ui_tree_response(a[1][1], a[1][2], a[2])
               \/ handle_screenshot_response(a[1][1], a[1][2], a[2])
        PROVE  UNCHANGED <<screen, pc, since, bundle>>
    BY <2>4 DEF handle_ui_tree_response, handle_screenshot_response
  <2>5. ASSUME NEW p \in Perception, Unavailable(p) \/ request_perception(p) \/ GoesOn(p)
        PROVE  Live!Next \/ UNCHANGED Live!vars
    <3> USE DEF Stage
    <3>1. UNCHANGED screen /\ pc \in [Perception -> Place]
      BY <2>5, PerceptionGoes DEF GoDoes, TypeOK, Place
    <3>2. CASE Starts(p)
      BY <3>1, <3>2 DEF Starts, Live!Next, Live!Begin
    <3>3. CASE Raises(p)
      BY <3>1, <3>3 DEF Raises, Live!Next, Live!Fail, Place
    <3>4. CASE Finishes(p)
      <4>1. PICK m \in Modality :
              /\ Pictures(p, m) # {}
              /\ bundle' = [bundle EXCEPT ![p] = {r.of : r \in Pictures(p, m)}]
        BY <3>4 DEF Finishes
      <4>2. {r.of : r \in Pictures(p, m)} \in (SUBSET (since[p]..screen)) \ {{}}
        <5>1. \A r \in Pictures(p, m) : r.of \in since[p]..screen
          BY PicturesAreReplies DEF Fresh
        <5>2. PICK r \in Pictures(p, m) : TRUE
          BY <4>1
        <5> QED
          BY <5>1, <5>2
      <4>3. Stage[p] = "looking" /\ Stage' = [Stage EXCEPT ![p] = "seen"]
        BY <3>1, <3>4 DEF Finishes, Place
      <4> QED
        BY <3>1, <3>4, <4>1, <4>2, <4>3 DEF Finishes, Live!Next, Live!See
    <3>5. CASE GoesOnLooking(p)
      BY <3>1, <3>5 DEF GoesOnLooking, Place, Live!vars
    <3> QED
      BY <2>5, <3>2, <3>3, <3>4, <3>5, PerceptionCases
  <2>6. UNCHANGED vars => UNCHANGED <<screen, pc, since, bundle>>
    BY DEF vars
  <2> QED
    BY <2>1, <2>2, <2>3, <2>4, <2>5, <2>6 DEF Next
<1> QED
  BY <1>1, <1>2, Invariant, PTL DEF Spec, ImplementsObservation, Live!Spec
=============================================================================
