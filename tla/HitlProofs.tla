----------------------------- MODULE HitlProofs -----------------------------
(***************************************************************************)
(* Proofs about Hitl, for every set of questions and every finite set of   *)
(* connections.  The inductive invariant is TypeOK /\ Entries: an entry of *)
(* the pending dictionary comes with the question and goes only when its   *)
(* asker is back, a question is in the history once, and what was not      *)
(* asked has no answer and no result.                                      *)
(***************************************************************************)
EXTENDS Hitl, SequenceTheorems, FiniteSetTheorems, TLAPS

\* How questions, entries, answers and results belong together.
Entries ==
  /\ PendingIsUnfinished
  /\ \A q \in Question : phase[q] = "new" => future[q] = Unset /\ q \notin pending
  /\ \A q \in Question : phase[q] # "done" => result[q] = "none"
  /\ \A i \in DOMAIN history : phase[history[i]] # "new"
  /\ \A i, j \in DOMAIN history : history[i] = history[j] => i = j

\* The sizes that an iteration compares are numbers.
LEMMA SocketsHaveSize ==
  ASSUME NEW S, S \subseteq Socket
  PROVE  Cardinality(S) \in 0..Cardinality(Socket)
BY SocketsAreFinite, FS_Subset, FS_CardinalityType

\* One round of the iteration leaves phase, cast and sockets in their types and
\* moves the asker of q only, to a phase that is not "new" or "done".
LEMMA IterateMoves ==
  ASSUME TypeOK, NEW q \in Question, NEW c \in Cast, Iterate(q, c)
  PROVE  /\ sockets' \subseteq Socket
         /\ cast' \in [Question -> Cast]
         /\ \E p \in {"raised", "sending", "waiting"} : phase' = [phase EXCEPT ![q] = p]
         /\ \A k \in Question : phase'[k] = "sending" => cast'[k].cur # NoSocket
<1> USE DEF TypeOK
<1>1. NoCast \in Cast
  BY SocketsHaveSize DEF NoCast, Cast
<1>2. \A ws \in sockets : [c EXCEPT !.cur = ws, !.left = @ \ {ws}] \in Cast
  BY DEF Cast
<1>3. CASE Cardinality(sockets) # c.size /\ Iterate(q, c)
  BY <1>1, <1>3 DEF Iterate
<1>4. CASE sockets' \subseteq sockets
           /\ phase' = [phase EXCEPT ![q] = "waiting"] /\ cast' = [cast EXCEPT ![q] = NoCast]
  BY <1>1, <1>4
<1>5. ASSUME NEW ws \in sockets, sockets' = sockets, phase' = [phase EXCEPT ![q] = "sending"],
             cast' = [cast EXCEPT ![q] = [c EXCEPT !.cur = ws, !.left = @ \ {ws}]]
      PROVE  /\ sockets' \subseteq Socket
             /\ cast' \in [Question -> Cast]
             /\ \E p \in {"raised", "sending", "waiting"} : phase' = [phase EXCEPT ![q] = p]
             /\ \A k \in Question : phase'[k] = "sending" => cast'[k].cur # NoSocket
  <2>1. /\ [c EXCEPT !.cur = ws, !.left = @ \ {ws}] \in Cast
        /\ [c EXCEPT !.cur = ws, !.left = @ \ {ws}].cur = ws
    BY <1>2 DEF Cast
  <2> QED
    BY NoSocketIsNone, <1>5, <2>1
<1> QED
  BY <1>3, <1>4, <1>5 DEF Iterate

\* What the ask_ methods return is an answer or nothing.
LEMMA MeaningIsAnswer ==
  ASSUME NEW k \in Kind, NEW r \in Response
  PROVE  /\ Meaning(k, r) \in Answer \cup {"none"}
         /\ Meaning(k, r) \in {r.ans, "none"}
BY DEF Meaning, Response, Answer

\* Type correctness: no step of an asker, of the user or of a connection takes
\* the service out of its types; a cancelled dialog never becomes a result.
THEOREM TypeCorrect == Spec => []TypeOK
<1>1. Init => TypeOK
  <2>1. NoCast \in Cast
    BY SocketsHaveSize DEF NoCast, Cast
  <2> QED
    BY <2>1, EmptySeq DEF Init, TypeOK
<1>2. TypeOK /\ [Next]_vars => TypeOK'
  <2> SUFFICES ASSUME TypeOK, [Next]_vars PROVE TypeOK'
    OBVIOUS
  <2> USE DEF TypeOK
  <2>1. ASSUME NEW ws \in Socket, register_websocket(ws) \/ Disconnect(ws) \/ Collect(ws)
        PROVE  TypeOK'
    <3>1. CASE register_websocket(ws)
      <4>1. sockets' \subseteq Socket /\ open' \subseteq Socket
        BY <3>1 DEF register_websocket, Collected
      <4>2. PICK left \in [Question -> SUBSET sockets'] :
              cast' = [q \in Question |-> Joined(q, left[q])]
        BY <3>1 DEF register_websocket
      <4>3. \A q \in Question : cast'[q] \in Cast /\ cast'[q].cur = cast[q].cur
        BY <4>1, <4>2 DEF Joined, Cast
      <4>4. cast' \in [Question -> Cast]
        BY <4>2, <4>3
      <4> QED
        BY <3>1, <4>1, <4>3, <4>4 DEF register_websocket
    <3>2. CASE Disconnect(ws) \/ Collect(ws)
      BY <3>2 DEF Disconnect, Collect
    <3> QED
      BY <2>1, <3>1, <3>2
  <2>2. ASSUME NEW q \in Question, _ask_and_wait(q) PROVE TypeOK'
    <3>1. [NoCast EXCEPT !.left = sockets, !.size = Cardinality(sockets)] \in Cast
      BY SocketsHaveSize DEF NoCast, Cast
    <3>2. /\ sockets' \subseteq Socket /\ cast' \in [Question -> Cast]
          /\ \E p \in {"raised", "sending", "waiting"} : phase' = [phase EXCEPT ![q] = p]
          /\ \A k \in Question : phase'[k] = "sending" => cast'[k].cur # NoSocket
      BY <2>2, <3>1, IterateMoves DEF _ask_and_wait
    <3>3. history' \in Seq(Question)
      BY <2>2, AppendProperties DEF _ask_and_wait
    <3> QED
      BY <2>2, <3>2, <3>3 DEF _ask_and_wait
  <2>3. ASSUME NEW q \in Question, Sent(q) PROVE TypeOK'
    <3>1. /\ sockets' \subseteq Socket /\ cast' \in [Question -> Cast]
          /\ \E p \in {"raised", "sending", "waiting"} : phase' = [phase EXCEPT ![q] = p]
          /\ \A k \in Question : phase'[k] = "sending" => cast'[k].cur # NoSocket
      BY <2>3, IterateMoves DEF Sent
    <3>2. told' \in [Question -> SUBSET Socket]
      BY <2>3 DEF Sent
    <3> QED
      BY <2>3, <3>1, <3>2 DEF Sent
  <2>4. ASSUME NEW q \in Question, SendFails(q) PROVE TypeOK'
    <3>1. [cast[q] EXCEPT !.dead = @ \cup {cast[q].cur}] \in Cast
      BY <2>4 DEF SendFails, Cast
    <3>2. /\ sockets' \subseteq Socket /\ cast' \in [Question -> Cast]
          /\ \E p \in {"raised", "sending", "waiting"} : phase' = [phase EXCEPT ![q] = p]
          /\ \A k \in Question : phase'[k] = "sending" => cast'[k].cur # NoSocket
      BY <2>4, <3>1, IterateMoves DEF SendFails
    <3> QED
      BY <2>4, <3>2 DEF SendFails
  <2>5. ASSUME NEW q \in Question, Wake(q) PROVE TypeOK'
    BY <2>5, MeaningIsAnswer DEF Wake, Return, Forget
  <2>6. ASSUME NEW q \in Question, Timeout(q) PROVE TypeOK'
    BY <2>6 DEF Timeout, Return, Forget
  <2>7. ASSUME NEW q \in Question, NEW r \in Response, handle_response(q, r) PROVE TypeOK'
    BY <2>7 DEF handle_response, Resolve
  <2>8. ASSUME NEW a \in Answer, register_voice_answer(a) PROVE TypeOK'
    BY <2>8 DEF register_voice_answer, Resolve, Oldest, Response
  <2>9. CASE UNCHANGED vars
    BY <2>9 DEF vars
  <2> QED
    BY <2>1, <2>2, <2>3, <2>4, <2>5, <2>6, <2>7, <2>8, <2>9 DEF Next, Asker
<1> QED
  BY <1>1, <1>2, PTL DEF Spec

\* An iteration touches neither the entries nor the answers.
LEMMA IterateKeepsEntries ==
  ASSUME TypeOK, Entries, NEW q \in Question, phase[q] \in {"sending", "waiting"},
         NEW p \in {"raised", "sending", "waiting"}, phase' = [phase EXCEPT ![q] = p],
         UNCHANGED <<history, pending, future, result>>
  PROVE  Entries'
BY DEF TypeOK, Entries, PendingIsUnfinished

\* An asker that is back is forgotten, and nobody else is.
LEMMA ReturnKeepsEntries ==
  ASSUME TypeOK, Entries, NEW q \in Question, phase[q] = "waiting", NEW v,
         Return(q, v), Forget(q)
  PROVE  Entries'
<1> USE DEF TypeOK, Entries, Return, Forget
<1>1. PendingIsUnfinished'
  BY DEF PendingIsUnfinished
<1>2. (\A k \in Question : phase[k] # "done" => result[k] = "none")'
  BY DEF PendingIsUnfinished
<1> QED
  BY <1>1, <1>2

\* Resolving the future of a pending question breaks nothing.
LEMMA ResolveKeepsEntries ==
  ASSUME TypeOK, Entries, NEW q \in pending, NEW r, Resolve(q, r)
  PROVE  Entries'
BY DEF TypeOK, Entries, Resolve, PendingIsUnfinished

LEMMA EntriesInvariant == Spec => []Entries
<1>1. Init => Entries
  BY DEF Init, Entries, PendingIsUnfinished
<1>2. TypeOK /\ Entries /\ [Next]_vars => Entries'
  <2> SUFFICES ASSUME TypeOK, Entries, [Next]_vars PROVE Entries'
    OBVIOUS
  <2>1. ASSUME NEW ws \in Socket, register_websocket(ws) \/ Disconnect(ws) \/ Collect(ws)
        PROVE  Entries'
    BY <2>1 DEF register_websocket, Disconnect, Collect, Entries, PendingIsUnfinished
  <2>2. ASSUME NEW q \in Question, _ask_and_wait(q) PROVE Entries'
    <3>1. PICK p \in {"raised", "sending", "waiting"} : phase' = [phase EXCEPT ![q] = p]
      <4>1. [NoCast EXCEPT !.left = sockets, !.size = Cardinality(sockets)] \in Cast
        BY SocketsHaveSize DEF NoCast, Cast, TypeOK
      <4> QED
        BY <2>2, <4>1, IterateMoves DEF _ask_and_wait
    <3>2. /\ phase[q] = "new" /\ pending' = pending \cup {q}
          /\ UNCHANGED <<future, result>>
      BY <2>2 DEF _ask_and_wait
    <3>3. /\ DOMAIN history' = 1..Len(history) + 1 /\ DOMAIN history = 1..Len(history)
          /\ Len(history) \in Nat
          /\ history'[Len(history) + 1] = q
          /\ \A i \in 1..Len(history) : history'[i] = history[i]
      BY <2>2, AppendProperties, LenProperties DEF _ask_and_wait, TypeOK
    <3>4. \A i \in DOMAIN history : history[i] \in Question /\ history[i] # q
      BY <3>2, <3>3, ElementOfSeq DEF Entries, TypeOK
    <3>5. (\A i \in DOMAIN history : phase[history[i]] # "new")'
      BY <3>1, <3>3, <3>4 DEF Entries, TypeOK
    <3>6. (\A i, j \in DOMAIN history : history[i] = history[j] => i = j)'
      BY <3>3, <3>4 DEF Entries
    <3>7. PendingIsUnfinished'
      BY <3>1, <3>2 DEF Entries, TypeOK, PendingIsUnfinished
    <3>8. (\A k \in Question : phase[k] = "new" => future[k] = Unset /\ k \notin pending)'
      BY <3>1, <3>2 DEF Entries, TypeOK
    <3>9. (\A k \in Question : phase[k] # "done" => result[k] = "none")'
      BY <3>1, <3>2 DEF Entries, TypeOK
    <3> QED
      BY <3>5, <3>6, <3>7, <3>8, <3>9 DEF Entries
  <2>3. ASSUME NEW q \in Question, Sent(q) PROVE Entries'
    <3>1. \E p \in {"raised", "sending", "waiting"} : phase' = [phase EXCEPT ![q] = p]
      BY <2>3, IterateMoves DEF Sent, TypeOK
    <3> QED
      BY <2>3, <3>1, IterateKeepsEntries DEF Sent
  <2>4. ASSUME NEW q \in Question, SendFails(q) PROVE Entries'
    <3>1. [cast[q] EXCEPT !.dead = @ \cup {cast[q].cur}] \in Cast
      BY <2>4 DEF SendFails, Cast, TypeOK
    <3>2. \E p \in {"raised", "sending", "waiting"} : phase' = [phase EXCEPT ![q] = p]
      BY <2>4, <3>1, IterateMoves DEF SendFails
    <3> QED
      BY <2>4, <3>2, IterateKeepsEntries DEF SendFails
  <2>5. ASSUME NEW q \in Question, Wake(q) \/ Timeout(q) PROVE Entries'
    BY <2>5, ReturnKeepsEntries DEF Wake, Timeout
  <2>6. ASSUME NEW q \in Question, NEW r \in Response, handle_response(q, r) PROVE Entries'
    BY <2>6, ResolveKeepsEntries DEF handle_response
  <2>7. ASSUME NEW a \in Answer, register_voice_answer(a) PROVE Entries'
    <3>1. Oldest \subseteq pending
      BY DEF Oldest
    <3>2. CASE \E q \in Oldest : Resolve(q, [via |-> "voice", ans |-> a])
      BY <3>1, <3>2, ResolveKeepsEntries
    <3>3. CASE UNCHANGED <<phase, history, pending, future, result>>
      BY <3>3 DEF Entries, PendingIsUnfinished
    <3> QED
      BY <2>7, <3>2, <3>3 DEF register_voice_answer
  <2>8. CASE UNCHANGED vars
    BY <2>8 DEF vars, Entries, PendingIsUnfinished
  <2> QED
    BY <2>1, <2>2, <2>3, <2>4, <2>5, <2>6, <2>7, <2>8 DEF Next, Asker
<1> QED
  BY <1>1, <1>2, TypeCorrect, PTL DEF Spec

\* No agent waits for an answer to a question the service has forgotten, and no
\* question outlives its agent but one whose broadcast raised.
THEOREM PendingHolds == Spec => []PendingIsUnfinished
BY EntriesInvariant, PTL DEF Entries

\* A transcript answers the question that waits the longest: the history keeps
\* the order of the pending dictionary, and holds no question twice.
THEOREM VoiceServesOldest == Spec => VoiceServesTheOldest
<1>1. TypeOK /\ Entries /\ [Next]_vars =>
        [\A q \in Question : future[q] = Unset /\ future'[q].via = "voice" =>
           \A i, j \in DOMAIN history :
             history[j] = q /\ history[i] \in pending /\ future[history[i]] = Unset => j <= i]_vars
  <2> SUFFICES ASSUME TypeOK, Entries, [Next]_vars,
                      NEW q \in Question, future[q] = Unset, future'[q].via = "voice",
                      NEW i \in DOMAIN history, NEW j \in DOMAIN history,
                      history[j] = q, history[i] \in pending
               PROVE  j <= i
    OBVIOUS
  <2>1. PICK a \in Answer : register_voice_answer(a)
    <3>1. Unset.via # "voice"
      BY DEF Unset
    <3>2. future'[q] # future[q]
      BY <3>1
    <3>3. \A k \in Question, r \in Response : r.via = "dialog" => ~handle_response(k, r)
      <4> SUFFICES ASSUME NEW k \in Question, NEW r \in Response, r.via = "dialog",
                          handle_response(k, r)
                   PROVE  FALSE
        OBVIOUS
      <4>1. future' = [future EXCEPT ![k] = r]
        BY DEF handle_response, Resolve
      <4> QED
        BY <4>1, <3>2 DEF TypeOK
    <3>4. \A k \in Question : ~_ask_and_wait(k) /\ ~Asker(k)
      BY <3>2 DEF _ask_and_wait, Asker, Sent, SendFails, Wake, Timeout, Return
    <3>5. \A ws \in Socket : ~(register_websocket(ws) \/ Disconnect(ws) \/ Collect(ws))
      BY <3>2 DEF register_websocket, Disconnect, Collect
    <3> QED
      BY <3>2, <3>3, <3>4, <3>5 DEF Next, vars
  <2>2. PICK k \in Oldest : Resolve(k, [via |-> "voice", ans |-> a])
    <3>1. future' # future
      BY DEF Unset
    <3> QED
      BY <2>1, <3>1 DEF register_voice_answer
  <2>3. k = q
    BY <2>2 DEF Resolve, TypeOK, Unset
  <2>4. \A n \in 1..j - 1 : history[n] \notin pending
    BY <2>3 DEF Oldest, Entries
  <2>5. DOMAIN history = 1..Len(history) /\ Len(history) \in Nat
    BY LenProperties DEF TypeOK
  <2> QED
    BY <2>4, <2>5
<1> QED
  BY <1>1, TypeCorrect, EntriesInvariant, PTL DEF Spec, VoiceServesTheOldest

\* A connection that works is told, or met now, or lies ahead of the iterator, as
\* long as none was registered.
Ahead ==
  \A q \in Question : phase[q] = "sending" /\ ~cast[q].joined =>
    open \cap sockets \subseteq told[q] \cup cast[q].left \cup {cast[q].cur}

\* One round: what is met next lies ahead no more, and after the last round
\* nothing that works does.
LEMMA IterateTellsAll ==
  ASSUME TypeOK, Ahead, NEW q \in Question, NEW c \in Cast, Iterate(q, c),
         NEW t \in SUBSET Socket, told' = [told EXCEPT ![q] = t], UNCHANGED open,
         ~c.joined => open \cap sockets \subseteq t \cup c.left
  PROVE  /\ Ahead'
         /\ phase'[q] = "waiting" /\ ~c.joined => open \cap sockets \subseteq t
<1> USE DEF TypeOK
<1>1. sockets' \subseteq sockets
  BY DEF Iterate
<1>2. (\A k \in Question \ {q} : phase[k] = "sending" /\ ~cast[k].joined =>
         open \cap sockets \subseteq told[k] \cup cast[k].left \cup {cast[k].cur})'
  <2>1. \A k \in Question \ {q} :
          phase'[k] = phase[k] /\ cast'[k] = cast[k] /\ told'[k] = told[k]
    BY DEF Iterate
  <2> QED
    BY <1>1, <2>1 DEF Ahead
<1>3. CASE phase' = [phase EXCEPT ![q] = "raised"]
  BY <1>2, <1>3 DEF Ahead
<1>4. CASE phase' = [phase EXCEPT ![q] = "waiting"] /\ c.left \cap sockets \subseteq Collected
  BY <1>2, <1>4 DEF Ahead, Collected
<1>5. ASSUME NEW ws \in sockets, phase' = [phase EXCEPT ![q] = "sending"],
             cast' = [cast EXCEPT ![q] = [c EXCEPT !.cur = ws, !.left = @ \ {ws}]]
      PROVE  Ahead' /\ phase'[q] # "waiting"
  <2>1. cast'[q].cur = ws /\ cast'[q].left = c.left \ {ws} /\ cast'[q].joined = c.joined
    BY <1>5 DEF Cast
  <2>2. told'[q] = t
    OBVIOUS
  <2> QED
    BY <1>1, <1>2, <1>5, <2>1, <2>2 DEF Ahead
<1> QED
  BY <1>3, <1>4, <1>5 DEF Iterate

\* Every action keeps Ahead; those that end a broadcast have told everyone.
LEMMA BroadcastStep ==
  ASSUME TypeOK, Ahead, [Next]_vars
  PROVE  /\ Ahead'
         /\ \A q \in Question : phase[q] # "waiting" /\ phase'[q] = "waiting" /\ ~cast[q].joined =>
              open \cap sockets \subseteq told'[q]
<1> DEFINE Everyone ==
             \A q \in Question : phase[q] # "waiting" /\ phase'[q] = "waiting" /\ ~cast[q].joined =>
               open \cap sockets \subseteq told'[q]
<1>1. ASSUME NEW ws \in Socket, register_websocket(ws)
      PROVE  Ahead' /\ Everyone
  <2>1. \A q \in Question : \A left : phase[q] = "sending" => Joined(q, left).joined
    BY DEF Joined, TypeOK, Cast
  <2>2. \A q \in Question : phase[q] = "sending" => cast'[q].joined
    BY <1>1, <2>1 DEF register_websocket
  <2> QED
    BY <1>1, <2>2 DEF register_websocket, Ahead
<1>2. ASSUME NEW ws \in Socket, Disconnect(ws) \/ Collect(ws)
      PROVE  Ahead' /\ Everyone
  BY <1>2 DEF Disconnect, Collect, Ahead
<1>3. ASSUME NEW q \in Question, _ask_and_wait(q) PROVE Ahead' /\ Everyone
  <2> DEFINE c == [NoCast EXCEPT !.left = sockets, !.size = Cardinality(sockets)]
  <2>1. c \in Cast /\ c.left = sockets /\ ~c.joined
    BY SocketsHaveSize DEF NoCast, Cast, TypeOK
  <2>2. /\ Iterate(q, c) /\ told' = [told EXCEPT ![q] = told[q]] /\ open' = open
        /\ told[q] \in SUBSET Socket
    BY <1>3 DEF _ask_and_wait, TypeOK
  <2> HIDE DEF c
  <2>3. Ahead' /\ (phase'[q] = "waiting" => open \cap sockets \subseteq told[q])
    BY <2>1, <2>2, IterateTellsAll
  <2> QED
    BY <2>1, <2>2, <2>3, IterateMoves DEF TypeOK
<1>4. ASSUME NEW q \in Question, Sent(q) PROVE Ahead' /\ Everyone
  <2> DEFINE t == told[q] \cup {cast[q].cur}
  <2>1. /\ Iterate(q, cast[q]) /\ told' = [told EXCEPT ![q] = t] /\ open' = open
        /\ t \in SUBSET Socket /\ cast[q] \in Cast /\ phase[q] = "sending"
    BY <1>4 DEF Sent, TypeOK
  <2>2. ~cast[q].joined => open \cap sockets \subseteq t \cup cast[q].left
    BY <2>1 DEF Ahead
  <2> HIDE DEF t
  <2>3. Ahead' /\ (phase'[q] = "waiting" /\ ~cast[q].joined => open \cap sockets \subseteq t)
    BY <2>1, <2>2, IterateTellsAll
  <2> QED
    BY <2>1, <2>3, IterateMoves DEF TypeOK
<1>5. ASSUME NEW q \in Question, SendFails(q) PROVE Ahead' /\ Everyone
  <2> DEFINE c == [cast[q] EXCEPT !.dead = @ \cup {cast[q].cur}]
  <2>1. /\ Iterate(q, c) /\ told' = [told EXCEPT ![q] = told[q]] /\ open' = open
        /\ told[q] \in SUBSET Socket /\ c \in Cast /\ c.left = cast[q].left
        /\ c.joined = cast[q].joined /\ phase[q] = "sending" /\ cast[q].cur \notin open
    BY <1>5 DEF SendFails, TypeOK, Cast
  <2>2. ~c.joined => open \cap sockets \subseteq told[q] \cup c.left
    BY <2>1 DEF Ahead
  <2> HIDE DEF c
  <2>3. Ahead' /\ (phase'[q] = "waiting" /\ ~c.joined => open \cap sockets \subseteq told[q])
    BY <2>1, <2>2, IterateTellsAll
  <2> QED
    BY <2>1, <2>3, IterateMoves DEF TypeOK
<1>6. ASSUME NEW q \in Question, Wake(q) \/ Timeout(q) PROVE Ahead' /\ Everyone
  BY <1>6 DEF Wake, Timeout, Return, Ahead, TypeOK
<1>7. ASSUME NEW q \in Question, NEW r \in Response, handle_response(q, r)
      PROVE  Ahead' /\ Everyone
  BY <1>7 DEF handle_response, Resolve, Ahead
<1>8. ASSUME NEW a \in Answer, register_voice_answer(a) PROVE Ahead' /\ Everyone
  BY <1>8 DEF register_voice_answer, Resolve, Ahead
<1>9. CASE UNCHANGED vars
  BY <1>9 DEF vars, Ahead
<1> QED
  BY <1>1, <1>2, <1>3, <1>4, <1>5, <1>6, <1>7, <1>8, <1>9 DEF Next, Asker

\* A broadcast during which nobody connected has reached every registered
\* connection that works, whatever broke or was dropped while it was suspended.
THEOREM EveryoneAsked == Spec => EveryoneIsAsked
<1>1. Init => Ahead
  BY DEF Init, Ahead
<1>2. TypeOK /\ Ahead /\ [Next]_vars => Ahead'
  BY BroadcastStep
<1>3. TypeOK /\ Ahead /\ [Next]_vars =>
        [\A q \in Question :
           phase[q] # "waiting" /\ phase'[q] = "waiting" /\ ~cast[q].joined =>
             open \cap sockets \subseteq told'[q]]_vars
  BY BroadcastStep
<1> QED
  BY <1>1, <1>2, <1>3, TypeCorrect, PTL DEF Spec, EveryoneIsAsked

\* An iteration changes what Inquiry sees only when it raises: the question is
\* closed and its agent told nothing.
LEMMA IterateRefines ==
  ASSUME TypeOK, Entries, NEW q \in Question, phase[q] = "sending",
         NEW p \in {"raised", "sending", "waiting"}, phase' = [phase EXCEPT ![q] = p],
         UNCHANGED <<future, result>>
  PROVE  Asked!Next \/ UNCHANGED Asked!vars
<1> USE DEF TypeOK, Stage, Said, Reply, Waits
<1>1. CASE p = "raised"
  <2>1. Stage[q] = "asked" /\ Stage' = [Stage EXCEPT ![q] = "closed"]
    BY <1>1
  <2>2. Said' = [Said EXCEPT ![q] = "none"]
    BY <1>1
  <2>3. Reply' = Reply /\ Reply[q] = "none" /\ Reply \in [Question -> Answer \cup {"none"}]
    BY DEF Entries
  <2>4. Reply' = [Reply EXCEPT ![q] = "none"]
    BY <2>3
  <2> QED
    BY <2>1, <2>2, <2>4 DEF Asked!Next, Asked!Close
<1>2. CASE p # "raised"
  BY <1>2 DEF Asked!vars
<1> QED
  BY <1>1, <1>2

\* The return of an agent closes its question, with what was said or nothing.
LEMMA ReturnRefines ==
  ASSUME TypeOK, Entries, NEW q \in Question, phase[q] = "waiting",
         NEW v \in {future[q].ans, "none", "late"}, v # "cancelled",
         Return(q, v)
  PROVE  Asked!Close(q)
<1> USE DEF TypeOK, Return, Stage, Said, Reply, Waits
<1>1. Stage[q] = "asked" /\ Stage' = [Stage EXCEPT ![q] = "closed"]
  OBVIOUS
<1>2. Said' = [Said EXCEPT ![q] = "none"]
  OBVIOUS
<1> DEFINE w == IF v = "late" THEN "none" ELSE v
<1>3. Reply' = [Reply EXCEPT ![q] = w]
  OBVIOUS
<1>4. w \in {Said[q], "none"}
  OBVIOUS
<1> QED
  BY <1>1, <1>2, <1>3, <1>4 DEF Asked!Close

\* The first answer to a pending question is said, or comes too late to matter.
LEMMA ResolveRefines ==
  ASSUME TypeOK, Entries, NEW q \in Question, NEW r \in Response,
         future[q] = Unset, Resolve(q, r)
  PROVE  Asked!Next \/ UNCHANGED Asked!vars
<1> USE DEF TypeOK, Resolve, Stage, Said, Reply, Waits
<1>1. CASE Waits(q)
  <2>1. Stage[q] = "asked" /\ Stage' = Stage /\ Reply' = Reply
    BY <1>1
  <2>2. Said[q] = "none"
    BY <1>1 DEF Unset
  <2>3. future'[q].ans = r.ans /\ phase' = phase
    OBVIOUS
  <2>4. \A k \in Question : Said'[k] = IF k = q THEN r.ans ELSE Said[k]
    BY <1>1, <2>3
  <2>5. Said' = [Said EXCEPT ![q] = r.ans]
    BY <2>4
  <2>6. r.ans \in Answer \cup {"cancelled"}
    BY DEF Response
  <2> QED
    BY <2>1, <2>2, <2>5, <2>6 DEF Asked!Next, Asked!Say
<1>2. CASE ~Waits(q)
  BY <1>2 DEF Asked!vars
<1> QED
  BY <1>1, <1>2

\* The service keeps the promise of Inquiry: the first answer that comes while
\* a question is open is what its agent is told, if it is told anything, once.
THEOREM HitlImplementsInquiry == Spec => ImplementsInquiry
<1>1. Init => Asked!Init
  BY DEF Init, Asked!Init, Stage, Said, Reply, Waits
<1>2. TypeOK /\ Entries /\ [Next]_vars => [Asked!Next]_(Asked!vars)
  <2> SUFFICES ASSUME TypeOK, Entries, [Next]_vars
               PROVE  Asked!Next \/ UNCHANGED Asked!vars
    OBVIOUS
  <2>1. CASE UNCHANGED <<phase, future, result>>
    BY <2>1 DEF Asked!vars, Stage, Said, Reply, Waits
  <2>2. ASSUME NEW ws \in Socket, register_websocket(ws) \/ Disconnect(ws) \/ Collect(ws)
        PROVE  UNCHANGED <<phase, future, result>>
    BY <2>2 DEF register_websocket, Disconnect, Collect
  <2>3. ASSUME NEW q \in Question, _ask_and_wait(q)
        PROVE  Asked!Next \/ UNCHANGED Asked!vars
    <3> USE DEF TypeOK, Stage, Said, Reply, Waits
    <3>1. PICK p \in {"raised", "sending", "waiting"} : phase' = [phase EXCEPT ![q] = p]
      <4>1. [NoCast EXCEPT !.left = sockets, !.size = Cardinality(sockets)] \in Cast
        BY SocketsHaveSize DEF NoCast, Cast
      <4> QED
        BY <2>3, <4>1, IterateMoves DEF _ask_and_wait
    <3>2. p # "raised"
      BY <2>3, <3>1 DEF _ask_and_wait, Iterate, NoCast
    <3>3. /\ phase[q] = "new" /\ future[q] = Unset /\ UNCHANGED <<future, result>>
      BY <2>3 DEF _ask_and_wait, Entries
    <3>4. Stage[q] = "unasked" /\ Stage' = [Stage EXCEPT ![q] = "asked"]
      BY <3>1, <3>2, <3>3
    <3>5. Said' = Said /\ Reply' = Reply
      BY <3>1, <3>2, <3>3 DEF Unset
    <3> QED
      BY <3>4, <3>5 DEF Asked!Next, Asked!Ask
  <2>4. ASSUME NEW q \in Question, Sent(q) \/ SendFails(q)
        PROVE  Asked!Next \/ UNCHANGED Asked!vars
    <3>1. [cast[q] EXCEPT !.dead = @ \cup {cast[q].cur}] \in Cast \/ ~SendFails(q)
      BY DEF SendFails, Cast, TypeOK
    <3>2. \E p \in {"raised", "sending", "waiting"} : phase' = [phase EXCEPT ![q] = p]
      BY <2>4, <3>1, IterateMoves DEF Sent, SendFails, TypeOK
    <3>3. phase[q] = "sending" /\ UNCHANGED <<future, result>>
      BY <2>4 DEF Sent, SendFails
    <3> QED
      BY <3>2, <3>3, IterateRefines
  <2>5. ASSUME NEW q \in Question, Wake(q)
        PROVE  Asked!Close(q)
    <3>1. future[q] \in Response /\ kind[q] \in Kind
      BY <2>5 DEF Wake, TypeOK
    <3> QED
      BY <2>5, <3>1, MeaningIsAnswer, ReturnRefines DEF Wake, Answer
  <2>6. ASSUME NEW q \in Question, Timeout(q)
        PROVE  Asked!Close(q)
    BY <2>6, ReturnRefines DEF Timeout
  <2>7. ASSUME NEW q \in Question, NEW r \in Response, handle_response(q, r)
        PROVE  Asked!Next \/ UNCHANGED Asked!vars
    BY <2>7, ResolveRefines DEF handle_response
  <2>8. ASSUME NEW a \in Answer, register_voice_answer(a)
        PROVE  Asked!Next \/ UNCHANGED Asked!vars
    <3>1. [via |-> "voice", ans |-> a] \in Response /\ Oldest \subseteq Question
      BY DEF Response, Oldest, TypeOK
    <3> QED
      BY <2>1, <2>8, <3>1, ResolveRefines DEF register_voice_answer
  <2>9. UNCHANGED vars => UNCHANGED <<phase, future, result>>
    BY DEF vars
  <2> QED
    BY <2>1, <2>2, <2>3, <2>4, <2>5, <2>6, <2>7, <2>8, <2>9 DEF Next, Asker, Asked!Next
<1> QED
  BY <1>1, <1>2, TypeCorrect, EntriesInvariant, PTL
     DEF Spec, ImplementsInquiry, Asked!Spec
=============================================================================
