---------------------------- MODULE ServiceProofs ----------------------------
(***************************************************************************)
(* Proofs about four services of the server, which share no state and so   *)
(* are extended side by side, each for every value of its constants.       *)
(*                                                                         *)
(* CommandQueue.  The inductive invariant is QueueTypeOK and HandedOnce,   *)
(* strengthened by Provenance: whatever a response carries or a device     *)
(* holds was handed to that device, which is what keeps a report from      *)
(* touching a command that is still pending.                               *)
(*                                                                         *)
(* DeviceLink.  The inductive invariant is LinkTypeOK, Truth, Tracks and   *)
(* Counts.  Truth: a yes, on its way, in a future or in a result, is about *)
(* a gesture that has arrived, and was carried out unless it is blind.     *)
(* Tracks: the message of a command exists at most once, and not before it *)
(* was sent nor after it arrived.  Counts: what took effect or still may   *)
(* was attempted, and attempts are limited.                                *)
(*                                                                         *)
(* TaskProgress, the list of a session: types, what it shows, and that it  *)
(* implements TaskFlags.                                                   *)
(*                                                                         *)
(* ScreenPermission, the gate of a turn: its types, its verdicts, and that *)
(* the service's own requests are decided while no turn works.             *)
(***************************************************************************)
EXTENDS CommandQueue, DeviceLink, TaskProgress, ScreenPermission, FiniteSetTheorems, TLAPS

-----------------------------------------------------------------------------
(* The command queue *)

\* Every command a response carries or a device holds was handed to it, and an
\* absent command was handed to nobody.
Provenance ==
  /\ \A r \in responses : \A c \in r.cmds : r.to \in handed[c]
  /\ \A d \in Device : \A c \in held[d] : d \in handed[c]
  /\ \A c \in Command : handed[c] # {} => status[c] \notin {"absent", "pending"}
  /\ \A c \in Command : handed[c] \subseteq {addressee[c]}

\* Type correctness: every action leaves every variable of the queue, the
\* responses on their way and the devices' hands in its domain.
THEOREM QueueTypeCorrect == QueueSpec => []QueueTypeOK
<1>1. QueueInit => QueueTypeOK
  BY DEF QueueInit, QueueTypeOK, Status
<1>2. QueueTypeOK /\ [QueueNext]_queueVars => QueueTypeOK'
  <2> SUFFICES ASSUME QueueTypeOK, [QueueNext]_queueVars PROVE QueueTypeOK'
    OBVIOUS
  <2> USE DEF QueueTypeOK, Status
  <2>1. ASSUME NEW c \in Command, add_command(c) PROVE QueueTypeOK'
    BY <2>1 DEF add_command
  <2>2. ASSUME NEW c \in Command, GrowOld(c) PROVE QueueTypeOK'
    BY <2>2 DEF GrowOld
  <2>3. ASSUME NEW d \in Device, Poll(d) PROVE QueueTypeOK'
    <3>1. PendingFor(d) \subseteq Command
      BY DEF PendingFor
    <3>2. AfterCleanup \in [Command -> Status \cup {"absent"}]
      BY DEF AfterCleanup
    <3>3. [to |-> d, cmds |-> PendingFor(d)] \in [to : Device, cmds : SUBSET Command]
      BY <3>1
    <3>4. status' \in [Command -> Status \cup {"absent"}]
      BY <2>3, <3>2 DEF Poll, get_pending_commands
    <3> QED
      BY <2>3, <3>1, <3>3, <3>4 DEF Poll, get_pending_commands
  <2>4. ASSUME NEW r \in responses, ReceiveResponse(r) PROVE QueueTypeOK'
    BY <2>4 DEF ReceiveResponse
  <2>5. ASSUME NEW r \in responses, LoseResponse(r) PROVE QueueTypeOK'
    BY <2>5 DEF LoseResponse
  <2>6. ASSUME NEW d \in Device, NEW c \in held[d], mark_completed(d, c) PROVE QueueTypeOK'
    BY <2>6 DEF mark_completed, Known
  <2>7. ASSUME NEW d \in Device, NEW c \in held[d], mark_failed(d, c) PROVE QueueTypeOK'
    BY <2>7 DEF mark_failed, Known
  <2>8. ASSUME NEW d \in Device, NEW c \in held[d], LoseReport(d, c) PROVE QueueTypeOK'
    BY <2>8 DEF LoseReport
  <2>9. CASE UNCHANGED queueVars
    BY <2>9 DEF queueVars
  <2> QED
    BY <2>1, <2>2, <2>3, <2>4, <2>5, <2>6, <2>7, <2>8, <2>9 DEF QueueNext
<1> QED
  BY <1>1, <1>2, PTL DEF QueueSpec

\* What the hands and the responses hold was handed out, by every action.
LEMMA ProvenanceInvariant == QueueSpec => []Provenance
<1>1. QueueInit => Provenance
  BY DEF QueueInit, Provenance
<1>2. QueueTypeOK /\ Provenance /\ [QueueNext]_queueVars => Provenance'
  <2> SUFFICES ASSUME QueueTypeOK, Provenance, [QueueNext]_queueVars PROVE Provenance'
    OBVIOUS
  <2> USE DEF QueueTypeOK, Provenance, Status
  <2>1. ASSUME NEW c \in Command, add_command(c) PROVE Provenance'
    BY <2>1 DEF add_command, Known
  <2>2. ASSUME NEW c \in Command, GrowOld(c) PROVE Provenance'
    BY <2>2 DEF GrowOld
  <2>3. ASSUME NEW d \in Device, Poll(d) PROVE Provenance'
    <3>1. \A c \in PendingFor(d) : c \in Command /\ addressee[c] = d /\ handed[c] = {}
      BY DEF PendingFor, AfterCleanup, Expiring, Known
    <3>2. \A c \in Command : handed'[c] = IF c \in PendingFor(d) THEN handed[c] \cup {d}
                                                               ELSE handed[c]
      BY <2>3 DEF Poll, get_pending_commands
    <3>3. \A c \in Command : status'[c] = IF c \in PendingFor(d) THEN "executing"
                                                               ELSE AfterCleanup[c]
      BY <2>3 DEF Poll, get_pending_commands
    <3>4. \A c \in Command : handed[c] # {} => AfterCleanup[c] \notin {"absent", "pending"}
      BY DEF AfterCleanup
    <3>5. responses' = responses \cup {[to |-> d, cmds |-> PendingFor(d)]}
      BY <2>3 DEF Poll, get_pending_commands
    <3>6. \A r \in responses' : \A c \in r.cmds : r.to \in handed'[c]
      <4> SUFFICES ASSUME NEW r \in responses', NEW c \in r.cmds PROVE r.to \in handed'[c]
        OBVIOUS
      <4>1. CASE r \in responses
        BY <3>2, <4>1
      <4>2. CASE r = [to |-> d, cmds |-> PendingFor(d)]
        <5>1. r.to = d /\ c \in PendingFor(d)
          BY <4>2
        <5>2. c \in Command
          BY <3>1, <5>1
        <5>3. handed'[c] = handed[c] \cup {d}
          BY <3>2, <5>1, <5>2
        <5> QED
          BY <5>1, <5>3, Zenon
      <4> QED
        BY <3>5, <4>1, <4>2
    <3>7. \A e \in Device : \A c \in held'[e] : e \in handed'[c]
      BY <2>3, <3>2 DEF Poll, get_pending_commands
    <3>8. \A c \in Command : handed'[c] # {} => status'[c] \notin {"absent", "pending"}
      BY <3>2, <3>3, <3>4
    <3>9. \A c \in Command : handed'[c] \subseteq {addressee'[c]}
      BY <2>3, <3>1, <3>2 DEF Poll, get_pending_commands
    <3> QED
      BY <3>6, <3>7, <3>8, <3>9
  <2>4. ASSUME NEW r \in responses, ReceiveResponse(r) PROVE Provenance'
    BY <2>4 DEF ReceiveResponse
  <2>5. ASSUME NEW r \in responses, LoseResponse(r) PROVE Provenance'
    BY <2>5 DEF LoseResponse
  <2>6. ASSUME NEW d \in Device, NEW c \in held[d], mark_completed(d, c) PROVE Provenance'
    BY <2>6 DEF mark_completed, Known
  <2>7. ASSUME NEW d \in Device, NEW c \in held[d], mark_failed(d, c) PROVE Provenance'
    BY <2>7 DEF mark_failed, Known
  <2>8. ASSUME NEW d \in Device, NEW c \in held[d], LoseReport(d, c) PROVE Provenance'
    BY <2>8 DEF LoseReport
  <2>9. CASE UNCHANGED queueVars
    BY <2>9 DEF queueVars
  <2> QED
    BY <2>1, <2>2, <2>3, <2>4, <2>5, <2>6, <2>7, <2>8, <2>9 DEF QueueNext
<1> QED
  BY <1>1, <1>2, QueueTypeCorrect, PTL DEF QueueSpec

\* A command is handed out once at most and only to its addressee, for any
\* number of commands and devices.
THEOREM HandedOnceHolds == QueueSpec => []HandedOnce
<1>1. QueueInit => HandedOnce
  BY DEF QueueInit, HandedOnce
<1>2. QueueTypeOK /\ Provenance /\ HandedOnce /\ [QueueNext]_queueVars => HandedOnce'
  <2> SUFFICES ASSUME QueueTypeOK, Provenance, HandedOnce, [QueueNext]_queueVars PROVE HandedOnce'
    OBVIOUS
  <2> USE DEF QueueTypeOK, Provenance, HandedOnce, Status
  <2>1. ASSUME NEW c \in Command, add_command(c) PROVE HandedOnce'
    BY <2>1 DEF add_command, Known
  <2>2. ASSUME NEW c \in Command, GrowOld(c) PROVE HandedOnce'
    BY <2>2 DEF GrowOld
  <2>3. ASSUME NEW d \in Device, Poll(d) PROVE HandedOnce'
    <3>1. \A c \in PendingFor(d) : c \in Command /\ addressee[c] = d /\ handed[c] = {}
      BY DEF PendingFor, AfterCleanup, Expiring, Known
    <3>2. \A r \in responses : r.cmds \cap PendingFor(d) = {}
      BY <3>1
    <3>3. \A e \in Device : held[e] \cap PendingFor(d) = {}
      BY <3>1
    <3>4. \A c \in Command : handed'[c] # {} => status'[c] # "pending"
      BY <2>3, <3>1 DEF Poll, get_pending_commands, PendingFor, AfterCleanup, Expiring, Known
    <3>5. \A c \in Command : handed'[c] \subseteq {addressee'[c]}
      BY <2>3, <3>1 DEF Poll, get_pending_commands
    <3>6. \A r \in responses' : r \in responses \/ r = [to |-> d, cmds |-> PendingFor(d)]
      BY <2>3 DEF Poll, get_pending_commands
    <3>7. \A r1, r2 \in responses' : r1 # r2 => r1.cmds \cap r2.cmds = {}
      BY <3>2, <3>6
    <3>8. \A r \in responses' : \A e \in Device : r.cmds \cap held'[e] = {}
      BY <2>3, <3>3, <3>6 DEF Poll, get_pending_commands
    <3> QED
      BY <3>4, <3>5, <3>7, <3>8
  <2>4. ASSUME NEW r \in responses, ReceiveResponse(r) PROVE HandedOnce'
    BY <2>4 DEF ReceiveResponse
  <2>5. ASSUME NEW r \in responses, LoseResponse(r) PROVE HandedOnce'
    BY <2>5 DEF LoseResponse
  <2>6. ASSUME NEW d \in Device, NEW c \in held[d], mark_completed(d, c) PROVE HandedOnce'
    BY <2>6 DEF mark_completed, Known
  <2>7. ASSUME NEW d \in Device, NEW c \in held[d], mark_failed(d, c) PROVE HandedOnce'
    BY <2>7 DEF mark_failed, Known
  <2>8. ASSUME NEW d \in Device, NEW c \in held[d], LoseReport(d, c) PROVE HandedOnce'
    BY <2>8 DEF LoseReport
  <2>9. CASE UNCHANGED queueVars
    BY <2>9 DEF queueVars
  <2> QED
    BY <2>1, <2>2, <2>3, <2>4, <2>5, <2>6, <2>7, <2>8, <2>9 DEF QueueNext
<1> QED
  BY <1>1, <1>2, QueueTypeCorrect, ProvenanceInvariant, PTL DEF QueueSpec

\* A command whose success was reported is in nobody's hands and on no wire.
SettledForGood ==
  \A c \in Command : status[c] = "completed" =>
    /\ \A r \in responses : c \notin r.cmds
    /\ \A d \in Device : c \notin held[d]

\* No report is outstanding for a completed command, because each command has
\* one holder and is either on the wire or in that holder's hands.
LEMMA SettledInvariant == QueueSpec => []SettledForGood
<1>1. QueueInit => SettledForGood
  BY DEF QueueInit, SettledForGood
<1>2. QueueTypeOK /\ Provenance /\ HandedOnce /\ SettledForGood /\ [QueueNext]_queueVars => SettledForGood'
  <2> SUFFICES ASSUME QueueTypeOK, Provenance, HandedOnce, SettledForGood, [QueueNext]_queueVars PROVE SettledForGood'
    OBVIOUS
  <2> USE DEF QueueTypeOK, Status, SettledForGood
  <2>1. ASSUME NEW c \in Command, add_command(c) PROVE SettledForGood'
    BY <2>1 DEF add_command
  <2>2. ASSUME NEW c \in Command, GrowOld(c) PROVE SettledForGood'
    BY <2>2 DEF GrowOld
  <2>3. ASSUME NEW d \in Device, Poll(d) PROVE SettledForGood'
    <3>1. \A c \in PendingFor(d) : status'[c] = "executing"
      BY <2>3 DEF Poll, get_pending_commands, PendingFor
    <3>2. \A c \in Command : status'[c] = "completed" => status[c] = "completed"
      BY <2>3 DEF Poll, get_pending_commands, AfterCleanup
    <3>3. \A c \in Command : status'[c] = "completed" => c \notin PendingFor(d)
      BY <3>1
    <3> QED
      BY <2>3, <3>2, <3>3 DEF Poll, get_pending_commands
  <2>4. ASSUME NEW r \in responses, ReceiveResponse(r) PROVE SettledForGood'
    BY <2>4 DEF ReceiveResponse
  <2>5. ASSUME NEW r \in responses, LoseResponse(r) PROVE SettledForGood'
    BY <2>5 DEF LoseResponse
  <2>6. ASSUME NEW d \in Device, NEW c \in held[d], mark_completed(d, c) PROVE SettledForGood'
    <3>1. \A e \in Device : c \in held[e] => e = d
      BY DEF Provenance
    <3>2. \A r \in responses : c \notin r.cmds
      BY DEF HandedOnce
    <3> QED
      BY <2>6, <3>1, <3>2 DEF mark_completed, Known
  <2>7. ASSUME NEW d \in Device, NEW c \in held[d], mark_failed(d, c) PROVE SettledForGood'
    BY <2>7 DEF mark_failed, Known
  <2>8. ASSUME NEW d \in Device, NEW c \in held[d], LoseReport(d, c) PROVE SettledForGood'
    BY <2>8 DEF LoseReport
  <2>9. CASE UNCHANGED queueVars
    BY <2>9 DEF queueVars
  <2> QED
    BY <2>1, <2>2, <2>3, <2>4, <2>5, <2>6, <2>7, <2>8, <2>9 DEF QueueNext
<1> QED
  BY <1>1, <1>2, QueueTypeCorrect, ProvenanceInvariant, HandedOnceHolds, PTL DEF QueueSpec

\* A reported success is never overwritten: not by the cleanup of a later poll,
\* and not by another report, because none is outstanding.
THEOREM CompletedStays == QueueSpec => CompletedIsFinal
<1>1. QueueTypeOK /\ SettledForGood /\ [QueueNext]_queueVars
        => [\A c \in Command : status[c] = "completed" => status'[c] = "completed"]_queueVars
  <2> SUFFICES ASSUME QueueTypeOK, SettledForGood, [QueueNext]_queueVars,
                      NEW c \in Command, status[c] = "completed"
               PROVE  status'[c] = "completed"
    OBVIOUS
  <2> USE DEF QueueTypeOK, SettledForGood
  <2>1. ASSUME NEW k \in Command, add_command(k) \/ GrowOld(k) PROVE status'[c] = "completed"
    BY <2>1 DEF add_command, GrowOld, Known
  <2>2. ASSUME NEW d \in Device, Poll(d) PROVE status'[c] = "completed"
    BY <2>2 DEF Poll, get_pending_commands, PendingFor, AfterCleanup, Expiring
  <2>3. ASSUME NEW r \in responses, ReceiveResponse(r) \/ LoseResponse(r)
        PROVE status'[c] = "completed"
    BY <2>3 DEF ReceiveResponse, LoseResponse
  <2>4. ASSUME NEW d \in Device, NEW k \in held[d],
               mark_completed(d, k) \/ mark_failed(d, k) \/ LoseReport(d, k)
        PROVE status'[c] = "completed"
    BY <2>4 DEF mark_completed, mark_failed, LoseReport, Known
  <2>5. CASE UNCHANGED queueVars
    BY <2>5 DEF queueVars
  <2> QED
    BY <2>1, <2>2, <2>3, <2>4, <2>5 DEF QueueNext
<1> QED
  BY <1>1, QueueTypeCorrect, SettledInvariant, PTL DEF QueueSpec, CompletedIsFinal

\* A poll hands out no command that is too old: its cleanup has marked every such
\* command before it looks for the pending ones, for any number of devices that poll.
THEOREM NeverHandedLateHolds == QueueSpec => NeverHandedLate
<1>1. QueueTypeOK /\ [QueueNext]_queueVars
        => [\A c \in Command : handed'[c] # handed[c] => c \notin overdue]_queueVars
  <2> SUFFICES ASSUME QueueTypeOK, [QueueNext]_queueVars,
                      NEW c \in Command, handed'[c] # handed[c]
               PROVE  c \notin overdue
    OBVIOUS
  <2> USE DEF QueueTypeOK
  <2>1. ASSUME NEW d \in Device, Poll(d) PROVE c \notin overdue
    <3>1. c \in PendingFor(d)
      BY <2>1 DEF Poll, get_pending_commands
    <3> QED
      BY <3>1 DEF PendingFor, AfterCleanup, Expiring, Known
  <2>2. ASSUME NEW k \in Command, add_command(k) \/ GrowOld(k) PROVE FALSE
    BY <2>2 DEF add_command, GrowOld
  <2>3. ASSUME NEW r \in responses, ReceiveResponse(r) \/ LoseResponse(r) PROVE FALSE
    BY <2>3 DEF ReceiveResponse, LoseResponse
  <2>4. ASSUME NEW d \in Device, NEW k \in held[d],
               mark_completed(d, k) \/ mark_failed(d, k) \/ LoseReport(d, k)
        PROVE  FALSE
    BY <2>4 DEF mark_completed, mark_failed, LoseReport
  <2>5. CASE UNCHANGED queueVars
    BY <2>5 DEF queueVars
  <2> QED
    BY <2>1, <2>2, <2>3, <2>4, <2>5 DEF QueueNext
<1> QED
  BY <1>1, QueueTypeCorrect, PTL DEF QueueSpec, NeverHandedLate

\* The queue implements the delivery promise of CommandDelivery: every step of
\* it queues one command, is one poll that takes some commands and drops
\* others, or changes nobody's fate.
THEOREM QueueImplementsDelivery == QueueSpec => ImplementsDelivery
<1>1. QueueInit => Delivery!Init
  BY DEF QueueInit, Delivery!Init, Fate, Known, QueueTypeOK
<1>2. QueueTypeOK /\ Provenance /\ [QueueNext]_queueVars => [Delivery!Next]_(Delivery!vars)
  <2> SUFFICES ASSUME QueueTypeOK, Provenance, [QueueNext]_queueVars
               PROVE  Delivery!Next \/ UNCHANGED Delivery!vars
    OBVIOUS
  <2> USE DEF QueueTypeOK, Status, Provenance
  <2>1. ASSUME NEW c \in Command, add_command(c) PROVE Delivery!Queue(c)
    BY <2>1 DEF add_command, Delivery!Queue, Fate, Known
  <2>2. ASSUME NEW c \in Command, GrowOld(c) PROVE UNCHANGED Delivery!vars
    BY <2>2 DEF GrowOld, Delivery!vars, Fate, Known
  <2>3. ASSUME NEW d \in Device, Poll(d)
        PROVE  \E S, D \in SUBSET Command : Delivery!Poll(d, S, D)
    <3> DEFINE S == PendingFor(d)
               D == {c \in Expiring : status[c] = "pending"}
    <3>1. S \in SUBSET Command /\ D \in SUBSET Command
      BY DEF PendingFor, Expiring
    <3>2. S \cap D = {}
      BY DEF PendingFor, AfterCleanup
    <3>3. \A c \in S \cup D : Fate[c] = "waiting"
      BY DEF PendingFor, AfterCleanup, Expiring, Fate, Known
    <3>4. handed' = [c \in Command |-> IF c \in S THEN {d} ELSE handed[c]]
      <4>1. \A c \in S : handed[c] = {}
        BY DEF PendingFor, AfterCleanup, Expiring, Known
      <4>2. \A c \in S : handed[c] \cup {d} = {d}
        BY <4>1
      <4>3. handed' = [c \in Command |-> IF c \in S THEN handed[c] \cup {d} ELSE handed[c]]
        BY <2>3 DEF Poll, get_pending_commands
      <4> HIDE DEF S
      <4> QED
        BY <4>2, <4>3
    <3>5. \A c \in Command : Fate'[c] = IF c \in S THEN "taken"
                                   ELSE IF c \in D THEN "dropped" ELSE Fate[c]
      <4> SUFFICES ASSUME NEW c \in Command
                   PROVE  Fate'[c] = IF c \in S THEN "taken"
                                     ELSE IF c \in D THEN "dropped" ELSE Fate[c]
        OBVIOUS
      <4>1. status'[c] = IF c \in S THEN "executing" ELSE AfterCleanup[c]
        BY <2>3 DEF Poll, get_pending_commands
      <4>2. CASE c \in S
        BY <3>4, <4>1, <4>2 DEF Fate, Known
      <4>3. CASE c \in D
        <5>1. handed[c] = {} /\ AfterCleanup[c] = "expired"
          BY <4>3 DEF AfterCleanup
        <5> QED
          BY <3>2, <3>4, <4>1, <4>3, <5>1 DEF Fate, Known
      <4>4. CASE c \notin S /\ c \notin D
        <5>1. handed'[c] = handed[c]
          BY <3>4, <4>4
        <5>2. status'[c] = AfterCleanup[c]
          BY <4>1, <4>4
        <5>3. (status'[c] = "absent") <=> (status[c] = "absent")
          BY <5>2 DEF AfterCleanup, Expiring, Known
        <5>4. (status'[c] = "pending") <=> (status[c] = "pending")
          BY <5>2, <4>4 DEF AfterCleanup, Expiring, Known
        <5> QED
          BY <4>4, <5>1, <5>3, <5>4 DEF Fate, Known
      <4> QED
        BY <4>2, <4>3, <4>4
    <3>6. Fate' = [c \in Command |-> IF c \in S THEN "taken"
                                   ELSE IF c \in D THEN "dropped" ELSE Fate[c]]
      BY <3>5 DEF Fate
    <3>7. /\ \A c \in S : addressee[c] = d
          /\ UNCHANGED addressee
      BY <2>3 DEF PendingFor, Poll, get_pending_commands
    <3>8. Delivery!Poll(d, S, D)
      BY <3>2, <3>3, <3>4, <3>6, <3>7 DEF Delivery!Poll
    <3> QED
      BY <3>1, <3>8
  <2>4. ASSUME NEW r \in responses, ReceiveResponse(r) \/ LoseResponse(r)
        PROVE  UNCHANGED Delivery!vars
    BY <2>4 DEF ReceiveResponse, LoseResponse, Delivery!vars, Fate, Known
  <2>5. ASSUME NEW d \in Device, NEW c \in held[d],
               mark_completed(d, c) \/ mark_failed(d, c) \/ LoseReport(d, c)
        PROVE  UNCHANGED Delivery!vars
    <3>1. c \in Command /\ handed[c] # {} /\ status[c] # "absent"
      OBVIOUS
    <3>2. handed' = handed /\ addressee' = addressee /\ status'[c] # "absent"
      BY <2>5, <3>1 DEF mark_completed, mark_failed, LoseReport, Known
    <3>3. \A k \in Command : k # c => status'[k] = status[k]
      BY <2>5 DEF mark_completed, mark_failed, LoseReport
    <3>4. Fate' = Fate
      BY <3>1, <3>2, <3>3 DEF Fate, Known
    <3> QED
      BY <3>2, <3>4 DEF Delivery!vars
  <2>6. CASE UNCHANGED queueVars
    BY <2>6 DEF queueVars, Delivery!vars, Fate, Known
  <2> QED
    BY <2>1, <2>2, <2>3, <2>4, <2>5, <2>6 DEF QueueNext, Delivery!Next
<1> QED
  BY <1>1, <1>2, QueueTypeCorrect, ProvenanceInvariant, PTL
     DEF QueueSpec, ImplementsDelivery, Delivery!Spec

-----------------------------------------------------------------------------
(* The device link *)

\* What a yes says of a gesture.
Verified(c) == phone[c] # "away" /\ (c \in Blind \/ executed[c] > 0)

Truth ==
  /\ \A c \in Gesture : call[c] = "ok" \/ ack[c] = "yes" => Verified(c)
  /\ \A a \in acks : a.success = "yes" => Verified(a.cmd)

Tracks ==
  /\ \A c \in Gesture : call[c] \in {"new", "refused", "sending"} => phone[c] = "away"
  /\ \A m \in wire : phone[m[2]] = "away" /\ call[m[2]] \in {"waiting", "ok", "failed"}
  /\ \A m, n \in wire : m[2] = n[2] => m = n

Counts ==
  \A c \in Gesture : /\ executed[c] + loose[c] <= tries[c] /\ tries[c] <= Attempts[c]
                     /\ phone[c] = "away" => tries[c] = 0

\* The three counters of a gesture become n, l and e: what was attempted is what may take
\* or took effect, and nothing is attempted beyond the limit.
Changed(c, n, l, e) ==
  /\ tries' = [tries EXCEPT ![c] = n] /\ loose' = [loose EXCEPT ![c] = l]
  /\ executed' = [executed EXCEPT ![c] = e]
  /\ e >= executed[c] /\ e + l - n <= executed[c] + loose[c] - tries[c]
  /\ e <= executed[c] + 1
  /\ n <= tries[c] \/ n <= Attempts[c]
  /\ n >= tries[c]

\* What each step of the phone does: it changes nothing but the gesture's own state
\* there, and adds its acknowledgement.
LEMMA PhoneStep ==
  ASSUME LinkTypeOK, NEW c \in Gesture, Phone(c)
  PROVE  /\ UNCHANGED <<server, call, via, _pending_acks, ack, wire>>
         /\ \E p \in {phone[c], "answered"} : phone' = [phone EXCEPT ![c] = p]
         /\ phone[c] = "away" => loose[c] > 0 /\ phone' = phone
         /\ \E n, l, e \in Nat : Changed(c, n, l, e)
         /\ acks' \subseteq acks \cup {[cmd |-> c, success |-> r] : r \in {"yes", "no"}}
         /\ \A a \in acks' \ acks : a.success = "yes" =>
              phone'[c] = "answered" /\ (c \in Blind \/ executed'[c] > 0)
<1> USE DEF LinkTypeOK, Phone, server
<1>1. retryCount \in Nat /\ Attempts \in [Gesture -> Nat]
  BY RetriesAreFinite DEF Attempts, LinkCommand
<1>2. CASE Declines(c)
  <2>1. /\ phone' = [phone EXCEPT ![c] = "answered"] /\ phone[c] = "working"
        /\ tries' = [tries EXCEPT ![c] = tries[c]] /\ loose' = [loose EXCEPT ![c] = loose[c]]
        /\ executed' = [executed EXCEPT ![c] = executed[c]]
        /\ acks' = acks \cup {[cmd |-> c, success |-> "no"]}
        /\ UNCHANGED <<server, call, via, _pending_acks, ack, wire>>
    BY <1>2 DEF Declines, Answered
  <2>2. \E n, l, e \in Nat : Changed(c, n, l, e)
    <3> WITNESS tries[c] \in Nat, loose[c] \in Nat, executed[c] \in Nat
    <3> QED
      BY <1>1, <2>1 DEF Changed
  <2> QED
    BY <2>1, <2>2
<1>3. CASE Completes(c)
  <2>1. /\ phone' = [phone EXCEPT ![c] = "answered"] /\ phone[c] = "working"
        /\ tries' = [tries EXCEPT ![c] = tries[c] + 1] /\ tries[c] + 1 <= Attempts[c]
        /\ loose' = [loose EXCEPT ![c] = loose[c]]
        /\ executed' = [executed EXCEPT ![c] = executed[c] + 1]
        /\ acks' = acks \cup {[cmd |-> c, success |-> "yes"]}
        /\ UNCHANGED <<server, call, via, _pending_acks, ack, wire>>
    BY <1>1, <1>3 DEF Completes, Attempt, TakesEffect, Answered
  <2>2. \E n, l, e \in Nat : Changed(c, n, l, e)
    <3> WITNESS tries[c] + 1 \in Nat, loose[c] \in Nat, executed[c] + 1 \in Nat
    <3> QED
      BY <1>1, <2>1 DEF Changed
  <2> QED
    BY <2>1, <2>2
<1>4. CASE FailsBlindly(c)
  <2>1. /\ phone' = [phone EXCEPT ![c] = "answered"] /\ phone[c] = "working" /\ c \in Blind
        /\ tries' = [tries EXCEPT ![c] = tries[c] + 1] /\ tries[c] + 1 <= Attempts[c]
        /\ loose' = [loose EXCEPT ![c] = loose[c]]
        /\ executed' = [executed EXCEPT ![c] = executed[c]]
        /\ acks' = acks \cup {[cmd |-> c, success |-> "yes"]}
        /\ UNCHANGED <<server, call, via, _pending_acks, ack, wire>>
    BY <1>1, <1>4 DEF FailsBlindly, Attempt, Answered
  <2>2. \E n, l, e \in Nat : Changed(c, n, l, e)
    <3> WITNESS tries[c] + 1 \in Nat, loose[c] \in Nat, executed[c] \in Nat
    <3> QED
      BY <1>1, <2>1 DEF Changed
  <2> QED
    BY <2>1, <2>2
<1>5. CASE Fails(c)
  <2>1. /\ phone[c] = "working" /\ UNCHANGED <<server, call, via, _pending_acks, ack, wire>>
        /\ tries' = [tries EXCEPT ![c] = tries[c] + 1] /\ tries[c] + 1 <= Attempts[c]
    BY <1>1, <1>5 DEF Fails, Attempt
  <2>2. /\ \E p \in {phone[c], "answered"} : phone' = [phone EXCEPT ![c] = p]
        /\ acks' \subseteq acks \cup {[cmd |-> c, success |-> "no"]}
    BY <1>5 DEF Fails, Answered
  <2>3. \E l, e \in Nat :
          /\ loose' = [loose EXCEPT ![c] = l] /\ executed' = [executed EXCEPT ![c] = e]
          /\ e >= executed[c] /\ e <= executed[c] + 1 /\ e + l <= executed[c] + loose[c] + 1
    <3>1. CASE UNCHANGED <<loose, executed>>
      <4> WITNESS loose[c] \in Nat, executed[c] \in Nat
      <4> QED
        BY <3>1
    <3>2. CASE TakesEffect(c) /\ UNCHANGED loose
      <4> WITNESS loose[c] \in Nat, executed[c] + 1 \in Nat
      <4> QED
        BY <3>2 DEF TakesEffect
    <3>3. CASE loose' = [loose EXCEPT ![c] = @ + 1] /\ UNCHANGED executed
      <4> WITNESS loose[c] + 1 \in Nat, executed[c] \in Nat
      <4> QED
        BY <3>3
    <3> QED
      BY <1>5, <3>1, <3>2, <3>3 DEF Fails
  <2>4. \E n, l, e \in Nat : Changed(c, n, l, e)
    <3>1. PICK l, e \in Nat :
            /\ loose' = [loose EXCEPT ![c] = l] /\ executed' = [executed EXCEPT ![c] = e]
            /\ e >= executed[c] /\ e <= executed[c] + 1 /\ e + l <= executed[c] + loose[c] + 1
      BY <2>3
    <3> WITNESS tries[c] + 1 \in Nat, l \in Nat, e \in Nat
    <3> QED
      BY <1>1, <2>1, <3>1 DEF Changed
  <2>5. /\ acks' \subseteq acks \cup {[cmd |-> c, success |-> r] : r \in {"yes", "no"}}
        /\ \A a \in acks' \ acks : a.success # "yes"
    BY <2>2
  <2>6. phone[c] # "away"
    BY <2>1
  <2> QED
    BY <2>1, <2>2, <2>4, <2>5, <2>6
<1>6. CASE ComesLate(c)
  <2>1. /\ phone' = [phone EXCEPT ![c] = phone[c]] /\ loose[c] > 0 /\ phone' = phone
        /\ tries' = [tries EXCEPT ![c] = tries[c]]
        /\ loose' = [loose EXCEPT ![c] = loose[c] - 1] /\ loose[c] - 1 \in Nat
        /\ executed' = [executed EXCEPT ![c] = executed[c] + 1]
        /\ acks' = acks
        /\ UNCHANGED <<server, call, via, _pending_acks, ack, wire>>
    BY <1>6 DEF ComesLate, TakesEffect
  <2>2. \E n, l, e \in Nat : Changed(c, n, l, e)
    <3> USE <2>1
    <3> WITNESS tries[c] \in Nat, loose[c] - 1 \in Nat, executed[c] + 1 \in Nat
    <3> QED
      BY <1>1, <2>1 DEF Changed
  <2> QED
    BY <2>1, <2>2
<1> QED
  BY <1>2, <1>3, <1>4, <1>5, <1>6

\* Type correctness, by every step of a connection, a caller or the phone; an
\* acknowledgement is expected for gestures only.
THEOREM LinkTypeCorrect == LinkSpec => []LinkTypeOK
<1>1. LinkInit => LinkTypeOK
  <2> SUFFICES ASSUME LinkInit PROVE LinkTypeOK
    OBVIOUS
  <2>1. /\ call \in [LinkCommand -> {"new", "refused", "sending", "waiting", "ok", "failed"}]
        /\ via \in [LinkCommand -> Socket \cup {NoSocket}]
        /\ handler \in [Socket -> {"new", "running", "over"}]
    BY DEF LinkInit
  <2>2. /\ ack \in [Gesture -> {"none", "yes", "no"}]
        /\ phone \in [Gesture -> {"away", "working", "answered"}]
    BY DEF LinkInit
  <2>3. /\ tries \in [Gesture -> Nat] /\ loose \in [Gesture -> Nat]
        /\ executed \in [Gesture -> Nat]
    BY DEF LinkInit
  <2>4. /\ open \subseteq Socket /\ _websocket \in Socket \cup {NoSocket}
        /\ connected \in BOOLEAN /\ _pending_acks \subseteq Gesture
        /\ wire \subseteq Socket \X Gesture /\ acks \subseteq Ack
    BY DEF LinkInit
  <2> QED
    BY <2>1, <2>2, <2>3, <2>4 DEF LinkTypeOK
<1>2. LinkTypeOK /\ [LinkNext]_linkVars => LinkTypeOK'
  <2> SUFFICES ASSUME LinkTypeOK, [LinkNext]_linkVars PROVE LinkTypeOK'
    OBVIOUS
  <2> USE DEF LinkTypeOK, server, reached, onPhone
  <2>1. ASSUME NEW ws \in Socket, Connect(ws) \/ CleanUp(ws) PROVE LinkTypeOK'
    BY <2>1 DEF Connect, CleanUp
  <2>2. ASSUME NEW ws \in Socket, Break(ws) PROVE LinkTypeOK'
    BY <2>2 DEF Break
  <2>3. CASE set_device_connection \/ disconnect_device
    BY <2>3 DEF set_device_connection, disconnect_device
  <2>4. ASSUME NEW c \in LinkCommand, Refuse(c) \/ Send(c) PROVE LinkTypeOK'
    BY <2>4 DEF Refuse, Send, Becomes
  <2>5. ASSUME NEW c \in LinkCommand, Sent(c) PROVE LinkTypeOK'
    <3>1. wire' \subseteq Socket \X Gesture
      BY <2>5 DEF Sent
    <3>2. call' \in [LinkCommand -> {"new", "refused", "sending", "waiting", "ok", "failed"}]
      BY <2>5 DEF Sent, Becomes
    <3> QED
      BY <2>5, <3>1, <3>2 DEF Sent
  <2>6. ASSUME NEW c \in LinkCommand, SendFails(c) \/ Acknowledged(c) \/ Timeout(c) PROVE LinkTypeOK'
    BY <2>6 DEF SendFails, Acknowledged, Timeout, Becomes, Forget
  <2>7. ASSUME NEW c \in Gesture, Phone(c) PROVE LinkTypeOK'
    <3>1. acks' \subseteq Ack
      BY <2>7, PhoneStep DEF Ack
    <3> QED
      BY <2>7, <3>1, PhoneStep DEF Changed
  <2>8. ASSUME NEW a \in acks, LoseAck(a) PROVE LinkTypeOK'
    BY <2>8 DEF LoseAck
  <2>9. ASSUME NEW a \in acks, handle_gesture_ack(a) PROVE LinkTypeOK'
    <3>1. a.cmd \in Gesture /\ a.success \in {"yes", "no"}
      BY DEF Ack
    <3> QED
      BY <2>9, <3>1 DEF handle_gesture_ack
  <2>10. ASSUME NEW ws \in Socket, NEW c \in Gesture, Arrive(ws, c) PROVE LinkTypeOK'
    BY <2>10 DEF Arrive
  <2>11. CASE UNCHANGED linkVars
    BY <2>11 DEF linkVars, onPhone
  <2> QED
    BY <2>1, <2>2, <2>3, <2>4, <2>5, <2>6, <2>7, <2>8, <2>9, <2>10, <2>11 DEF LinkNext, Caller
<1> QED
  BY <1>1, <1>2, PTL DEF LinkSpec

LEMMA TruthStep ==
  ASSUME LinkTypeOK, Truth, [LinkNext]_linkVars
  PROVE  Truth'
<1> USE DEF LinkTypeOK, Truth, Verified, server, reached, onPhone, LinkCommand
<1>1. ASSUME NEW ws \in Socket, Connect(ws) \/ CleanUp(ws) \/ Break(ws) PROVE Truth'
  BY <1>1 DEF Connect, CleanUp, Break
<1>2. CASE set_device_connection \/ disconnect_device
  BY <1>2 DEF set_device_connection, disconnect_device
<1>3. ASSUME NEW c \in LinkCommand, Refuse(c) \/ Send(c) PROVE Truth'
  BY <1>3 DEF Refuse, Send, Becomes
<1>4. ASSUME NEW c \in LinkCommand, Caller(c) PROVE Truth'
  <2>1. \A k \in Gesture : ack'[k] = ack[k] \/ ack'[k] = "none"
    BY <1>4 DEF Caller, Sent, SendFails, Acknowledged, Timeout, Forget
  <2>2. \A k \in Gesture : call'[k] = "ok" => call[k] = "ok" \/ ack[k] = "yes"
    BY <1>4 DEF Caller, Sent, SendFails, Acknowledged, Timeout, Becomes
  <2>3. UNCHANGED <<phone, executed, acks>>
    BY <1>4 DEF Caller, Sent, SendFails, Acknowledged, Timeout
  <2> QED
    BY <2>1, <2>2, <2>3
<1>5. ASSUME NEW c \in Gesture, Phone(c) PROVE Truth'
  <2>1. /\ call' = call /\ ack' = ack
        /\ \A k \in Gesture : (phone[k] # "away" => phone'[k] # "away") /\ executed'[k] >= executed[k]
    BY <1>5, PhoneStep DEF Changed
  <2>2. \A k \in Gesture : Verified(k) => Verified(k)'
    BY <2>1, <1>5, PhoneStep DEF Changed
  <2>3. \A a \in acks' \ acks : a.success = "yes" => a.cmd = c /\ Verified(c)'
    BY <1>5, PhoneStep
  <2>4. \A a \in acks : a.cmd \in Gesture
    BY DEF Ack
  <2> QED
    BY <2>1, <2>2, <2>3, <2>4
<1>6. ASSUME NEW a \in acks, LoseAck(a) PROVE Truth'
  BY <1>6 DEF LoseAck
<1>7. ASSUME NEW a \in acks, handle_gesture_ack(a) PROVE Truth'
  <2>1. a.cmd \in Gesture
    BY DEF Ack
  <2>2. \A c \in Gesture : ack'[c] = ack[c] \/ (c = a.cmd /\ ack'[c] = a.success)
    BY <1>7, <2>1 DEF handle_gesture_ack
  <2> QED
    BY <1>7, <2>2 DEF handle_gesture_ack
<1>8. ASSUME NEW ws \in Socket, NEW c \in Gesture, Arrive(ws, c) PROVE Truth'
  <2>1. \A a \in acks : a.cmd \in Gesture
    BY DEF Ack
  <2> QED
    BY <1>8, <2>1 DEF Arrive
<1>9. CASE UNCHANGED linkVars
  BY <1>9 DEF linkVars
<1> QED
  BY <1>1, <1>2, <1>3, <1>4, <1>5, <1>6, <1>7, <1>8, <1>9 DEF LinkNext

LEMMA TruthInvariant == LinkSpec => []Truth
<1>1. LinkInit => Truth
  BY DEF LinkInit, Truth, LinkCommand
<1>2. LinkTypeOK /\ Truth /\ [LinkNext]_linkVars => Truth'
  BY TruthStep
<1> QED
  BY <1>1, <1>2, LinkTypeCorrect, PTL DEF LinkSpec

\* A success reported to the caller is one, of the phone, for this very gesture: a
\* touch or a text, whatever attempts, acknowledgements and connections were lost.
THEOREM OkHolds == LinkSpec => []OkMeansExecuted
<1>1. Truth => OkMeansExecuted
  BY DEF Truth, Verified, OkMeansExecuted
<1> QED
  BY <1>1, TruthInvariant, PTL

\* The dictionary of expected acknowledgements never leaks and never loses one.
THEOREM AwaitedHolds == LinkSpec => []AcksAreAwaited
<1>1. LinkInit => AcksAreAwaited
  BY DEF LinkInit, AcksAreAwaited, LinkCommand
<1>2. LinkTypeOK /\ AcksAreAwaited /\ [LinkNext]_linkVars => AcksAreAwaited'
  <2> SUFFICES ASSUME LinkTypeOK, AcksAreAwaited, [LinkNext]_linkVars PROVE AcksAreAwaited'
    OBVIOUS
  <2> USE DEF LinkTypeOK, AcksAreAwaited, server, reached, LinkCommand
  <2>1. CASE UNCHANGED <<call, _pending_acks>>
    BY <2>1
  <2>2. ASSUME NEW c \in LinkCommand, Refuse(c) \/ Send(c) PROVE AcksAreAwaited'
    BY <2>2 DEF Refuse, Send, Becomes
  <2>3. ASSUME NEW c \in LinkCommand, Caller(c) PROVE AcksAreAwaited'
    BY <2>3, KindsDiffer DEF Caller, Sent, SendFails, Acknowledged, Timeout, Becomes, Forget
  <2>4. ASSUME NEW c \in Gesture, Phone(c) PROVE UNCHANGED <<call, _pending_acks>>
    BY <2>4, PhoneStep
  <2> QED
    BY <2>1, <2>2, <2>3, <2>4 DEF LinkNext, linkVars, Connect, Break, CleanUp, set_device_connection,
       disconnect_device, Arrive, LoseAck, handle_gesture_ack
<1> QED
  BY <1>1, <1>2, LinkTypeCorrect, PTL DEF LinkSpec

\* The installed socket is that of a running handler, for a connected device.
THEOREM LinkHolds == LinkSpec => []LinkIsServed
<1>1. LinkInit => LinkIsServed
  BY DEF LinkInit, LinkIsServed
<1>2. LinkTypeOK /\ LinkIsServed /\ [LinkNext]_linkVars => LinkIsServed'
  <2> SUFFICES ASSUME LinkTypeOK, LinkIsServed, [LinkNext]_linkVars PROVE LinkIsServed'
    OBVIOUS
  <2> USE DEF LinkTypeOK, LinkIsServed, server, reached
  <2>1. CASE UNCHANGED <<handler, _websocket, connected>>
    BY <2>1
  <2>2. ASSUME NEW ws \in Socket, Connect(ws) \/ CleanUp(ws) PROVE LinkIsServed'
    BY <2>2, NoSocketIsNone DEF Connect, CleanUp
  <2>3. CASE set_device_connection \/ disconnect_device
    BY <2>3 DEF set_device_connection, disconnect_device
  <2>4. ASSUME NEW c \in LinkCommand, SendFails(c) PROVE LinkIsServed'
    BY <2>4 DEF SendFails
  <2>5. ASSUME NEW c \in Gesture, Phone(c) PROVE UNCHANGED <<handler, _websocket, connected>>
    BY <2>5, PhoneStep
  <2> QED
    BY <2>1, <2>2, <2>3, <2>4, <2>5 DEF LinkNext, linkVars, Caller, Break, Refuse, Send, Sent,
       Acknowledged, Timeout, Arrive, LoseAck, handle_gesture_ack
<1> QED
  BY <1>1, <1>2, LinkTypeCorrect, PTL DEF LinkSpec

LEMMA TracksStep ==
  ASSUME LinkTypeOK, Tracks, Counts, [LinkNext]_linkVars
  PROVE  Tracks' /\ Counts'
<1> USE DEF LinkTypeOK, Tracks, Counts, server, reached, onPhone
<1>1. CASE UNCHANGED <<call, wire, onPhone>>
  BY <1>1
<1>2. ASSUME NEW ws \in Socket, Break(ws) PROVE Tracks' /\ Counts'
  BY <1>2 DEF Break
<1>3. ASSUME NEW c \in LinkCommand, Refuse(c) \/ Send(c) PROVE Tracks' /\ Counts'
  <2>1. \A m \in wire : call'[m[2]] = call[m[2]]
    <3>1. \A m \in wire : m[2] \in LinkCommand /\ m[2] # c
      BY <1>3 DEF Refuse, Send, LinkCommand
    <3> QED
      BY <1>3, <3>1 DEF Refuse, Send, Becomes
  <2>2. \A k \in LinkCommand : call'[k] = call[k] \/ call[k] = "new"
    BY <1>3 DEF Refuse, Send, Becomes
  <2> QED
    BY <1>3, <2>1, <2>2 DEF Refuse, Send, LinkCommand
<1>4. ASSUME NEW c \in LinkCommand, Sent(c) PROVE Tracks' /\ Counts'
  <2>1. \A m \in wire : m[2] # c /\ m[2] \in LinkCommand
    BY <1>4 DEF Sent, LinkCommand
  <2>2. /\ onPhone' = onPhone /\ call'[c] \in {"waiting", "ok"}
        /\ c \in Gesture => phone[c] = "away"
    BY <1>4 DEF Sent, Becomes
  <2>3. \A k \in LinkCommand \ {c} : call'[k] = call[k]
    BY <1>4 DEF Sent, Becomes
  <2>4. \A m \in wire' : m \in wire \/ (m[2] = c /\ c \in Gesture)
    BY <1>4 DEF Sent
  <2>5. \A m, n \in wire' : m[2] = c /\ n[2] = c => m = n
    BY <1>4, <2>1 DEF Sent
  <2> QED
    BY <2>1, <2>2, <2>3, <2>4, <2>5 DEF LinkCommand
<1>5. ASSUME NEW c \in LinkCommand, SendFails(c) \/ Acknowledged(c) \/ Timeout(c)
      PROVE  Tracks' /\ Counts'
  <2>1. \A k \in LinkCommand : call'[k] = call[k] \/ call'[k] \in {"ok", "failed"}
    BY <1>5 DEF SendFails, Acknowledged, Timeout, Becomes
  <2>2. UNCHANGED <<wire, onPhone>>
    BY <1>5 DEF SendFails, Acknowledged, Timeout
  <2> QED
    BY <2>1, <2>2 DEF LinkCommand
<1>6. ASSUME NEW ws \in Socket, NEW c \in Gesture, Arrive(ws, c) PROVE Tracks' /\ Counts'
  <2>1. call[c] \in {"waiting", "ok", "failed"} /\ call' = call
    BY <1>6 DEF Arrive
  <2>2. wire' \subseteq wire /\ \A m \in wire' : m[2] # c
    BY <1>6 DEF Arrive
  <2>3. UNCHANGED <<tries, loose, executed>> /\ phone' = [phone EXCEPT ![c] = "working"]
    BY <1>6 DEF Arrive
  <2> QED
    BY <2>1, <2>2, <2>3
<1>7. ASSUME NEW c \in Gesture, Phone(c) PROVE Tracks' /\ Counts'
  <2>1. phone[c] # "away" /\ UNCHANGED <<call, wire>>
    BY <1>7, PhoneStep
  <2>2. \A k \in Gesture : phone[k] = "away" => phone'[k] = "away"
    BY <1>7, <2>1, PhoneStep
  <2>3. Tracks'
    BY <2>1, <2>2
  <2>4. /\ \A k \in Gesture \ {c} : /\ tries'[k] = tries[k] /\ loose'[k] = loose[k]
                                   /\ executed'[k] = executed[k] /\ phone'[k] = phone[k]
        /\ phone'[c] # "away"
    BY <1>7, <2>1, PhoneStep DEF Changed
  <2>5. executed'[c] + loose'[c] <= tries'[c] /\ tries'[c] <= Attempts[c]
    <3>1. Attempts[c] \in Nat
      BY RetriesAreFinite DEF Attempts
    <3> QED
      BY <1>7, <3>1, PhoneStep DEF Changed
  <2> QED
    BY <2>3, <2>4, <2>5
<1> QED
  BY <1>1, <1>2, <1>3, <1>4, <1>5, <1>6, <1>7 DEF LinkNext, linkVars, Caller, Connect, CleanUp,
     set_device_connection, disconnect_device, LoseAck, handle_gesture_ack

LEMMA TracksInvariant == LinkSpec => [](Tracks /\ Counts)
<1>1. LinkInit => Tracks /\ Counts
  BY RetriesAreFinite DEF LinkInit, Tracks, Counts, Attempts, LinkCommand
<1>2. LinkTypeOK /\ Tracks /\ Counts /\ [LinkNext]_linkVars => (Tracks /\ Counts)'
  BY TracksStep
<1> QED
  BY <1>1, <1>2, LinkTypeCorrect, PTL DEF LinkSpec

\* One command moves on; what RemoteCall sees of a gesture moves with it.
LEMMA MoveRefines ==
  ASSUME LinkTypeOK, NEW c \in Gesture, NEW p \in {"refused", "sending", "waiting", "ok", "failed"},
         call' = [call EXCEPT ![c] = p], UNCHANGED onPhone,
         \/ call[c] = "new" /\ p \in {"refused", "sending"}
         \/ call[c] \in {"sending", "waiting"} /\ p \in {"waiting", "failed"}
         \/ call[c] = "waiting" /\ p = "ok" /\ Verified(c)
  PROVE  Requests!Next \/ UNCHANGED Requests!vars
<1> DEFINE to == IF p \in {"sending", "waiting"} THEN "open" ELSE p
<1>1. Answer' = [Answer EXCEPT ![c] = to]
  <2>1. \A k \in Gesture : Answer'[k] = IF k = c THEN to ELSE Answer[k]
    BY DEF LinkTypeOK, Answer, LinkCommand
  <2> QED
    BY <2>1 DEF Answer
<1>2. UNCHANGED <<{k \in Gesture : phone[k] # "away"}, executed>>
  BY DEF onPhone
<1>3. CASE call[c] = "new"
  BY <1>1, <1>2, <1>3 DEF Requests!Next, Requests!Accept, Requests!Refuse, Requests!Change, Answer
<1>4. CASE call[c] \in {"sending", "waiting"} /\ p = "waiting"
  <2>1. Answer[c] = "open" /\ to = "open"
    BY <1>4 DEF Answer
  <2>2. Answer' = Answer
    BY <1>1, <2>1 DEF Answer
  <2> QED
    BY <1>2, <2>2 DEF Requests!vars
<1>5. CASE call[c] \in {"sending", "waiting"} /\ p = "failed"
  BY <1>1, <1>2, <1>5 DEF Requests!Next, Requests!Fail, Requests!Change, Answer
<1>6. CASE call[c] = "waiting" /\ p = "ok" /\ Verified(c)
  BY <1>1, <1>2, <1>6 DEF Requests!Next, Requests!Succeed, Requests!Change, Answer, Verified
<1> QED
  BY <1>3, <1>4, <1>5, <1>6

\* A launch moves on: RemoteCall does not see it.
LEMMA LaunchRefines ==
  ASSUME LinkTypeOK, NEW c \in Launch, NEW p, call' = [call EXCEPT ![c] = p], UNCHANGED onPhone
  PROVE  UNCHANGED Requests!vars
<1>1. \A k \in Gesture : call'[k] = call[k]
  BY KindsDiffer DEF LinkTypeOK, LinkCommand
<1> QED
  BY <1>1 DEF Answer, Requests!vars, onPhone

\* A gesture request keeps the promise of RemoteCall: it is done no more often than
\* it may be attempted, only if it was accepted, and reported as done only if it is,
\* or if it is one of those nobody looks at.
THEOREM LinkImplementsRemoteCall == LinkSpec => ImplementsRemoteCall
<1>1. LinkInit => Requests!Init
  BY DEF LinkInit, Requests!Init, Answer, LinkCommand
<1>2. LinkTypeOK /\ Truth /\ Tracks /\ Counts /\ Counts' /\ [LinkNext]_linkVars =>
        [Requests!Next]_(Requests!vars)
  <2> SUFFICES ASSUME LinkTypeOK, Truth, Tracks, Counts, Counts', [LinkNext]_linkVars
               PROVE  Requests!Next \/ UNCHANGED Requests!vars
    OBVIOUS
  <2>1. ASSUME UNCHANGED <<call, phone, executed>>
        PROVE  Requests!Next \/ UNCHANGED Requests!vars
    BY <2>1 DEF Requests!vars, Answer
  <2>2. ASSUME NEW c \in LinkCommand, Refuse(c) \/ Send(c) \/ Caller(c)
        PROVE  Requests!Next \/ UNCHANGED Requests!vars
    <3>1. UNCHANGED onPhone
      BY <2>2 DEF Refuse, Send, Caller, Sent, SendFails, Acknowledged, Timeout, reached
    <3>2. CASE c \in Launch
      <4>1. \E p : call' = [call EXCEPT ![c] = p]
        BY <2>2 DEF Refuse, Send, Caller, Sent, SendFails, Acknowledged, Timeout, Becomes
      <4> QED
        BY <3>1, <3>2, <4>1, LaunchRefines
    <3>3. CASE c \in Gesture
      <4>1. CASE Refuse(c) \/ Send(c)
        BY <3>1, <3>3, <4>1, MoveRefines DEF Refuse, Send, Becomes
      <4>2. CASE Sent(c) \/ SendFails(c) \/ Timeout(c)
        BY <3>1, <3>3, <4>2, MoveRefines DEF Sent, SendFails, Timeout, Becomes
      <4>3. CASE Acknowledged(c)
        <5>1. ack[c] = "yes" => Verified(c)
          BY <3>3 DEF Truth
        <5> QED
          BY <3>1, <3>3, <4>3, <5>1, MoveRefines DEF Acknowledged, Becomes
      <4> QED
        BY <2>2, <4>1, <4>2, <4>3 DEF Caller
    <3> QED
      BY <3>2, <3>3 DEF LinkCommand
  <2>3. ASSUME NEW ws \in Socket, NEW c \in Gesture, Arrive(ws, c)
        PROVE  Requests!Next
    <3>1. call' = call /\ executed' = executed /\ Answer' = Answer
      BY <2>3 DEF Arrive, Answer
    <3>2. phone[c] = "away" /\ call[c] \in {"waiting", "failed"}
      BY <2>3 DEF Arrive, Tracks, Truth, Verified
    <3>3. phone' = [phone EXCEPT ![c] = "working"]
      BY <2>3 DEF Arrive
    <3>4. {k \in Gesture : phone'[k] # "away"} = {k \in Gesture : phone[k] # "away"} \cup {c}
      BY <3>3 DEF LinkTypeOK
    <3>5. Answer[c] \in {"open", "failed"}
      BY <3>2 DEF Answer
    <3> QED
      BY <3>1, <3>2, <3>4, <3>5 DEF Requests!Next, Requests!Arrive
  <2>4. ASSUME NEW c \in Gesture, Phone(c)
        PROVE  Requests!Next \/ UNCHANGED Requests!vars
    <3>1. phone[c] # "away"
      BY <2>4, PhoneStep DEF Counts, LinkTypeOK
    <3>2. call' = call /\ Answer' = Answer
      BY <2>4, PhoneStep DEF Answer
    <3>3. {k \in Gesture : phone'[k] # "away"} = {k \in Gesture : phone[k] # "away"}
      BY <2>4, <3>1, PhoneStep DEF LinkTypeOK
    <3>4. CASE executed' = executed
      BY <3>2, <3>3, <3>4 DEF Requests!vars
    <3>5. CASE executed' # executed
      <4>1. executed' = [executed EXCEPT ![c] = executed[c] + 1]
        <5>1. PICK e \in Nat : /\ executed' = [executed EXCEPT ![c] = e]
                               /\ e >= executed[c] /\ e <= executed[c] + 1
          BY <2>4, PhoneStep DEF Changed
        <5>2. e # executed[c]
          BY <3>5, <5>1 DEF LinkTypeOK
        <5>3. executed[c] \in Nat
          BY DEF LinkTypeOK
        <5>4. e = executed[c] + 1
          BY <5>1, <5>2, <5>3
        <5> QED
          BY <5>1, <5>4
      <4>2. executed'[c] <= Attempts[c]
        <5>1. /\ executed'[c] \in Nat /\ loose'[c] \in Nat /\ tries'[c] \in Nat
              /\ executed'[c] + loose'[c] <= tries'[c] /\ tries'[c] <= Attempts[c]
          BY <2>4, PhoneStep DEF Changed, LinkTypeOK, Counts
        <5>2. Attempts[c] \in Nat
          BY RetriesAreFinite DEF Attempts
        <5> QED
          BY <5>1, <5>2
      <4>3. executed[c] < Attempts[c]
        <5>1. executed[c] \in Nat /\ Attempts[c] \in Nat /\ executed'[c] = executed[c] + 1
          BY <4>1, RetriesAreFinite DEF LinkTypeOK, Attempts
        <5> QED
          BY <4>2, <5>1
      <4>4. Requests!Perform(c)
        BY <3>1, <3>2, <3>3, <4>1, <4>3 DEF Requests!Perform
      <4> QED
        BY <4>4 DEF Requests!Next
    <3> QED
      BY <3>4, <3>5
  <2>5. ASSUME NEW ws \in Socket, Connect(ws) \/ Break(ws) \/ CleanUp(ws)
        PROVE  UNCHANGED <<call, phone, executed>>
    BY <2>5 DEF Connect, Break, CleanUp, reached, onPhone
  <2>6. ASSUME set_device_connection \/ disconnect_device
        PROVE  UNCHANGED <<call, phone, executed>>
    BY <2>6 DEF set_device_connection, disconnect_device, reached, onPhone
  <2>7. ASSUME NEW a \in acks, LoseAck(a) \/ handle_gesture_ack(a)
        PROVE  UNCHANGED <<call, phone, executed>>
    BY <2>7 DEF LoseAck, handle_gesture_ack, onPhone
  <2>8. CASE UNCHANGED linkVars
    BY <2>8, <2>1 DEF linkVars
  <2> QED
    BY <2>1, <2>2, <2>3, <2>4, <2>5, <2>6, <2>7, <2>8 DEF LinkNext
<1> QED
  BY <1>1, <1>2, LinkTypeCorrect, TruthInvariant, TracksInvariant, PTL
     DEF LinkSpec, ImplementsRemoteCall, Requests!Spec

-----------------------------------------------------------------------------
(* The progress of a task *)

ProgressInv == ProgressTypeOK /\ ItemsAreHonest

\* The lists are the sequences of bounded length.
LEMMA ListsAreSequences ==
  ASSUME NEW list
  PROVE  list \in Lists
           <=> list \in Seq(ItemStatus) /\ Len(list) <= MaxItems
<1>1. ASSUME NEW n \in 0..MaxItems, list \in [1..n -> ItemStatus]
      PROVE  list \in Seq(ItemStatus) /\ Len(list) <= MaxItems
  BY <1>1, MaxItemsIsNatural
<1>2. ASSUME list \in Seq(ItemStatus), Len(list) <= MaxItems
      PROVE  \E n \in 0..MaxItems : list \in [1..n -> ItemStatus]
  <2>1. Len(list) \in 0..MaxItems /\ list \in [1..Len(list) -> ItemStatus]
    BY <1>2, MaxItemsIsNatural
  <2> QED
    BY <2>1
<1> QED
  BY <1>1, <1>2 DEF Lists

\* Marking an item changes that item and no other, and nothing past the end.
LEMMA MarkedIs ==
  ASSUME NEW list \in Seq(ItemStatus), NEW i \in Nat, NEW s \in ItemStatus
  PROVE  /\ Marked(list, i, s) \in Seq(ItemStatus)
         /\ Len(Marked(list, i, s)) = Len(list)
         /\ \A j \in 1..Len(list) :
              Marked(list, i, s)[j] = IF j = i + 1 THEN s ELSE list[j]
BY DEF Marked

\* A new list has its first item in progress and the others waiting.
LEMMA NewList ==
  ASSUME NEW n \in 0..MaxItems
  PROVE  LET new == Marked([i \in 1..n |-> "pending"], 0, "in_progress")
         IN /\ new \in Seq(ItemStatus) /\ Len(new) = n
            /\ \A j \in 1..n : new[j] = IF j = 1 THEN "in_progress" ELSE "pending"
<1> DEFINE blank == [i \in 1..n |-> "pending"]
<1>1. blank \in Seq(ItemStatus) /\ Len(blank) = n /\ \A j \in 1..n : blank[j] = "pending"
  BY MaxItemsIsNatural DEF ItemStatus
<1> HIDE DEF blank
<1>2. n \in Nat /\ "in_progress" \in ItemStatus
  BY MaxItemsIsNatural DEF ItemStatus
<1>3. /\ Marked(blank, 0, "in_progress") \in Seq(ItemStatus)
      /\ Len(Marked(blank, 0, "in_progress")) = n
      /\ \A j \in 1..n : Marked(blank, 0, "in_progress")[j] = IF j = 1 THEN "in_progress" ELSE "pending"
  BY <1>1, <1>2 DEF Marked
<1> QED
  BY <1>3 DEF blank

LEMMA ProgressInitInv == ProgressInit => ProgressInv
<1> SUFFICES ASSUME ProgressInit PROVE ProgressInv
  OBVIOUS
<1>1. items \in Seq(ItemStatus) /\ Len(items) = 0 /\ current_index = 0
  BY DEF ProgressInit
<1>2. items \in Lists
  <2>1. Len(items) <= MaxItems
    BY <1>1, MaxItemsIsNatural
  <2> QED
    BY <1>1, <2>1, ListsAreSequences
<1>3. ProgressTypeOK
  <2>1. current_index \in 0..Len(items) + 1
    BY <1>1
  <2> QED
    BY <1>2, <2>1, Zenon DEF ProgressInit, ProgressTypeOK
<1> QED
  BY <1>1, <1>3 DEF ProgressInit, ProgressInv, ItemsAreHonest, OneItemInProgress, CompleteListIsSettled

LEMMA StartInv == \A n \in 0..MaxItems : ProgressInv /\ start_task(n) => ProgressInv'
<1> SUFFICES ASSUME NEW n \in 0..MaxItems, ProgressInv, start_task(n) PROVE ProgressInv'
  OBVIOUS
<1>1. /\ items' \in Seq(ItemStatus) /\ Len(items') = n
      /\ \A j \in 1..n : items'[j] = IF j = 1 THEN "in_progress" ELSE "pending"
  BY NewList DEF start_task
<1>2. current_index' = 0 /\ known' = TRUE /\ is_complete' = FALSE /\ is_aborted' = FALSE /\ event' = FALSE
  BY DEF start_task
<1>3. n \in Nat /\ n <= MaxItems
  BY MaxItemsIsNatural
<1>4. ProgressTypeOK'
  <2>1. items' \in Lists
    BY <1>1, <1>3, ListsAreSequences
  <2>2. current_index' \in 0..Len(items') + 1
    BY <1>1, <1>2, <1>3
  <2> QED
    BY <1>2, <2>1, <2>2, Zenon DEF ProgressTypeOK
<1>5. OneItemInProgress'
  BY <1>1, <1>2, <1>3 DEF OneItemInProgress
<1> QED
  BY <1>2, <1>4, <1>5 DEF ProgressInv, ItemsAreHonest, CompleteListIsSettled

\* The facts of the invariant that the steps below start from.
LEMMA InvFacts ==
  ASSUME ProgressInv
  PROVE  /\ items \in Seq(ItemStatus) /\ Len(items) <= MaxItems /\ Len(items) \in Nat
         /\ current_index \in Nat /\ current_index <= Len(items) + 1
         /\ DOMAIN items = 1..Len(items)
<1>1. items \in Lists /\ current_index \in 0..Len(items) + 1
  BY DEF ProgressInv, ProgressTypeOK
<1>2. items \in Seq(ItemStatus) /\ Len(items) <= MaxItems
  BY <1>1, ListsAreSequences
<1> QED
  BY <1>1, <1>2

LEMMA CompleteInv == \A success \in BOOLEAN : ProgressInv /\ complete_current_step(success) => ProgressInv'
<1> SUFFICES ASSUME NEW success \in BOOLEAN, ProgressInv, complete_current_step(success) PROVE ProgressInv'
  OBVIOUS
<1> DEFINE s == IF success THEN "completed" ELSE "failed"
           done == Marked(items, current_index, s)
<1>0. s \in {"completed", "failed"} /\ s \in ItemStatus /\ "in_progress" \in ItemStatus
  BY DEF ItemStatus
<1>1. /\ known /\ ~Settled /\ items' = Marked(done, current_index + 1, "in_progress")
      /\ current_index' = IF current_index > Len(items) THEN current_index ELSE current_index + 1
      /\ UNCHANGED <<known, is_complete, is_aborted, event>>
  BY DEF complete_current_step
<1> HIDE DEF s
<1>2. /\ done \in Seq(ItemStatus) /\ Len(done) = Len(items)
      /\ \A j \in 1..Len(items) : done[j] = IF j = current_index + 1 THEN s ELSE items[j]
  BY <1>0, InvFacts, MarkedIs
<1> HIDE DEF done
<1>3. /\ items' \in Seq(ItemStatus) /\ Len(items') = Len(items)
      /\ \A j \in 1..Len(items) :
           items'[j] = IF j = (current_index + 1) + 1 THEN "in_progress" ELSE done[j]
  <2>1. done \in Seq(ItemStatus) /\ Len(done) = Len(items)
    BY <1>2
  <2>2. current_index + 1 \in Nat
    BY InvFacts
  <2> QED
    BY <1>0, <1>1, <2>1, <2>2 DEF Marked
<1>4. items' \in Lists
  BY <1>3, InvFacts, ListsAreSequences
<1>5. current_index' \in 0..Len(items') + 1
  BY <1>1, <1>3, InvFacts
<1>6. ProgressTypeOK'
  BY <1>1, <1>4, <1>5, Zenon DEF ProgressInv, ProgressTypeOK
<1>7. ASSUME NEW j \in 1..Len(items)
      PROVE  /\ j < current_index + 1 => items[j] \in {"completed", "failed"}
             /\ j > current_index + 1 => items[j] = "pending"
  BY <1>1, InvFacts DEF ProgressInv, ItemsAreHonest, OneItemInProgress
<1>8. OneItemInProgress'
  BY <1>0, <1>1, <1>2, <1>3, <1>7, InvFacts DEF OneItemInProgress
<1>9. CompleteListIsSettled'
  BY <1>1 DEF Settled, CompleteListIsSettled
<1> QED
  BY <1>6, <1>8, <1>9 DEF ProgressInv, ItemsAreHonest

LEMMA FinishInv == ProgressInv /\ finish_task => ProgressInv'
<1> SUFFICES ASSUME ProgressInv, finish_task PROVE ProgressInv'
  OBVIOUS
<1>1. /\ items' = [i \in DOMAIN items |->
                    IF items[i] \in {"completed", "failed"} THEN items[i] ELSE "completed"]
      /\ is_complete' = TRUE /\ UNCHANGED <<known, current_index, is_aborted, event>>
  BY DEF finish_task
<1>2. /\ items' \in Seq(ItemStatus) /\ Len(items') = Len(items)
      /\ \A i \in 1..Len(items) : items'[i] \in {"completed", "failed"}
  BY <1>1, InvFacts DEF ItemStatus
<1>3. items' \in Lists
  BY <1>2, InvFacts, ListsAreSequences
<1>4. current_index' \in 0..Len(items') + 1
  BY <1>1, <1>2, InvFacts
<1>5. ProgressTypeOK'
  BY <1>1, <1>3, <1>4, Zenon DEF ProgressInv, ProgressTypeOK
<1>6. ItemsAreHonest'
  BY <1>1, <1>2 DEF ItemsAreHonest, OneItemInProgress, CompleteListIsSettled, Settled
<1> QED
  BY <1>5, <1>6 DEF ProgressInv

LEMMA AbortInv == ProgressInv /\ abort_task => ProgressInv'
<1> SUFFICES ASSUME ProgressInv, abort_task PROVE ProgressInv'
  OBVIOUS
<1>1. /\ items' = Marked(items, current_index, "failed")
      /\ is_aborted' = TRUE /\ event' = TRUE /\ UNCHANGED <<known, current_index, is_complete>>
  BY DEF abort_task
<1>2. /\ items' \in Seq(ItemStatus) /\ Len(items') = Len(items)
      /\ \A j \in 1..Len(items) : items'[j] = IF j = current_index + 1 THEN "failed" ELSE items[j]
  <2>1. "failed" \in ItemStatus
    BY DEF ItemStatus
  <2> QED
    BY <1>1, <2>1, InvFacts, MarkedIs
<1>3. items' \in Lists
  BY <1>2, InvFacts, ListsAreSequences
<1>4. current_index' \in 0..Len(items') + 1
  BY <1>1, <1>2, InvFacts
<1>5. ProgressTypeOK'
  BY <1>1, <1>3, <1>4, Zenon DEF ProgressInv, ProgressTypeOK
<1>6. is_complete => \A j \in 1..Len(items) : items[j] \in {"completed", "failed"}
  BY InvFacts DEF ProgressInv, ItemsAreHonest, CompleteListIsSettled
<1>7. ItemsAreHonest'
  BY <1>1, <1>2, <1>6 DEF ItemsAreHonest, OneItemInProgress, CompleteListIsSettled, Settled
<1> QED
  BY <1>5, <1>7 DEF ProgressInv

LEMMA InvHolds == ProgressSpec => []ProgressInv
<1>1. ProgressInit => ProgressInv
  BY ProgressInitInv
<1>2. ProgressInv /\ [ProgressNext]_progressVars => ProgressInv'
  <2> SUFFICES ASSUME ProgressInv, [ProgressNext]_progressVars PROVE ProgressInv'
    OBVIOUS
  <2>1. CASE ProgressNext
    BY <2>1, StartInv, CompleteInv, FinishInv, AbortInv DEF ProgressNext
  <2>2. CASE UNCHANGED progressVars
    BY <2>2 DEF progressVars, ProgressInv, ProgressTypeOK, ItemsAreHonest, OneItemInProgress, CompleteListIsSettled, Settled
  <2> QED
    BY <2>1, <2>2
<1> QED
  BY <1>1, <1>2, PTL DEF ProgressSpec

\* Whatever the length of the list, current_index stays within one of its end
\* (TaskProgress, TaskProgressService).
THEOREM ProgressTypeCorrect == ProgressSpec => []ProgressTypeOK
<1>1. ProgressInv => ProgressTypeOK
  BY DEF ProgressInv
<1> QED
  BY <1>1, InvHolds, PTL

\* While the task runs exactly the current step is shown in progress, and once it is
\* finished no step is shown as waiting, for a list of any length, cancelled or not.
THEOREM ItemsStayHonest == ProgressSpec => []ItemsAreHonest
<1>1. ProgressInv => ItemsAreHonest
  BY DEF ProgressInv
<1> QED
  BY <1>1, InvHolds, PTL

-----------------------------------------------------------------------------
(* TaskProgress implements TaskFlags *)

LEMMA StepIsAFlagStep ==
  ASSUME ProgressInv, ProgressNext
  PROVE  \/ Flags!start_task \/ Flags!finish_task \/ Flags!abort_task
         \/ UNCHANGED <<known, is_complete, is_aborted, event>>
<1>1. CASE \E n \in 0..MaxItems : start_task(n)
  BY <1>1 DEF start_task, Flags!start_task, Flags!NewTask
<1>2. CASE \E success \in BOOLEAN : complete_current_step(success)
  BY <1>2 DEF complete_current_step
<1>3. CASE finish_task
  BY <1>3 DEF finish_task, Settled, Flags!finish_task
<1>4. CASE abort_task
  BY <1>4 DEF abort_task, Flags!abort_task
<1> QED
  BY <1>1, <1>2, <1>3, <1>4 DEF ProgressNext

\* What the coordinator and the cancel button rely on: the flags of a session change
\* as TaskFlags says, whatever its list of steps.
THEOREM ProgressImplementsFlags == ProgressSpec => ImplementsFlags
<1> DEFINE flags == [known |-> known, complete |-> is_complete, aborted |-> is_aborted,
                     cancelled |-> event]
<1>1. ProgressInit => flags = Flags!NoTask
  BY DEF ProgressInit, Flags!NoTask
<1>2. ProgressInv /\ [ProgressNext]_progressVars => [Flags!start_task \/ Flags!finish_task \/ Flags!abort_task]_flags
  BY StepIsAFlagStep DEF progressVars
<1> QED
  BY <1>1, <1>2, InvHolds, PTL DEF ProgressSpec, ImplementsFlags, Flags!TaskSpec

-----------------------------------------------------------------------------
(* The permission to see the screen *)

\* The turns the service counts.
Working == Running \cap Turn

\* The counter is their number, however turns and direct tasks begin and end.
Counted == active = Cardinality(Working)

\* A grant that fell into a wait is known until the turn wakes, and then used.
Remembered ==
  \A s \in heard : \/ pc[s] = "wait" /\ s \in woken /\ granted
                   \/ pc[s] = "tell" /\ s \in ready

\* A request of the service's own accord was decided while no turn worked.
NoneFound == \A a \in Own : found[a] = {}

ScreenInv == ScreenTypeOK /\ Counted /\ LetInByAGrant /\ Remembered /\ NoneFound

-----------------------------------------------------------------------------
LEMMA WorkingIsFinite == IsFiniteSet(Working) /\ Working \subseteq Turn
BY TurnsAreFinite, FS_Subset DEF Working

\* Where the counted turns do not change, neither does what the counter says.
LEMMA WorkingKept ==
  ASSUME Counted, active' = active, Working' = Working
  PROVE  Counted'
BY DEF Counted

\* A turn that begins to work adds one.
LEMMA WorkingGrows ==
  ASSUME ScreenTypeOK, Counted, NEW s \in Turn, pc[s] # "running",
         Goto(s, "running"), mark_task_active
  PROVE  Counted' /\ active' \in 0..Cardinality(Turn)
<1>1. Working' = Working \cup {s} /\ s \notin Working
  BY DEF ScreenTypeOK, Goto, Working, Running, Task
<1>2. Cardinality(Working \cup {s}) = Cardinality(Working) + 1
  BY <1>1, WorkingIsFinite, FS_AddElement
<1>3. Cardinality(Working') \in Nat /\ Cardinality(Working') <= Cardinality(Turn)
      /\ Cardinality(Turn) \in Nat
  <2>1. Working' \subseteq Turn
    BY DEF Working
  <2> QED
    BY <2>1, TurnsAreFinite, FS_Subset, FS_CardinalityType
<1> QED
  BY <1>1, <1>2, <1>3 DEF Counted, mark_task_active

\* One that ends takes one off, and the guard of the counter never applies.
LEMMA WorkingShrinks ==
  ASSUME ScreenTypeOK, Counted, NEW s \in Turn, pc[s] = "running",
         Goto(s, "over"), mark_task_done
  PROVE  Counted' /\ active' \in 0..Cardinality(Turn)
<1>1. Working' = Working \ {s} /\ s \in Working
  BY DEF ScreenTypeOK, Goto, Working, Running, Task
<1>2. Cardinality(Working \ {s}) = Cardinality(Working) - 1
  BY <1>1, WorkingIsFinite, FS_RemoveElement
<1>3. active \in 0..Cardinality(Turn) /\ Cardinality(Turn) \in Nat
  BY TurnsAreFinite, FS_CardinalityType DEF ScreenTypeOK
<1>4. Cardinality(Working) # 0
  BY <1>1, WorkingIsFinite, FS_EmptySet
<1> QED
  BY <1>1, <1>2, <1>3, <1>4 DEF Counted, mark_task_done

\* Posting keeps the results on the way within their bound.
LEMMA PostKeeps ==
  ASSUME ScreenTypeOK, NEW verdict \in BOOLEAN, Post(verdict)
  PROVE  posts' \in [BOOLEAN -> 0..MaxPosts]
BY BoundsAreNat DEF ScreenTypeOK, Post

LEMMA ScreenInitInv == ScreenInit => ScreenInv
<1> SUFFICES ASSUME ScreenInit PROVE ScreenInv
  OBVIOUS
<1>1. Cardinality(Turn) \in Nat
  BY TurnsAreFinite, FS_CardinalityType
<1>2. ScreenTypeOK
  <2>1. active \in 0..Cardinality(Turn) /\ empties \in 0..Threshold /\ losses \in 0..MaxLosses
    BY <1>1, BoundsAreNat DEF ScreenInit, Threshold
  <2>2. posts \in [BOOLEAN -> 0..MaxPosts]
    <3>1. 0 \in 0..MaxPosts
      BY BoundsAreNat
    <3> QED
      BY <3>1, Zenon DEF ScreenInit
  <2>3. pc \in [Task -> {"idle", "ask", "wait", "tell", "running", "over"}]
    BY DEF ScreenInit
  <2>4. /\ shot \in [Task -> {"none", "first", "second", "picture"}]
        /\ stage \in [Asker -> {"none", "created", "sending", "sent", "up", "over"}]
        /\ found \in [Own -> SUBSET Turn]
    BY DEF ScreenInit
  <2> QED
    BY <2>1, <2>2, <2>3, <2>4 DEF ScreenInit, ScreenTypeOK
<1>3. Working = {}
  BY DEF ScreenInit, Working, Running, Task
<1>4. Counted
  BY <1>3, FS_EmptySet DEF ScreenInit, Counted
<1> QED
  BY <1>2, <1>4 DEF ScreenInit, ScreenInv, LetInByAGrant, Remembered, NoneFound
-----------------------------------------------------------------------------
\* The gate, from the first look at the flag to the end of the task.
LEMMA GateKeeps ==
  ASSUME ScreenInv, NEW s \in Turn,
         EnterGranted(s) \/ EnterAsking(s) \/ Gate(s) \/ EndTask(s)
  PROVE  ScreenInv'
<1> USE DEF ScreenInv
<1>0. s \in Task /\ s \in Asker /\ heard \subseteq Task
  BY DEF Task, Asker, ScreenTypeOK
<1> DEFINE Elsewhere == \A t \in heard \ {s} : pc'[t] = pc[t]
<1>1. CASE EnterGranted(s)
  <2>1. Counted' /\ active' \in 0..Cardinality(Turn)
    BY <1>1, WorkingGrows DEF EnterGranted
  <2>2. ScreenTypeOK'
    BY <1>0, <1>1, <2>1 DEF EnterGranted, ScreenTypeOK, Goto, service, phoneSide, history
  <2>3. LetInByAGrant' /\ Remembered' /\ NoneFound'
    BY <1>0, <1>1 DEF EnterGranted, ScreenTypeOK, Goto, LetInByAGrant, Remembered, NoneFound, history
  <2> QED
    BY <2>1, <2>2, <2>3
<1>2. CASE EnterAsking(s)
  <2>1. Working' = Working /\ active' = active
    BY <1>0, <1>2 DEF EnterAsking, ScreenTypeOK, Goto, Working, Running, service
  <2>2. ScreenTypeOK'
    BY <1>0, <1>2 DEF EnterAsking, ScreenTypeOK, Goto, service, phoneSide, history
  <2>3. LetInByAGrant' /\ Remembered' /\ NoneFound'
    <3>1. s \notin heard /\ Elsewhere
      BY <1>0, <1>2 DEF EnterAsking, ScreenTypeOK, Goto, Remembered
    <3> QED
      BY <1>2, <3>1 DEF EnterAsking, LetInByAGrant, Remembered, NoneFound, history, service
  <2> QED
    BY <2>1, <2>2, <2>3, WorkingKept
<1>3. CASE Asked(s)
  <2>1. Working' = Working /\ active' = active
    BY <1>0, <1>3 DEF Asked, ScreenTypeOK, Goto, Working, Running, service
  <2>2. ScreenTypeOK'
    BY <1>0, <1>3 DEF Asked, ScreenTypeOK, Goto, service, phoneSide, history
  <2>3. LetInByAGrant' /\ Remembered' /\ NoneFound'
    <3>1. s \notin heard /\ Elsewhere
      BY <1>0, <1>3 DEF Asked, ScreenTypeOK, Goto, Remembered
    <3> QED
      BY <1>3, <3>1 DEF Asked, LetInByAGrant, Remembered, NoneFound, history, service
  <2> QED
    BY <2>1, <2>2, <2>3, WorkingKept
<1>4. CASE Wake(s)
  <2>1. Working' = Working /\ active' = active
    BY <1>0, <1>4 DEF Wake, ScreenTypeOK, Goto, Working, Running, service
  <2>2. ScreenTypeOK'
    BY <1>0, <1>4 DEF Wake, ScreenTypeOK, Goto, service, phoneSide, history
  <2>3. LetInByAGrant' /\ Remembered' /\ NoneFound'
    BY <1>0, <1>4 DEF Wake, LetsIn, ScreenTypeOK, Goto, LetInByAGrant, Remembered, NoneFound, history, service
  <2> QED
    BY <2>1, <2>2, <2>3, WorkingKept
<1>5. CASE GateTimeout(s)
  <2>1. Working' = Working /\ active' = active
    BY <1>0, <1>5 DEF GateTimeout, ScreenTypeOK, Goto, Working, Running, service
  <2>2. ScreenTypeOK'
    BY <1>0, <1>5 DEF GateTimeout, ScreenTypeOK, Goto, service, phoneSide, history
  <2>3. LetInByAGrant' /\ Remembered' /\ NoneFound'
    BY <1>0, <1>5 DEF GateTimeout, ScreenTypeOK, Goto, LetInByAGrant, Remembered, NoneFound, service
  <2> QED
    BY <2>1, <2>2, <2>3, WorkingKept
<1>6. CASE Told(s)
  <2>1. Counted' /\ active' \in 0..Cardinality(Turn)
    <3>1. CASE s \in ready
      BY <1>6, <3>1, WorkingGrows DEF Told
    <3>2. CASE s \notin ready
      <4>1. Working' = Working /\ active' = active
        BY <1>0, <1>6, <3>2 DEF Told, ScreenTypeOK, Goto, Working, Running
      <4> QED
        BY <4>1, WorkingKept DEF ScreenTypeOK
    <3> QED
      BY <3>1, <3>2
  <2>2. ScreenTypeOK'
    BY <1>0, <1>6, <2>1 DEF Told, ScreenTypeOK, Goto, phoneSide
  <2>3. LetInByAGrant' /\ Remembered' /\ NoneFound'
    <3>1. Elsewhere
      BY <1>0, <1>6 DEF Told, ScreenTypeOK, Goto
    <3> QED
      BY <1>6, <3>1 DEF Told, LetInByAGrant, Remembered, NoneFound
  <2> QED
    BY <2>1, <2>2, <2>3
<1>7. CASE EndTask(s)
  <2>1. Counted' /\ active' \in 0..Cardinality(Turn)
    BY <1>7, WorkingShrinks DEF EndTask
  <2>2. ScreenTypeOK'
    BY <1>0, <1>7, <2>1 DEF EndTask, ScreenTypeOK, Goto, phoneSide
  <2>3. LetInByAGrant' /\ Remembered' /\ NoneFound'
    BY <1>0, <1>7 DEF EndTask, ScreenTypeOK, Goto, LetInByAGrant, Remembered, NoneFound
  <2> QED
    BY <2>1, <2>2, <2>3
<1> QED
  BY <1>1, <1>2, <1>3, <1>4, <1>5, <1>6, <1>7 DEF Gate

\* Screenshots can only raise the flag, and lead to requests.
LEMMA ScreenshotKeeps ==
  ASSUME ScreenInv, NEW s \in Task,
         \/ request_screenshot(s) \/ captureScreen(s) \/ ParsePicture(s)
         \/ FirstFails(s) \/ SecondFails(s)
  PROVE  ScreenInv'
<1> USE DEF ScreenInv
<1>1. active' = active /\ pc' = pc /\ woken' = woken /\ ready' = ready
      /\ UNCHANGED phoneSide /\ UNCHANGED history
      /\ (granted' = granted \/ granted' = TRUE)
  BY DEF request_screenshot, captureScreen, ParsePicture, FirstFails, SecondFails, service, phoneSide
<1>2. Working' = Working
  BY <1>1 DEF Working, Running
<1>3. shot' \in [Task -> {"none", "first", "second", "picture"}]
  BY DEF ScreenTypeOK, request_screenshot, captureScreen, ParsePicture, FirstFails, SecondFails
<1>4. stage' \in [Asker -> {"none", "created", "sending", "sent", "up", "over"}]
  BY DEF ScreenTypeOK, Asker, request_screenshot, captureScreen, ParsePicture, FirstFails, SecondFails
<1>5. empties' \in 0..Threshold
  BY DEF ScreenTypeOK, Threshold, service, request_screenshot, captureScreen, ParsePicture, FirstFails, SecondFails
<1>6. ScreenTypeOK'
  BY <1>1, <1>3, <1>4, <1>5 DEF ScreenTypeOK, phoneSide, history
<1>7. LetInByAGrant' /\ Remembered' /\ NoneFound'
  BY <1>1 DEF LetInByAGrant, Remembered, NoneFound, history
<1> QED
  BY <1>1, <1>2, <1>6, <1>7, WorkingKept

\* The service's own requests are decided where the counter is 0.
LEMMA AutoKeeps ==
  ASSUME ScreenInv, NEW a \in Own,
         _auto_request_permission(a) \/ AutoStops(a) \/ AutoSent(a)
  PROVE  ScreenInv'
<1> USE DEF ScreenInv
<1>1. /\ UNCHANGED <<granted, active, empties, pc, woken, ready, shot, phoneSide, revoked, heard>>
      /\ a \in Asker
  BY DEF _auto_request_permission, AutoStops, AutoSent, service, history, Asker
<1>2. Working' = Working
  BY <1>1 DEF Working, Running
<1>3. found' \in [Own -> SUBSET Turn] /\ NoneFound'
  <2>1. CASE _auto_request_permission(a)
    <3>1. Working = {}
      BY <2>1, WorkingIsFinite, FS_EmptySet DEF _auto_request_permission, MayRequest, Counted
    <3> QED
      BY <2>1, <3>1 DEF _auto_request_permission, ScreenTypeOK, NoneFound, Working
  <2>2. CASE AutoStops(a) \/ AutoSent(a)
    BY <2>2 DEF AutoStops, AutoSent, ScreenTypeOK, NoneFound, history
  <2> QED
    BY <2>1, <2>2
<1>4. stage' \in [Asker -> {"none", "created", "sending", "sent", "up", "over"}]
  BY <1>1 DEF ScreenTypeOK, _auto_request_permission, AutoStops, AutoSent
<1>5. ScreenTypeOK'
  BY <1>1, <1>3, <1>4 DEF ScreenTypeOK, phoneSide
<1>6. LetInByAGrant' /\ Remembered'
  BY <1>1 DEF LetInByAGrant, Remembered
<1> QED
  BY <1>1, <1>2, <1>3, <1>5, <1>6, WorkingKept

\* The phone touches nothing of the service.
LEMMA PhoneKeeps ==
  ASSUME ScreenInv,
         \/ \E a \in Asker : handleRequestScreenCapturePermission(a) \/ Decide(a)
         \/ cleanup \/ disableScreenCapture \/ sendDeviceInfo
  PROVE  ScreenInv'
<1> USE DEF ScreenInv
<1>1. UNCHANGED <<service, pc, woken, ready, shot, history>>
  BY DEF handleRequestScreenCapturePermission, Decide, cleanup, disableScreenCapture, sendDeviceInfo
<1>2. Working' = Working
  BY <1>1 DEF Working, Running
<1>3. posts' \in [BOOLEAN -> 0..MaxPosts]
  <2>1. CASE UNCHANGED posts
    BY <2>1 DEF ScreenTypeOK
  <2>2. CASE \E verdict \in BOOLEAN : Post(verdict)
    BY <2>2, PostKeeps
  <2> QED
    BY <2>1, <2>2 DEF handleRequestScreenCapturePermission, Decide, cleanup, disableScreenCapture, sendDeviceInfo
<1>4. projection' \in BOOLEAN /\ losses' \in 0..MaxLosses
  <2>1. projection' \in BOOLEAN
    <3>1. CASE projection' = projection \/ projection' = FALSE
      BY <3>1 DEF ScreenTypeOK
    <3>2. ASSUME NEW works \in BOOLEAN, projection' = (projection \/ works)
          PROVE  projection' \in BOOLEAN
      BY <3>2, Zenon
    <3> QED
      BY <3>1, <3>2, Zenon DEF handleRequestScreenCapturePermission, Decide, cleanup, disableScreenCapture, sendDeviceInfo
  <2>2. losses' = losses \/ (losses < MaxLosses /\ losses' = losses + 1)
    <3>1. ASSUME NEW a \in Asker, handleRequestScreenCapturePermission(a) \/ Decide(a)
          PROVE  losses' = losses
      BY <3>1 DEF handleRequestScreenCapturePermission, Decide
    <3>2. ASSUME cleanup \/ disableScreenCapture
          PROVE  losses < MaxLosses /\ losses' = losses + 1
      BY <3>2 DEF cleanup, disableScreenCapture
    <3>3. ASSUME sendDeviceInfo PROVE losses' = losses
      BY <3>3 DEF sendDeviceInfo
    <3> QED
      BY <3>1, <3>2, <3>3
  <2> QED
    BY <2>1, <2>2, BoundsAreNat DEF ScreenTypeOK
<1>5. stage' \in [Asker -> {"none", "created", "sending", "sent", "up", "over"}]
  BY DEF ScreenTypeOK, handleRequestScreenCapturePermission, Decide, cleanup, disableScreenCapture, sendDeviceInfo
<1>6. ScreenTypeOK'
  BY <1>1, <1>3, <1>4, <1>5 DEF ScreenTypeOK, service, history
<1>7. LetInByAGrant' /\ Remembered' /\ NoneFound'
  BY <1>1 DEF LetInByAGrant, Remembered, NoneFound, service, history
<1> QED
  BY <1>1, <1>2, <1>6, <1>7, WorkingKept DEF service

\* A result reaches the service: a grant wakes all that wait, a denial is
\* remembered for all that were let in.
LEMMA ResultKeeps ==
  ASSUME ScreenInv, ResultGranted \/ ResultDenied
  PROVE  ScreenInv'
<1> USE DEF ScreenInv
<1>1. active' = active /\ empties' = empties /\ pc' = pc /\ ready' = ready /\ shot' = shot
      /\ stage' = stage /\ projection' = projection /\ losses' = losses /\ found' = found
  BY DEF ResultGranted, ResultDenied
<1>2. Working' = Working
  BY <1>1 DEF Working, Running
<1>3. posts' \in [BOOLEAN -> 0..MaxPosts]
  <2>1. ASSUME NEW verdict \in BOOLEAN, posts[verdict] > 0,
               posts' = [posts EXCEPT ![verdict] = @ - 1]
        PROVE  posts' \in [BOOLEAN -> 0..MaxPosts]
    <3>1. posts[verdict] \in 0..MaxPosts
      BY DEF ScreenTypeOK
    <3>2. posts[verdict] - 1 \in 0..MaxPosts
      BY <2>1, <3>1, BoundsAreNat
    <3> QED
      BY <2>1, <3>2 DEF ScreenTypeOK
  <2> QED
    BY <2>1 DEF ResultGranted, ResultDenied
<1>4. granted' \in BOOLEAN /\ woken' \subseteq Turn /\ heard' \subseteq Turn /\ revoked' \subseteq Turn
  BY DEF ScreenTypeOK, ResultGranted, ResultDenied, Announce, Waiting
<1>5. ScreenTypeOK'
  BY <1>1, <1>3, <1>4 DEF ScreenTypeOK
<1>6. LetInByAGrant' /\ NoneFound'
  BY <1>1 DEF ResultGranted, ResultDenied, LetInByAGrant, NoneFound
<1>7. Remembered'
  <2>1. CASE ResultGranted
    BY <2>1 DEF ResultGranted, Announce, Waiting, Remembered
  <2>2. CASE ResultDenied
    BY <2>2 DEF ResultDenied, Remembered
  <2> QED
    BY <2>1, <2>2
<1> QED
  BY <1>1, <1>2, <1>5, <1>6, <1>7, WorkingKept

LEMMA NextInv == ScreenInv /\ [ScreenNext]_screenVars => ScreenInv'
<1> SUFFICES ASSUME ScreenInv, [ScreenNext]_screenVars PROVE ScreenInv'
  OBVIOUS
<1>1. CASE ScreenNext
  BY <1>1, GateKeeps, ScreenshotKeeps, AutoKeeps, PhoneKeeps, ResultKeeps DEF ScreenNext
<1>2. CASE UNCHANGED screenVars
  BY <1>2 DEF screenVars, service, phoneSide, history, ScreenInv, ScreenTypeOK, Counted, Working, Running,
              LetInByAGrant, Remembered, NoneFound
<1> QED
  BY <1>1, <1>2

LEMMA Invariance == ScreenSpec => []ScreenInv
BY ScreenInitInv, NextInv, PTL DEF ScreenSpec
-----------------------------------------------------------------------------
\* Every variable stays in its type, for any turns and any bounds.
THEOREM ScreenTypeCorrect == ScreenSpec => []ScreenTypeOK
<1>1. ScreenInv => ScreenTypeOK
  BY DEF ScreenInv
<1> QED
  BY <1>1, Invariance, PTL

\* A turn is let in by a grant the service knew of, and a grant that falls into
\* its wait is not overheard (_ensure_screen_capture_ready, wait_for_permission).
THEOREM GateIsRightHolds == ScreenSpec => []GateIsRight
<1>1. ScreenInv => GateIsRight
  BY DEF ScreenInv, Remembered, GateIsRight, NoGrantIsOverheard
<1> QED
  BY <1>1, Invariance, PTL

\* The service asks for the screen of its own accord only where no counted task
\* runs (_auto_request_permission, mark_task_active, mark_task_done).
THEOREM NeverInterruptsHolds == ScreenSpec => []NeverInterrupts
<1>1. ScreenInv => NeverInterrupts
  BY DEF ScreenInv, NoneFound, NeverInterrupts
<1> QED
  BY <1>1, Invariance, PTL
=============================================================================
