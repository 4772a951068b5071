---------------------------- MODULE CommandQueue ----------------------------
(***************************************************************************)
(* services/command_queue.py: the polling queue between the backend and a  *)
(* device, with its HTTP front end in api_handlers/device_router.py.       *)
(* Every method of the class runs under one asyncio.Lock and suspends only *)
(* to take it, so each is one action.  Between two calls the five minutes  *)
(* of a command's life may pass (GrowOld), poll responses and result       *)
(* reports may be lost, and reports may arrive long after the poll.        *)
(***************************************************************************)
CONSTANTS
  Command,     \* the command ids that uuid4 hands out
  Device       \* the device names

VARIABLES
  status,      \* PendingCommand.status, "absent" for an id not in _commands
  addressee,   \* PendingCommand.device_name
  overdue,     \* the commands with expires_at < now
  responses,   \* poll responses on their way: records [to, cmds]
  held,        \* held[d]: the commands device d received and not yet reported
  handed       \* history: handed[c] is the set of devices c was handed to

queueVars == <<status, addressee, overdue, responses, held, handed>>

Status == {"pending", "executing", "completed", "expired", "failed"}

QueueTypeOK ==
  /\ status \in [Command -> Status \cup {"absent"}]
  /\ addressee \in [Command -> Device]
  /\ overdue \subseteq Command
  /\ responses \subseteq [to : Device, cmds : SUBSET Command]
  /\ held \in [Device -> SUBSET Command]
  /\ handed \in [Command -> SUBSET Device]

QueueInit ==
  /\ status = [c \in Command |-> "absent"]
  /\ addressee \in [Command -> Device]
  /\ overdue = {}
  /\ responses = {}
  /\ held = [d \in Device |-> {}]
  /\ handed = [c \in Command |-> {}]

Known(c) == status[c] # "absent"

\* CommandQueue.add_command, called by execute_gesture and POST /commands/queue.
add_command(c) ==
  /\ ~Known(c)
  /\ status' = [status EXCEPT ![c] = "pending"]
  /\ UNCHANGED <<addressee, overdue, responses, held, handed>>

\* The command's expires_at goes by.
GrowOld(c) ==
  /\ Known(c) /\ c \notin overdue
  /\ overdue' = overdue \cup {c}
  /\ UNCHANGED <<status, addressee, responses, held, handed>>

\* _cleanup_expired: everything overdue and not completed, whatever its status.
\* Mutant of Expiring: completed commands expire as well.
ExpiringAll == {c \in overdue : Known(c)}

Expiring == {c \in overdue : Known(c) /\ status[c] # "completed"}

\* Mutant of AfterCleanup: no cleanup before the pending commands are collected.
NoCleanup == status

AfterCleanup == [c \in Command |-> IF c \in Expiring THEN "expired" ELSE status[c]]

\* Mutant of PendingFor: the device that asks gets the commands of all.
PendingForAnyone(d) == {c \in Command : AfterCleanup[c] = "pending"}

PendingFor(d) == {c \in Command : addressee[c] = d /\ AfterCleanup[c] = "pending"}

\* Mutant of get_pending_commands: what is handed out stays pending.
get_pending_unmarked(d) ==
  LET pending == PendingFor(d) IN
  /\ status' = AfterCleanup
  /\ responses' = responses \cup {[to |-> d, cmds |-> pending]}
  /\ handed' = [c \in Command |-> IF c \in pending THEN handed[c] \cup {d} ELSE handed[c]]
  /\ UNCHANGED <<addressee, overdue, held>>

\* GET /commands/pending: cleanup, collect, mark executing, answer.
get_pending_commands(d) ==
  LET pending == PendingFor(d) IN
  /\ status' = [c \in Command |-> IF c \in pending THEN "executing" ELSE AfterCleanup[c]]
  /\ responses' = responses \cup {[to |-> d, cmds |-> pending]}
  /\ handed' = [c \in Command |-> IF c \in pending THEN handed[c] \cup {d} ELSE handed[c]]
  /\ UNCHANGED <<addressee, overdue, held>>

ReceiveResponse(r) ==
  /\ r \in responses
  /\ responses' = responses \ {r}
  /\ held' = [held EXCEPT ![r.to] = @ \cup r.cmds]
  /\ UNCHANGED <<status, addressee, overdue, handed>>

\* The connection breaks while the response is on its way; nothing resends it.
LoseResponse(r) ==
  /\ r \in responses
  /\ responses' = responses \ {r}
  /\ UNCHANGED <<status, addressee, overdue, held, handed>>

\* POST /commands/{id}/result with success: mark_completed.
mark_completed(d, c) ==
  /\ c \in held[d]
  /\ held' = [held EXCEPT ![d] = @ \ {c}]
  /\ status' = [status EXCEPT ![c] = IF Known(c) THEN "completed" ELSE @]
  /\ UNCHANGED <<addressee, overdue, responses, handed>>

\* POST /commands/{id}/result without success: mark_failed.
mark_failed(d, c) ==
  /\ c \in held[d]
  /\ held' = [held EXCEPT ![d] = @ \ {c}]
  /\ status' = [status EXCEPT ![c] = IF Known(c) THEN "failed" ELSE @]
  /\ UNCHANGED <<addressee, overdue, responses, handed>>

\* The report never reaches the backend; the client does not repeat it.
LoseReport(d, c) ==
  /\ c \in held[d]
  /\ held' = [held EXCEPT ![d] = @ \ {c}]
  /\ UNCHANGED <<status, addressee, overdue, responses, handed>>

Poll(d) == get_pending_commands(d)

QueueNext ==
  \/ \E c \in Command : add_command(c) \/ GrowOld(c)
  \/ \E d \in Device : Poll(d)
  \/ \E r \in responses : ReceiveResponse(r) \/ LoseResponse(r)
  \/ \E d \in Device : \E c \in held[d] :
       mark_completed(d, c) \/ mark_failed(d, c) \/ LoseReport(d, c)

QueueSpec == QueueInit /\ [][QueueNext]_queueVars

(***************************************************************************)
(* Properties                                                              *)
(***************************************************************************)

\* A command is handed out once at most, to the device it is addressed to,
\* whatever the polls, expiries and late reports in between; a command that
\* was handed out never counts as pending again.
HandedOnce ==
  /\ \A c \in Command : handed[c] \subseteq {addressee[c]}
  /\ \A c \in Command : handed[c] # {} => status[c] # "pending"
  /\ \A r1, r2 \in responses : r1 # r2 => r1.cmds \cap r2.cmds = {}
  /\ \A r \in responses : \A d \in Device : r.cmds \cap held[d] = {}

\* A poll never hands out a command that is already too old, and one that
\* expired before it was handed out never reaches a device later.
NeverHandedLate ==
  [][\A c \in Command : handed'[c] # handed[c] => c \notin overdue]_queueVars

\* The device's report of success is final: no later poll, cleanup or report
\* turns a completed command into anything else.
CompletedIsFinal ==
  [][\A c \in Command : status[c] = "completed" => status'[c] = "completed"]_queueVars

\* The queue implements the delivery promise: waiting, then taken or dropped.
Fate == [c \in Command |->
           IF ~Known(c) THEN "absent"
           ELSE IF handed[c] # {} THEN "taken"
           ELSE IF status[c] = "pending" THEN "waiting" ELSE "dropped"]

Delivery == INSTANCE CommandDelivery WITH fate <- Fate, taker <- handed

ImplementsDelivery == Delivery!Spec
=============================================================================
