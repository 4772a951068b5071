---------------------------- MODULE TaskProgress ----------------------------
(***************************************************************************)
(* services/task_progress.py: the todo list of one session.  Every method  *)
(* is synchronous, so each is one action; the coordinator calls all but    *)
(* abort_task, which the background WebSocket reader calls when the user   *)
(* cancels.  Broadcasts are sent by tasks of their own and change nothing. *)
(***************************************************************************)
EXTENDS Naturals, Sequences

CONSTANT MaxItems      \* bound: the longest list start_task is given

ASSUME MaxItemsIsNatural == MaxItems \in Nat

VARIABLES
  known,         \* the session has an entry in _sessions
  items,         \* the status of each TaskProgressItem
  current_index, \* counted from 0
  is_complete,
  is_aborted,
  event          \* the session's cancel event is set

progressVars == <<known, items, current_index, is_complete, is_aborted, event>>

ItemStatus == {"pending", "in_progress", "completed", "failed"}

Lists == UNION {[1..n -> ItemStatus] : n \in 0..MaxItems}

ProgressTypeOK ==
  /\ items \in Lists
  /\ current_index \in 0..Len(items) + 1
  /\ known \in BOOLEAN /\ is_complete \in BOOLEAN /\ is_aborted \in BOOLEAN /\ event \in BOOLEAN

ProgressInit ==
  /\ items = <<>> /\ current_index = 0
  /\ known = FALSE /\ is_complete = FALSE /\ is_aborted = FALSE /\ event = FALSE

Settled == is_complete \/ is_aborted

\* items[i] counted from 0, as in the source; no effect past the end.
Marked(list, i, status) ==
  IF i < Len(list) THEN [list EXCEPT ![i + 1] = status] ELSE list

start_task(n) ==
  /\ items' = Marked([i \in 1..n |-> "pending"], 0, "in_progress")
  /\ current_index' = 0
  /\ known' = TRUE /\ is_complete' = FALSE /\ is_aborted' = FALSE /\ event' = FALSE

\* Mutant of complete_current_step: the next item is not put in progress.
complete_only(success) ==
  /\ known /\ ~Settled
  /\ items' = Marked(items, current_index, IF success THEN "completed" ELSE "failed")
  /\ current_index' = IF current_index > Len(items) THEN current_index ELSE current_index + 1
  /\ UNCHANGED <<known, is_complete, is_aborted, event>>

complete_current_step(success) ==
  /\ known /\ ~Settled
  /\ LET done == Marked(items, current_index, IF success THEN "completed" ELSE "failed")
     IN items' = Marked(done, current_index + 1, "in_progress")
  \* Past the end only current_index < len(items) is ever asked: capped there.
  /\ current_index' = IF current_index > Len(items) THEN current_index ELSE current_index + 1
  /\ UNCHANGED <<known, is_complete, is_aborted, event>>

\* Mutant of finish_task: it forgets is_aborted.
finish_aborted_too ==
  /\ known /\ ~is_complete
  /\ is_complete' = TRUE
  /\ UNCHANGED <<known, items, current_index, is_aborted, event>>

finish_task ==
  /\ known /\ ~Settled
  /\ items' = [i \in DOMAIN items |->
                 IF items[i] \in {"completed", "failed"} THEN items[i] ELSE "completed"]
  /\ is_complete' = TRUE
  /\ UNCHANGED <<known, current_index, is_aborted, event>>

abort_task ==
  /\ known
  /\ is_aborted' = TRUE /\ event' = TRUE
  /\ items' = Marked(items, current_index, "failed")
  /\ UNCHANGED <<known, current_index, is_complete>>

ProgressNext ==
  \/ \E n \in 0..MaxItems : start_task(n)
  \/ \E success \in BOOLEAN : complete_current_step(success)
  \/ finish_task
  \/ abort_task

ProgressSpec == ProgressInit /\ [][ProgressNext]_progressVars

(***************************************************************************)
(* Properties                                                              *)
(***************************************************************************)

\* While a task runs, exactly the item under current_index is in progress:
\* everything before it is settled and everything after it is untouched.
OneItemInProgress ==
  known /\ ~Settled =>
    \A i \in DOMAIN items :
      /\ i < current_index + 1 => items[i] \in {"completed", "failed"}
      /\ i = current_index + 1 => items[i] = "in_progress"
      /\ i > current_index + 1 => items[i] = "pending"

\* A complete list shows no step as waiting or running.
CompleteListIsSettled ==
  is_complete => \A i \in DOMAIN items : items[i] \in {"completed", "failed"}

\* What the user is shown of the steps is true while the task runs and after its end, also
\* when the cancel comes between the two.
ItemsAreHonest == OneItemInProgress /\ CompleteListIsSettled

\* The progress service keeps the promise the coordinator relies on.
Flags == INSTANCE TaskFlags WITH
  task <- [known |-> known, complete |-> is_complete, aborted |-> is_aborted,
           cancelled |-> event]

ImplementsFlags == Flags!TaskSpec
=============================================================================
