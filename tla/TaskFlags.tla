------------------------------ MODULE TaskFlags ------------------------------
(***************************************************************************)
(* What services/task_progress.py promises about one session: whether a    *)
(* task is known, and whether it counts as complete, aborted or cancelled. *)
(* The coordinator and the cancel button both act on these flags; the list *)
(* of steps shown to the user is in TaskProgress, which refines this       *)
(* module.                                                                 *)
(***************************************************************************)
VARIABLE task      \* is_complete, is_aborted, the cancel event, session known

NoTask == [known |-> FALSE, complete |-> FALSE, aborted |-> FALSE, cancelled |-> FALSE]

NewTask == [known |-> TRUE, complete |-> FALSE, aborted |-> FALSE, cancelled |-> FALSE]

TaskState == [known : BOOLEAN, complete : BOOLEAN, aborted : BOOLEAN, cancelled : BOOLEAN]

TaskTypeOK == task \in TaskState

\* Mutant of start_task: the session's cancel event is kept.
start_task_same_event == task' = [NewTask EXCEPT !.cancelled = task.cancelled]

\* A new TaskProgress and a new cancel event replace those of the session.
start_task == task' = NewTask

finish_task ==
  task' = IF task.known /\ ~task.complete /\ ~task.aborted
            THEN [task EXCEPT !.complete = TRUE] ELSE task

\* Does not look at is_complete; without a task there is nothing to signal.
abort_task ==
  task' = IF task.known
            THEN [task EXCEPT !.aborted = TRUE, !.cancelled = TRUE] ELSE task

is_cancelled == task.cancelled

TaskSpec == task = NoTask /\ [][start_task \/ finish_task \/ abort_task]_task
=============================================================================
