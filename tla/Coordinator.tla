----------------------------- MODULE Coordinator -----------------------------
(***************************************************************************)
(* agents/coordinator.py, Coordinator.execute: perceive, act, verify, and  *)
(* retry or replan, until the phases of the goal are done, a budget is     *)
(* spent or the user cancels.  The planner, the reactive step generator,   *)
(* the perceiver and the device are asked, and may answer anything their   *)
(* code lets through.  pc names the await the coordinator is suspended at, *)
(* which is where a cancel from the WebSocket reader can come in.          *)
(*                                                                         *)
(* The subgoals before current_subgoal_index are the completed ones, so    *)
(* only the others are kept (rest), and only the phases still to do; of    *)
(* the subgoals in rest only the first was ever attempted.                 *)
(***************************************************************************)
EXTENDS Naturals, Sequences, TaskFlags

CONSTANTS
  StepActs,               \* the kinds of step the generator proposes
  Commits, NoCommit,      \* the irreversible effects a user may ask for
  MaxPhases, MaxPlan,     \* bounds: phases of a goal, steps of a replan
  MAX_TOTAL_ACTIONS, MAX_REPLAN_ATTEMPTS, MAX_SCROLL_SEARCH,
  MaxAttempts,            \* failures of one subgoal before it is skipped (3)
  MaxGestureFailures,     \* failures in a row that end the task (6)
  MaxRecovery,            \* recovery plans for a stuck screen (2)
  MaxRetries,             \* retries of a generator that answers nothing (2)
  SameTap, SameScreen,    \* repetitions that count as a loop (3 and 3)
  TapRepeat, OtherRepeat  \* the same for proposed steps (2 and 3)

\* "tap" stands for the gestures that need an element located on the screen,
\* "tap_at" for one whose coordinates the generator read off its screenshot,
\* "key" for every other gesture without a target.
Acts == {"tap", "tap_at", "type", "open_app", "key", "ask_user", "stuck", "web_search"}

ASSUME StepActsAssumption == {"key", "open_app"} \subseteq StepActs /\ StepActs \subseteq Acts
ASSUME CommitAssumption == NoCommit \notin Commits
ASSUME BoundAssumption ==
  /\ {MaxPhases, MaxPlan, MAX_TOTAL_ACTIONS, MaxAttempts, MaxGestureFailures,
      SameTap, SameScreen} \subseteq Nat \ {0}
  /\ {MAX_REPLAN_ATTEMPTS, MAX_SCROLL_SEARCH, MaxRecovery, MaxRetries,
      TapRepeat, OtherRepeat} \subseteq Nat
  /\ SameScreen > 1

VARIABLES
  pc,     \* where execute is suspended, "idle" before the first task
  goal,   \* the Goal, with the attempts and the rung of its current subgoal
  run,    \* execute's counters
  hist    \* history: what was asked of this task and what was fired for it

vars == <<pc, goal, run, hist, task>>

-----------------------------------------------------------------------------
(* Goals and subgoals: agent_state.py *)

RETRY_LADDER == <<"same_action", "alternate_selector", "scroll_and_retry",
                  "vision_fallback", "abort">>

Least(m, n) == IF m < n THEN m ELSE n

\* No comparison of the code tells larger attempt counts apart.
AttemptCap ==
  IF MaxAttempts > MAX_SCROLL_SEARCH + 2 THEN MaxAttempts ELSE MAX_SCROLL_SEARCH + 2

\* commit: the requested effect a step's target names; last: it carries
\* __phase_complete__; fresh: no gesture was fired since it was decided.
Step == [act : StepActs, commit : Commits \cup {NoCommit}, last : BOOLEAN, fresh : BOOLEAN]

GoalState ==
  [phases : Seq({"open", "other"}), rest : Seq(Step), att : 0..AttemptCap, rung : 0..4,
   pending : SUBSET Commits, completed : BOOLEAN, aborted : BOOLEAN]

NoGoal == [phases |-> <<>>, rest |-> <<>>, att |-> 0, rung |-> 0, pending |-> {},
           completed |-> FALSE, aborted |-> FALSE]

Current == Head(goal.rest)

advance_phase(g) == [g EXCEPT !.phases = IF @ = <<>> THEN <<>> ELSE Tail(@)]

advance_subgoal(g) == [g EXCEPT !.rest = Tail(@), !.att = 0, !.rung = 0]

\* The subgoal is over, and its phase with it if the subgoal says so.
AdvanceFlagged(g) ==
  IF Head(g.rest).last THEN advance_phase(advance_subgoal(g)) ELSE advance_subgoal(g)

Attempted(g) == [g EXCEPT !.att = Least(@ + 1, AttemptCap)]

escalate_strategy(g) == [g EXCEPT !.rung = Least(@ + 1, 4)]

current_strategy(g) == RETRY_LADDER[g.rung + 1]

\* A gesture changes the screen every queued step was decided on.
Disturbed(g) == [g EXCEPT !.rest = [i \in DOMAIN @ |-> [@[i] EXCEPT !.fresh = FALSE]]]

_apply_replan(g, plan) ==
  [g EXCEPT !.rest = plan, !.att = 0, !.rung = 0, !.completed = FALSE, !.aborted = FALSE]

\* What PlannerAgent.replan lets through: no flags, no coordinates, known
\* action types only, and never nothing.
Planned == {s \in Step : s.fresh /\ ~s.last /\ s.act \notin {"stuck", "tap_at"}}

Plans(n) == UNION {[1..k -> Planned] : k \in 1..Least(n, MaxPlan)}

\* What the reactive generator returns, and what it does to the goal while it
\* builds the step: it ticks off the commit the step's target names and, when
\* the model calls the goal done, it advances every phase.
Generated == {s \in Step : s.fresh}

Generate(g, s, done) ==
  [g EXCEPT !.pending = @ \ {s.commit}, !.phases = IF done THEN <<>> ELSE @]

Append1(g, s) == [g EXCEPT !.rest = Append(@, s)]

-----------------------------------------------------------------------------
(* The counters of execute, and how a handler ends *)

ActionType(act) == IF act = "tap_at" THEN "tap" ELSE act

NoRepeat == [act |-> "none", n |-> 0]

RunState ==
  [total : Nat, replans : Nat,
   failures : 0..MaxGestureFailures, rejected : 0..2, recoveries : 0..MaxRecovery,
   retries : 0..MaxRetries, same : 0..SameScreen, taps : 0..SameTap,
   repeat : [act : Acts \cup {"none"}, n : 0..TapRepeat + OtherRepeat]]

FreshRun ==
  [total |-> 0, replans |-> 0, failures |-> 0, rejected |-> 0, recoveries |-> 0,
   retries |-> 0, same |-> 0, taps |-> 0, repeat |-> NoRepeat]

History ==
  [wanted : SUBSET Commits, fired : SUBSET Commits, asked : BOOLEAN, late : Nat]

NoHistory == [wanted |-> {}, fired |-> {}, asked |-> FALSE, late |-> 0]

\* n gestures are fired; those after the cancel event was set are counted.
Fired(n) == hist' = [hist EXCEPT !.late = IF is_cancelled THEN @ + n ELSE 0]

Continue(g) == pc' = "top" /\ goal' = g

AbortGoal(g) == pc' = "finish" /\ goal' = [g EXCEPT !.aborted = TRUE]

CompleteGoal(g) == pc' = "finish" /\ goal' = [g EXCEPT !.completed = TRUE]

Raise(g) == pc' = "raised" /\ goal' = g

NextSubgoal(r) == [r EXCEPT !.replans = 0]

OneMoreReplan(r) == [r EXCEPT !.replans = @ + 1]

\* Replan and broadcast the task anew: this replaces the cancel event.
Replan(g, r, n) ==
  /\ \E plan \in Plans(n) : Continue(_apply_replan(g, plan))
  /\ run' = r
  /\ start_task
  /\ hist' = [hist EXCEPT !.late = 0]

\* The same while the budget lasts; r counts it already.  n gestures went before.
ReplanOrAbort(g, r, n) ==
  \/ r.replans <= MAX_REPLAN_ATTEMPTS /\ Replan(g, r, MaxPlan)
  \/ r.replans > MAX_REPLAN_ATTEMPTS /\ AbortGoal(g) /\ run' = r /\ Fired(n) /\ UNCHANGED task

-----------------------------------------------------------------------------
(* A task begins, is planned and ends *)

\* The loop of execute is running, and looks at the cancel event.
Running == pc \in {"top", "step", "act", "post", "verify"}

Init ==
  /\ pc = "idle" /\ goal = NoGoal /\ run = FreshRun /\ hist = NoHistory
  /\ task = NoTask

\* execute is called; planning starts with a web search for hints.
Begin ==
  /\ pc \in {"idle", "done", "raised"}
  /\ pc' = "planning" /\ goal' = NoGoal /\ run' = FreshRun /\ hist' = NoHistory
  /\ UNCHANGED task

Plan ==
  /\ pc = "planning"
  /\ \E phases \in UNION {[1..n -> {"open", "other"}] : n \in 1..MaxPhases},
        wanted \in SUBSET Commits :
       /\ Continue([NoGoal EXCEPT !.phases = phases, !.pending = wanted])
       /\ hist' = [hist EXCEPT !.wanted = wanted, !.late = 0]
  /\ start_task
  /\ UNCHANGED run

\* The WebSocket reader gets cancel_task, at any time.
Cancel ==
  /\ abort_task
  /\ hist' = [hist EXCEPT !.asked = @ \/ Running]
  /\ UNCHANGED <<pc, goal, run>>

\* Mutant of Finish: success is broadcast whenever the loop ends.
FinishAlways ==
  /\ pc = "finish" /\ pc' = "done"
  /\ finish_task
  /\ UNCHANGED <<goal, run, hist>>

\* After the loop: keyboard, lesson, and the UI told of success only.
Finish ==
  /\ pc = "finish"
  /\ pc' = "done"
  /\ IF goal.completed /\ ~goal.aborted THEN finish_task ELSE UNCHANGED task
  /\ UNCHANGED <<goal, run, hist>>

-----------------------------------------------------------------------------
(* The top of the loop: cancelled, nothing left, or the next step *)

TopCancelled ==
  /\ pc = "top" /\ is_cancelled
  /\ AbortGoal(goal)
  /\ UNCHANGED <<run, hist, task>>

Idle == pc = "top" /\ ~is_cancelled /\ goal.rest = <<>>

\* Mutant of Busy: a subgoal that waits is started before the event is looked at.
BusyAnyway == pc = "top" /\ goal.rest # <<>>

Busy == pc = "top" /\ ~is_cancelled /\ goal.rest # <<>>

\* Mutant of AllPhasesDone: the end of the queue ends the goal, as in a goal
\* without phases.
QueueEmpty ==
  /\ Idle
  /\ CompleteGoal(goal)
  /\ UNCHANGED <<run, hist, task>>

AllPhasesDone ==
  /\ Idle /\ goal.phases = <<>>
  /\ CompleteGoal(goal)
  /\ UNCHANGED <<run, hist, task>>

BudgetExhausted ==
  /\ Busy \/ (Idle /\ goal.phases # <<>>)
  /\ run.total >= MAX_TOTAL_ACTIONS
  /\ AbortGoal(goal)
  /\ UNCHANGED <<run, hist, task>>

InPhase(kind) ==
  /\ Idle /\ goal.phases # <<>> /\ Head(goal.phases) = kind
  /\ run.total < MAX_TOTAL_ACTIONS

AlreadyInApp ==
  /\ InPhase("open")
  /\ Continue(advance_phase(goal))
  /\ UNCHANGED <<run, hist, task>>

OpenAppStep ==
  /\ InPhase("open")
  /\ Continue(Append1(goal, [act |-> "open_app", commit |-> NoCommit, last |-> TRUE, fresh |-> TRUE]))
  /\ run' = [run EXCEPT !.retries = 0]
  /\ UNCHANGED <<hist, task>>

\* The generator returns None: ask again, then give the phase up as complete.
RsgNone ==
  /\ InPhase("other")
  /\ \/ /\ run.retries < MaxRetries
        /\ run' = [run EXCEPT !.retries = @ + 1] /\ Continue(goal)
     \/ /\ run.retries >= MaxRetries
        /\ run' = [run EXCEPT !.retries = 0] /\ Continue(advance_phase(goal))
  /\ UNCHANGED <<hist, task>>

RsgStep ==
  /\ InPhase("other")
  /\ \E s \in Generated, done \in BOOLEAN : Continue(Append1(Generate(goal, s, done), s))
  /\ run' = [run EXCEPT !.retries = 0]
  /\ UNCHANGED <<hist, task>>

\* Mutant of StartStep: the budget is only looked at when the queue is empty.
StartStepUnchecked ==
  /\ Busy
  /\ pc' = "step"
  /\ UNCHANGED <<goal, run, hist, task>>

StartStep ==
  /\ Busy /\ run.total < MAX_TOTAL_ACTIONS
  /\ pc' = "step"
  /\ UNCHANGED <<goal, run, hist, task>>

-----------------------------------------------------------------------------
(* Before the gesture: interceptions, perception, the search for the target *)

At(place, acts) == pc = place /\ Current.act \in acts

TokenBudgetExceeded ==
  /\ pc = "step"
  /\ AbortGoal(goal)
  /\ UNCHANGED <<run, hist, task>>

\* An answer, or none to a plain question; HITL errors count as none.
AskUser ==
  /\ At("step", {"ask_user", "stuck"})
  /\ Continue(advance_subgoal(goal)) /\ run' = NextSubgoal(run)
  /\ UNCHANGED <<hist, task>>

StuckUnanswered ==
  /\ At("step", {"stuck"})
  /\ AbortGoal(goal)
  /\ UNCHANGED <<run, hist, task>>

WebSearch ==
  /\ At("step", {"web_search"})
  /\ Continue(advance_subgoal(goal)) /\ run' = NextSubgoal(run)
  /\ UNCHANGED <<hist, task>>

\* Mutant of Located: a search is not intercepted.
LocatedAnything ==
  /\ pc = "step" /\ Current.act \notin {"ask_user", "stuck"}
  /\ pc' = "act"
  /\ UNCHANGED <<goal, run, hist, task>>

\* No target to locate, or the target found.
Located ==
  /\ At("step", {"tap", "tap_at", "type", "open_app", "key"})
  /\ pc' = "act"
  /\ UNCHANGED <<goal, run, hist, task>>

PerceptionFails ==
  /\ At("step", {"tap"})
  /\ AbortGoal(goal)
  /\ UNCHANGED <<run, hist, task>>

WrongScreen ==
  /\ At("step", {"tap"})
  /\ ReplanOrAbort(goal, OneMoreReplan(run), 0)

\* _handle_target_not_found: scroll and look again while attempts are few,
\* then look with the vision model, then replan.  The scroll is not counted.
Scrolls(g) == IF g.att < MAX_SCROLL_SEARCH THEN 1 ELSE 0

Scrolled(g) ==
  IF Scrolls(g) = 1 THEN escalate_strategy(Attempted(Disturbed(g))) ELSE g

LooksAgain(g) == g.att <= MAX_SCROLL_SEARCH + 1

Looked(g) == IF LooksAgain(g) THEN escalate_strategy(Attempted(g)) ELSE g

FoundAfterAll ==
  /\ At("step", {"tap"})
  /\ \/ Scrolls(goal) = 1 /\ Continue(Scrolled(goal))
     \/ LooksAgain(Scrolled(goal)) /\ Continue(Looked(Scrolled(goal)))
  /\ Fired(Scrolls(goal))
  /\ UNCHANGED <<run, task>>

\* The perceiver's errors are not caught on this path.
SearchRaises ==
  /\ At("step", {"tap"})
  /\ \/ Scrolls(goal) = 1 /\ Raise(Scrolled(goal))
     \/ LooksAgain(Scrolled(goal)) /\ Raise(Looked(Scrolled(goal)))
  /\ Fired(Scrolls(goal))
  /\ UNCHANGED <<run, task>>

NotFound ==
  /\ At("step", {"tap"})
  /\ ReplanOrAbort(Looked(Scrolled(goal)), [OneMoreReplan(run) EXCEPT !.same = 0],
                   Scrolls(goal))

-----------------------------------------------------------------------------
(* The gesture *)

SnapshotRaises ==
  /\ pc = "act"
  /\ Raise(goal)
  /\ UNCHANGED <<run, hist, task>>

\* The attempt failed: another one, or the next subgoal after too many.
AfterFailure(g, skipped) ==
  IF Attempted(g).att >= MaxAttempts THEN skipped ELSE Attempted(g)

RunAfterFailure(g, r) == IF Attempted(g).att >= MaxAttempts THEN NextSubgoal(r) ELSE r

TooManyFailures == run.failures + 1 >= MaxGestureFailures

OneMoreFailure(r) == [r EXCEPT !.failures = @ + 1]

\* The requested field is not there, or no input field at all: nothing typed.
TypeRefused ==
  /\ At("act", {"type"})
  /\ LET next == AfterFailure(goal, advance_subgoal(goal))
     IN IF TooManyFailures THEN AbortGoal(next) ELSE Continue(next)
  /\ run' = RunAfterFailure(goal, OneMoreFailure(run))
  /\ UNCHANGED <<hist, task>>

\* The field holds the text already.  A tap may have been fired to focus it.
AlreadyTyped ==
  /\ At("act", {"type"})
  /\ Continue(advance_subgoal(goal)) /\ run' = NextSubgoal(run)
  /\ \E taps \in 0..1 : Fired(taps)
  /\ UNCHANGED task

\* A key press that failed before may be turned into a tap on the submit button.
HasCoordinates(g) ==
  \/ Head(g.rest).act \in {"tap", "tap_at"}
  \/ Head(g.rest).act = "key" /\ g.att >= 2

Gestures == IF Current.act = "type" THEN 1..2 ELSE {1}

\* Mutant of Acted: a gesture does not count.
ActedUncounted == run

Acted == [run EXCEPT !.total = @ + 1]

ActSucceeds ==
  /\ pc = "act"
  /\ pc' = "post" /\ goal' = Disturbed(goal)
  /\ run' = [Acted EXCEPT !.failures = 0,
               !.taps = IF HasCoordinates(goal) THEN Least(@ + 1, SameTap) ELSE @]
  /\ \E n \in Gestures :
       hist' = [hist EXCEPT !.late = IF is_cancelled THEN @ + n ELSE 0,
                            !.fired = @ \cup ({Current.commit} \cap Commits)]
  /\ UNCHANGED task

ActFails ==
  /\ pc = "act"
  /\ LET g == Disturbed(goal) IN
     \/ TooManyFailures /\ AbortGoal(g) /\ run' = OneMoreFailure(Acted)
     \/ /\ ~TooManyFailures
        /\ Continue(AfterFailure(g, AdvanceFlagged(g)))
        /\ run' = RunAfterFailure(g, OneMoreFailure(Acted))
  /\ \E n \in Gestures : Fired(n)
  /\ UNCHANGED task

-----------------------------------------------------------------------------
(* After the gesture: loops, launch, the screen afterwards *)

\* The third tap at the same place: scroll, then another element with the same
\* text if there is one, else replan.
CoordLoop ==
  LET scrolled == [run EXCEPT !.total = @ + 1, !.taps = 0] IN
  /\ pc = "post" /\ HasCoordinates(goal) /\ run.taps = SameTap
  /\ \/ /\ Current.act = "tap"
        /\ run' = [scrolled EXCEPT !.total = @ + 1]
        /\ Continue(goal) /\ Fired(2) /\ UNCHANGED task
     \/ ReplanOrAbort(goal, [OneMoreReplan(scrolled) EXCEPT !.same = 0], 1)

OpenAppDone ==
  /\ At("post", {"open_app"})
  /\ Continue(AdvanceFlagged(goal)) /\ run' = NextSubgoal(run)
  /\ UNCHANGED <<hist, task>>

CaptureRaises ==
  /\ pc = "post" /\ Current.act # "open_app"
  /\ Raise(goal)
  /\ UNCHANGED <<run, hist, task>>

\* capture_post_state: run.same counts the identical screens at the end of
\* screen_hash_history.
Capture ==
  /\ pc = "post" /\ Current.act # "open_app"
  /\ pc' = "verify"
  /\ run' \in {[run EXCEPT !.same = 1], [run EXCEPT !.same = @ + 1]}
  /\ UNCHANGED <<goal, hist, task>>

Looping == run.same = SameScreen

\* The screen stands still but was expected to: done as it is.
StillButDone ==
  /\ pc = "verify" /\ Looping
  /\ Current.last \/ Current.act \in {"tap", "tap_at"}
  /\ Continue(advance_subgoal(goal)) /\ run' = [NextSubgoal(run) EXCEPT !.same = 0]
  /\ UNCHANGED <<hist, task>>

StuckScreen ==
  /\ pc = "verify" /\ Looping /\ ~Current.last
  /\ \/ /\ run.recoveries < MaxRecovery
        /\ Replan(goal, [run EXCEPT !.recoveries = @ + 1, !.same = 0], 2)
     \/ /\ run.recoveries >= MaxRecovery
        /\ AbortGoal(goal) /\ UNCHANGED <<run, hist, task>>

\* go_back or scroll, then the same subgoal again.
RetryAfterGesture(g, r) ==
  /\ Continue(Attempted(Disturbed(g)))
  /\ run' = [r EXCEPT !.total = @ + 1]
  /\ Fired(1)
  /\ UNCHANGED task

ErrorScreen ==
  /\ pc = "verify" /\ ~Looping
  /\ RetryAfterGesture(goal, run)

HeuristicComplete ==
  /\ pc = "verify" /\ ~Looping
  /\ CompleteGoal([advance_subgoal(goal) EXCEPT !.phases = <<>>])
  /\ UNCHANGED <<run, hist, task>>

-----------------------------------------------------------------------------
(* Verification, which is one call with the generation of the next step *)

\* The generator's answer: no step or one, and the goal it leaves behind.
Answers ==
  {[step |-> <<>>, goal |-> goal]} \cup
  {[step |-> <<s>>, goal |-> Generate(goal, s, done)] :
     s \in IF goal.phases = <<>> THEN {} ELSE Generated, done \in BOOLEAN}

\* Without a step there is no verdict and the gesture passes, unless the guard
\* for commit and proceed taps finds the screen unchanged.
Rejected(a) ==
  /\ pc = "verify" /\ ~Looping
  /\ a.step # <<>> \/ Current.act \in {"tap", "tap_at"}

Accepted == pc = "verify" /\ ~Looping

OneMoreRejection == [run EXCEPT !.rejected = Least(@ + 1, 2)]

EarlyReplan ==
  \E a \in Answers :
    /\ Rejected(a)
    /\ run.rejected >= 1 /\ run.replans < MAX_REPLAN_ATTEMPTS
    /\ Replan(a.goal, [OneMoreReplan(run) EXCEPT !.rejected = 0], 3)

RetryLadder ==
  \E a \in Answers :
    LET retried == escalate_strategy(Attempted(a.goal)) IN
    /\ Rejected(a)
    /\ run.rejected < 1 \/ run.replans >= MAX_REPLAN_ATTEMPTS
    /\ \/ /\ current_strategy(retried) # "abort"
          /\ Continue(retried)
          /\ run' = OneMoreRejection
          /\ UNCHANGED <<hist, task>>
       \/ /\ current_strategy(retried) = "abort"
          /\ ReplanOrAbort(retried, [OneMoreReplan(OneMoreRejection) EXCEPT !.same = 0], 0)

NoRejection == [run EXCEPT !.rejected = 0]

\* Gmail's AI writer covers the body that was tapped.
AiOverlay ==
  \E a \in Answers :
    /\ Accepted /\ Current.act \in {"tap", "tap_at"}
    /\ RetryAfterGesture(a.goal, NoRejection)

\* The element tapped is not the one that would complete the phase.
PhaseMismatch ==
  \E a \in Answers :
    /\ Accepted /\ Current.act \in {"tap", "tap_at"} /\ Current.last
    /\ RetryAfterGesture([a.goal EXCEPT !.rest[1].last = FALSE], NoRejection)

Limit(act) == IF ActionType(act) = "tap" THEN TapRepeat ELSE OtherRepeat

\* The same-target counter after step s, proposed again or not.
Repeated(s, same) ==
  [act |-> ActionType(s.act), n |-> IF same THEN run.repeat.n + 1 ELSE 0]

\* The subgoal is verified; the next step goes to the end of the queue.
StepVerified ==
  \E a \in Answers :
    /\ Accepted
    /\ \/ /\ a.step = <<>>
          /\ run' = NextSubgoal(NoRejection)
          /\ Continue(AdvanceFlagged(a.goal))
       \/ /\ a.step # <<>>
          /\ \E same \in {FALSE, ActionType(a.step[1].act) = run.repeat.act} :
               LET r == Repeated(a.step[1], same) IN
               /\ r.n < Limit(a.step[1].act)
               /\ run' = [NextSubgoal(NoRejection) EXCEPT !.repeat = r]
          /\ Continue(AdvanceFlagged(Append1(a.goal, a.step[1])))
    /\ UNCHANGED <<hist, task>>

\* The generator proposes the same target over and over: replan, and the
\* verified subgoal is dropped without being marked complete.
RepeatLoop ==
  \E a \in Answers :
    /\ Accepted /\ a.step # <<>>
    /\ \E same \in {FALSE, ActionType(a.step[1].act) = run.repeat.act} :
         Repeated(a.step[1], same).n >= Limit(a.step[1].act)
    /\ ReplanOrAbort(Append1(a.goal, a.step[1]),
                     [OneMoreReplan(NoRejection) EXCEPT !.repeat = NoRepeat], 0)

-----------------------------------------------------------------------------
TopOfLoop ==
  TopCancelled \/ AllPhasesDone \/ BudgetExhausted \/ AlreadyInApp \/ OpenAppStep
    \/ RsgNone \/ RsgStep \/ StartStep

BeforeGesture ==
  TokenBudgetExceeded \/ AskUser \/ StuckUnanswered \/ WebSearch \/ Located
    \/ PerceptionFails \/ WrongScreen \/ FoundAfterAll \/ SearchRaises \/ NotFound

Gesture == SnapshotRaises \/ TypeRefused \/ AlreadyTyped \/ ActSucceeds \/ ActFails

AfterGesture ==
  CoordLoop \/ OpenAppDone \/ CaptureRaises \/ Capture \/ StillButDone \/ StuckScreen
    \/ ErrorScreen \/ HeuristicComplete

Verify ==
  EarlyReplan \/ RetryLadder \/ AiOverlay \/ PhaseMismatch \/ StepVerified \/ RepeatLoop

Execute ==
  Plan \/ TopOfLoop \/ BeforeGesture \/ Gesture \/ AfterGesture \/ Verify \/ Finish

Next == Begin \/ Cancel \/ Execute

Spec == Init /\ [][Next]_vars

\* execute keeps running: every await in it has a timeout of its own.
FairSpec == Spec /\ WF_vars(Execute)

(***************************************************************************)
(* Properties                                                              *)
(***************************************************************************)

TypeOK ==
  /\ Running \/ pc \in {"idle", "planning", "finish", "done", "raised"}
  /\ goal \in GoalState
  /\ run \in RunState
  /\ hist \in History
  /\ TaskTypeOK

\* The gestures: a task ends within two of the budget, and every gesture of a subgoal
\* starts within it.
BudgetBound ==
  /\ run.total <= MAX_TOTAL_ACTIONS + 2
  /\ pc \in {"step", "act"} => run.total < MAX_TOTAL_ACTIONS
  /\ pc \in {"post", "verify"} => run.total <= MAX_TOTAL_ACTIONS

\* The replans: the count that exceeds the limit is that of a task given up.
ReplanBound ==
  /\ run.replans <= MAX_REPLAN_ATTEMPTS + 1
  /\ run.replans > MAX_REPLAN_ATTEMPTS => goal.aborted

\* A task is reported complete only when no phase is left, and never together
\* with an abort, whichever of the ways out of the loop was taken.
CompletedMeansPhasesDone ==
  goal.completed => goal.phases = <<>> /\ ~goal.aborted /\ pc \in {"finish", "done"}

\* The bubble shows success only for the task that just succeeded, not for an
\* earlier one or one that went wrong; and a success is shown, unless the user
\* cancelled before the end.
UiMatchesResult ==
  /\ task.complete /\ pc \notin {"idle", "planning"} => goal.completed /\ pc = "done"
  /\ pc = "done" /\ goal.completed => task.complete \/ task.aborted

\* After the user's cancel is signalled and as long as it stays so, no more
\* than the gestures of one round of the loop are fired.
CancelStopsGestures == Running /\ is_cancelled => hist.late <= 3

\* A cancel signalled to an earlier task never stops the next one.
CancelOnlyIfAsked == Running /\ is_cancelled => hist.asked

\* The queue: what waits behind the current subgoal is at most what one replan put there.
QueueBound == Running => Len(goal.rest) <= MaxPlan

\* However failures, loops, recoveries and replans follow each other, a task stays within
\* its budgets of gestures and replans, and its steps never pile up.
Budgets == BudgetBound /\ ReplanBound /\ QueueBound

\* While a subgoal is at work there is one, and a question, a search or a
\* verified launch is never what gets fired or verified.
HitlNeverReachesActor ==
  /\ pc \in {"step", "act", "post", "verify"} => goal.rest # <<>>
  /\ pc \in {"act", "post", "verify"} => Current.act \notin {"ask_user", "stuck", "web_search"}
  /\ pc = "verify" => Current.act # "open_app"

\* agent_state.py:131 on pending_commits: the executor guarantees that the
\* requested effects fire before the goal counts as complete.
CommitsFireFirst == goal.completed => hist.wanted \subseteq hist.fired

\* task_progress.py:236 on the cancel event: signalled so that the loop stops,
\* so the top of the loop is never left for another step after a cancel.
CancelStopsLoop ==
  [][pc = "top" /\ hist.asked /\ pc' # "top" => pc' = "finish"]_vars

\* agent_state.py:121 on phases: each step is decided after observing the live
\* screen, so no gesture came between its decision and its first attempt.
DecidedOnLiveScreen == pc = "act" /\ goal.att = 0 => Current.fresh

\* Steps that cost nothing: questions, searches and texts already typed.
FreeStep == AskUser \/ WebSearch \/ AlreadyTyped

\* A task ends unless it takes free steps for ever.
Terminates == <>[][~FreeStep]_vars => []<>(pc \in {"idle", "done", "raised"})
=============================================================================
