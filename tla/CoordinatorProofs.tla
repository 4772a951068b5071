-------------------------- MODULE CoordinatorProofs --------------------------
(***************************************************************************)
(* Proofs about Coordinator, for every value of its budgets and bounds:    *)
(* all its invariants are proved, from one inductive invariant in three    *)
(* parts, about the goal, the counters and the flags.  What ends the task  *)
(* eventually is left to TLC.                                              *)
(***************************************************************************)
EXTENDS Coordinator, SequenceTheorems, TLAPS

-----------------------------------------------------------------------------
(* The goal *)

\* A goal in the loop: well formed, without a verdict, its queue within bounds.
InPlay(g) ==
  /\ g \in GoalState
  /\ ~g.completed /\ ~g.aborted
  /\ Len(g.rest) <= MaxPlan

\* A goal in the loop with a subgoal at work.
AtWork(g) == InPlay(g) /\ g.rest # <<>>

LEMMA BoundsAreNatural ==
  /\ AttemptCap \in Nat /\ MaxPlan \in Nat \ {0} /\ SameTap \in Nat /\ SameScreen \in Nat
  /\ MaxGestureFailures \in Nat \ {0} /\ MaxRecovery \in Nat /\ MaxRetries \in Nat
  /\ MAX_TOTAL_ACTIONS \in Nat \ {0} /\ MAX_REPLAN_ATTEMPTS \in Nat
  /\ TapRepeat \in Nat /\ OtherRepeat \in Nat /\ SameScreen > 1
BY BoundAssumption DEF AttemptCap

LEMMA SetRest ==
  ASSUME NEW g \in GoalState, NEW r \in Seq(Step)
  PROVE  /\ [g EXCEPT !.rest = r] \in GoalState /\ [g EXCEPT !.rest = r].rest = r
         /\ [g EXCEPT !.rest = r].completed = g.completed
         /\ [g EXCEPT !.rest = r].aborted = g.aborted
BY DEF GoalState

LEMMA SetPhases ==
  ASSUME NEW g \in GoalState, NEW p \in Seq({"open", "other"})
  PROVE  /\ [g EXCEPT !.phases = p] \in GoalState /\ [g EXCEPT !.phases = p].rest = g.rest
         /\ [g EXCEPT !.phases = p].phases = p
         /\ [g EXCEPT !.phases = p].completed = g.completed
         /\ [g EXCEPT !.phases = p].aborted = g.aborted
BY DEF GoalState

LEMMA SetPending ==
  ASSUME NEW g \in GoalState, NEW p \in SUBSET Commits
  PROVE  /\ [g EXCEPT !.pending = p] \in GoalState /\ [g EXCEPT !.pending = p].rest = g.rest
         /\ [g EXCEPT !.pending = p].phases = g.phases
         /\ [g EXCEPT !.pending = p].completed = g.completed
         /\ [g EXCEPT !.pending = p].aborted = g.aborted
BY DEF GoalState

LEMMA SetCompleted ==
  ASSUME NEW g \in GoalState, NEW b \in BOOLEAN
  PROVE  /\ [g EXCEPT !.completed = b] \in GoalState
         /\ [g EXCEPT !.completed = b].completed = b
         /\ [g EXCEPT !.completed = b].aborted = g.aborted
         /\ [g EXCEPT !.completed = b].phases = g.phases
         /\ [g EXCEPT !.completed = b].rest = g.rest
BY DEF GoalState

LEMMA SetAborted ==
  ASSUME NEW g \in GoalState, NEW b \in BOOLEAN
  PROVE  /\ [g EXCEPT !.aborted = b] \in GoalState
         /\ [g EXCEPT !.aborted = b].aborted = b
         /\ [g EXCEPT !.aborted = b].completed = g.completed
         /\ [g EXCEPT !.aborted = b].rest = g.rest
BY DEF GoalState

\* The attempts and the rung of the current subgoal start anew.
LEMMA SetUntried ==
  ASSUME NEW g \in GoalState
  PROVE  /\ [[g EXCEPT !.att = 0] EXCEPT !.rung = 0] \in GoalState
         /\ [[g EXCEPT !.att = 0] EXCEPT !.rung = 0].rest = g.rest
         /\ [[g EXCEPT !.att = 0] EXCEPT !.rung = 0].completed = g.completed
         /\ [[g EXCEPT !.att = 0] EXCEPT !.rung = 0].aborted = g.aborted
<1> DEFINE u == [g EXCEPT !.att = 0]
<1>1. u \in GoalState /\ u.rest = g.rest /\ u.completed = g.completed /\ u.aborted = g.aborted
  <2>1. AttemptCap \in Nat
    BY BoundsAreNatural
  <2> QED
    BY <2>1 DEF GoalState
<1>2. ASSUME NEW h \in GoalState
      PROVE  /\ [h EXCEPT !.rung = 0] \in GoalState /\ [h EXCEPT !.rung = 0].rest = h.rest
             /\ [h EXCEPT !.rung = 0].completed = h.completed
             /\ [h EXCEPT !.rung = 0].aborted = h.aborted
  BY DEF GoalState
<1> HIDE DEF u
<1>3. /\ [u EXCEPT !.rung = 0] \in GoalState /\ [u EXCEPT !.rung = 0].rest = g.rest
      /\ [u EXCEPT !.rung = 0].completed = g.completed
      /\ [u EXCEPT !.rung = 0].aborted = g.aborted
  BY <1>1, <1>2
<1> QED
  BY <1>3 DEF u

LEMMA NextPhase ==
  ASSUME NEW g, InPlay(g)
  PROVE  InPlay(advance_phase(g)) /\ advance_phase(g).rest = g.rest
<1> DEFINE p == IF g.phases = <<>> THEN <<>> ELSE Tail(g.phases)
<1>1. g.phases \in Seq({"open", "other"}) /\ g \in GoalState
  BY DEF GoalState, InPlay
<1>2. p \in Seq({"open", "other"})
  BY <1>1
<1>3. advance_phase(g) = [g EXCEPT !.phases = p]
  BY DEF advance_phase
<1> HIDE DEF p
<1> QED
  BY <1>1, <1>2, <1>3, SetPhases DEF InPlay

LEMMA NextSubgoalGoal ==
  ASSUME NEW g, AtWork(g)
  PROVE  InPlay(advance_subgoal(g)) /\ advance_subgoal(g).rest = Tail(g.rest)
<1> DEFINE h == [g EXCEPT !.rest = Tail(g.rest)]
<1>1. g \in GoalState /\ g.rest \in Seq(Step) /\ g.rest # <<>> /\ Len(g.rest) <= MaxPlan
  BY DEF GoalState, AtWork, InPlay
<1>2. Tail(g.rest) \in Seq(Step) /\ Len(Tail(g.rest)) <= MaxPlan
  BY <1>1, BoundsAreNatural
<1>3. h \in GoalState /\ h.rest = Tail(g.rest) /\ ~h.completed /\ ~h.aborted
  BY <1>1, <1>2, SetRest DEF AtWork, InPlay
<1>4. advance_subgoal(g) = [[h EXCEPT !.att = 0] EXCEPT !.rung = 0]
  BY DEF advance_subgoal
<1> HIDE DEF h
<1> QED
  BY <1>2, <1>3, <1>4, SetUntried DEF InPlay

LEMMA FlaggedSubgoal ==
  ASSUME NEW g, AtWork(g)
  PROVE  InPlay(AdvanceFlagged(g)) /\ AdvanceFlagged(g).rest = Tail(g.rest)
BY NextSubgoalGoal, NextPhase DEF AdvanceFlagged

LEMMA AttemptKeeps ==
  ASSUME NEW g, AtWork(g)
  PROVE  AtWork(Attempted(g)) /\ Attempted(g).rest = g.rest
<1>1. g \in GoalState /\ g.att \in Nat
  BY BoundsAreNatural DEF GoalState, AtWork, InPlay
<1>2. Least(g.att + 1, AttemptCap) \in 0..AttemptCap
  BY <1>1, BoundsAreNatural DEF Least
<1>3. /\ Attempted(g) \in GoalState /\ Attempted(g).rest = g.rest
      /\ Attempted(g).completed = g.completed /\ Attempted(g).aborted = g.aborted
  BY <1>1, <1>2 DEF GoalState, Attempted
<1> QED
  BY <1>3 DEF AtWork, InPlay

LEMMA EscalationKeeps ==
  ASSUME NEW g, AtWork(g)
  PROVE  AtWork(escalate_strategy(g)) /\ escalate_strategy(g).rest = g.rest
<1>1. g \in GoalState /\ g.rung \in 0..4
  BY DEF GoalState, AtWork, InPlay
<1>2. Least(g.rung + 1, 4) \in 0..4
  BY <1>1 DEF Least
<1>3. /\ escalate_strategy(g) \in GoalState /\ escalate_strategy(g).rest = g.rest
      /\ escalate_strategy(g).completed = g.completed
      /\ escalate_strategy(g).aborted = g.aborted
  BY <1>1, <1>2 DEF GoalState, escalate_strategy
<1> QED
  BY <1>3 DEF AtWork, InPlay

LEMMA DisturbanceKeeps ==
  ASSUME NEW g, AtWork(g)
  PROVE  AtWork(Disturbed(g)) /\ Head(Disturbed(g).rest).act = Head(g.rest).act
<1> DEFINE stale == [i \in DOMAIN g.rest |-> [g.rest[i] EXCEPT !.fresh = FALSE]]
<1>1. g \in GoalState /\ g.rest \in Seq(Step) /\ g.rest # <<>>
  BY DEF GoalState, AtWork, InPlay
<1>2. \A i \in 1..Len(g.rest) : g.rest[i] \in Step
  BY <1>1
<1>3. \A i \in 1..Len(g.rest) : [g.rest[i] EXCEPT !.fresh = FALSE] \in Step
  BY <1>2 DEF Step
<1>4. stale \in [1..Len(g.rest) -> Step]
  BY <1>1, <1>3
<1>5. stale \in Seq(Step) /\ Len(stale) = Len(g.rest)
  <2>1. Len(g.rest) \in Nat
    BY <1>1
  <2> HIDE DEF stale
  <2> QED
    BY <1>4, <2>1
<1>6. stale # <<>> /\ Head(stale).act = Head(g.rest).act
  <2>1. Len(g.rest) > 0 /\ 1 \in DOMAIN g.rest
    BY <1>1
  <2>2. stale[1] = [g.rest[1] EXCEPT !.fresh = FALSE]
    BY <2>1
  <2>3. g.rest[1] \in Step
    BY <1>2, <2>1, <1>1
  <2>4. stale[1].act = g.rest[1].act
    BY <2>2, <2>3 DEF Step
  <2>5. Head(g.rest) = g.rest[1]
    BY <1>1
  <2> HIDE DEF stale
  <2>6. stale # <<>> /\ Head(stale) = stale[1]
    BY <1>5, <2>1
  <2> QED
    BY <2>4, <2>5, <2>6
<1>7. Disturbed(g) = [g EXCEPT !.rest = stale]
  BY DEF Disturbed
<1> HIDE DEF stale
<1> QED
  BY <1>1, <1>5, <1>6, <1>7, SetRest DEF AtWork, InPlay

LEMMA GenerationKeeps ==
  ASSUME NEW g, InPlay(g), NEW s \in Step, NEW done \in BOOLEAN
  PROVE  InPlay(Generate(g, s, done)) /\ Generate(g, s, done).rest = g.rest
<1> DEFINE h == [g EXCEPT !.pending = g.pending \ {s.commit}]
           p == IF done THEN <<>> ELSE h.phases
<1>1. g \in GoalState /\ g.pending \ {s.commit} \in SUBSET Commits
  BY DEF GoalState, InPlay
<1>2. /\ h \in GoalState /\ h.rest = g.rest /\ h.phases = g.phases
      /\ h.completed = g.completed /\ h.aborted = g.aborted
  BY <1>1, SetPending
<1>3. g.phases \in Seq({"open", "other"}) /\ <<>> \in Seq({"open", "other"})
  BY <1>1 DEF GoalState
<1>4. p \in Seq({"open", "other"})
  BY <1>2, <1>3
<1>5. Generate(g, s, done) = [h EXCEPT !.phases = p]
  BY DEF Generate
<1> HIDE DEF h, p
<1> QED
  BY <1>2, <1>4, <1>5, SetPhases DEF InPlay

\* Appending is harmless to a queue that is empty or about to lose its head.
LEMMA AppendKeeps ==
  ASSUME NEW g, InPlay(g), NEW s \in Step
  PROVE  /\ g.rest = <<>> => InPlay(Append1(g, s))
         /\ g.rest # <<>> => /\ InPlay(AdvanceFlagged(Append1(g, s)))
                             /\ Append1(g, s) \in GoalState
                             /\ ~Append1(g, s).completed /\ ~Append1(g, s).aborted
<1> DEFINE q == Append(g.rest, s)
           h == Append1(g, s)
<1>1. g \in GoalState /\ g.rest \in Seq(Step) /\ Len(g.rest) <= MaxPlan
  BY DEF GoalState, InPlay
<1>2. q \in Seq(Step) /\ Len(q) = Len(g.rest) + 1 /\ q # <<>>
  BY <1>1
<1>3. h = [g EXCEPT !.rest = q]
  BY DEF Append1
<1> HIDE DEF q, h
<1>4. h \in GoalState /\ h.rest = q /\ ~h.completed /\ ~h.aborted
  BY <1>1, <1>2, <1>3, SetRest DEF InPlay
<1>5. ASSUME g.rest = <<>> PROVE InPlay(h)
  <2>1. Len(q) = 1
    BY <1>2, <1>5
  <2>2. 1 <= MaxPlan
    BY BoundsAreNatural
  <2> QED
    BY <1>4, <2>1, <2>2 DEF InPlay
<1>6. InPlay(AdvanceFlagged(h))
  <2> DEFINE t == Tail(q)
             u == [h EXCEPT !.rest = t]
             v == [[u EXCEPT !.att = 0] EXCEPT !.rung = 0]
  <2>1. t \in Seq(Step) /\ Len(t) = Len(g.rest)
    BY <1>1, <1>2
  <2> HIDE DEF t
  <2>2. u \in GoalState /\ u.rest = t /\ ~u.completed /\ ~u.aborted
    BY <1>4, <2>1, SetRest
  <2> HIDE DEF u
  <2>3. v \in GoalState /\ v.rest = t /\ ~v.completed /\ ~v.aborted
    BY <2>2, SetUntried
  <2>4. advance_subgoal(h) = v
    BY <1>4 DEF advance_subgoal, u, t
  <2> HIDE DEF v
  <2>5. InPlay(v)
    BY <1>1, <2>1, <2>3 DEF InPlay
  <2> QED
    BY <2>4, <2>5, NextPhase DEF AdvanceFlagged
<1> QED
  BY <1>4, <1>5, <1>6 DEF h

\* A replan discards what is left of the queue, whatever the goal was.
LEMMA ReplanKeeps ==
  ASSUME NEW g \in GoalState, NEW n \in Nat, NEW plan \in Plans(n)
  PROVE  InPlay(_apply_replan(g, plan))
<1> DEFINE h == [g EXCEPT !.rest = plan]
           u == [[h EXCEPT !.att = 0] EXCEPT !.rung = 0]
           v == [u EXCEPT !.completed = FALSE]
<1>1. PICK k \in 1..Least(n, MaxPlan) : plan \in [1..k -> Planned]
  BY DEF Plans
<1>2. k \in Nat /\ k <= MaxPlan
  BY <1>1, BoundsAreNatural DEF Least
<1>3. plan \in [1..k -> Step]
  BY <1>1 DEF Planned
<1>4. plan \in Seq(Step) /\ Len(plan) = k
  BY <1>2, <1>3
<1>5. h \in GoalState /\ h.rest = plan
  BY <1>4, SetRest
<1> HIDE DEF h
<1>6. u \in GoalState /\ u.rest = plan
  BY <1>5, SetUntried
<1> HIDE DEF u
<1>7. v \in GoalState /\ v.rest = plan /\ v.completed = FALSE
  BY <1>6, SetCompleted
<1>8. _apply_replan(g, plan) = [v EXCEPT !.aborted = FALSE]
  BY DEF _apply_replan, u, v, h
<1> HIDE DEF v
<1> QED
  BY <1>2, <1>4, <1>7, <1>8, SetAborted DEF InPlay

LEMMA SearchKeeps ==
  ASSUME NEW g, AtWork(g)
  PROVE  AtWork(Scrolled(g)) /\ AtWork(Looked(g))
BY DisturbanceKeeps, AttemptKeeps, EscalationKeeps DEF Scrolled, Looked

\* What is known of the goal wherever execute is suspended.
GoalInv ==
  /\ goal \in GoalState
  /\ pc \notin {"finish", "done"} => InPlay(goal)
  /\ HitlNeverReachesActor
  /\ CompletedMeansPhasesDone

(* How a handler leaves the goal, for each of the ways it can end. *)

LEMMA ContinueGoal ==
  ASSUME NEW g, InPlay(g), Continue(g)
  PROVE  GoalInv'
BY DEF Continue, InPlay, GoalInv, HitlNeverReachesActor, CompletedMeansPhasesDone

LEMMA RaiseGoal ==
  ASSUME NEW g, InPlay(g), Raise(g)
  PROVE  GoalInv'
BY DEF Raise, InPlay, GoalInv, HitlNeverReachesActor, CompletedMeansPhasesDone

LEMMA AbortedGoal ==
  ASSUME NEW g \in GoalState, ~g.completed, AbortGoal(g)
  PROVE  GoalInv' /\ goal'.aborted
<1>1. pc' = "finish" /\ goal' \in GoalState /\ goal'.aborted /\ ~goal'.completed
  BY SetAborted DEF AbortGoal
<1> QED
  BY <1>1 DEF GoalInv, HitlNeverReachesActor, CompletedMeansPhasesDone

LEMMA CompletedGoal ==
  ASSUME NEW g \in GoalState, ~g.aborted, g.phases = <<>>, CompleteGoal(g)
  PROVE  GoalInv'
<1>1. pc' = "finish" /\ goal' \in GoalState /\ ~goal'.aborted /\ goal'.phases = <<>>
  BY SetCompleted DEF CompleteGoal
<1> QED
  BY <1>1 DEF GoalInv, HitlNeverReachesActor, CompletedMeansPhasesDone

LEMMA ReplannedGoal ==
  ASSUME NEW g \in GoalState, NEW r, NEW n \in Nat, Replan(g, r, n)
  PROVE  GoalInv'
BY ReplanKeeps, ContinueGoal DEF Replan

LEMMA ReplannedOrAborted ==
  ASSUME NEW g \in GoalState, ~g.completed, NEW r, NEW n, ReplanOrAbort(g, r, n)
  PROVE  GoalInv'
BY ReplannedGoal, AbortedGoal, BoundsAreNatural DEF ReplanOrAbort

\* The subgoal stays at work.
LEMMA WorkGoes ==
  ASSUME NEW g, AtWork(g), goal' = g, pc' \in {"step", "act", "post", "verify"},
         pc' # "step" => Head(g.rest).act \notin {"ask_user", "stuck", "web_search"},
         pc' = "verify" => Head(g.rest).act # "open_app"
  PROVE  GoalInv'
BY DEF GoalInv, AtWork, InPlay, HitlNeverReachesActor, CompletedMeansPhasesDone, Current

\* What the generator does to the goal while it verifies.
LEMMA AnswerKeeps ==
  ASSUME NEW a \in Answers, AtWork(goal)
  PROVE  /\ AtWork(a.goal) /\ a.goal.rest = goal.rest
         /\ a.step # <<>> => a.step[1] \in Step
<1>1. CASE a = [step |-> <<>>, goal |-> goal]
  BY <1>1
<1>2. CASE \E s \in Generated, done \in BOOLEAN :
             a = [step |-> <<s>>, goal |-> Generate(goal, s, done)]
  <2>1. PICK s \in Generated, done \in BOOLEAN :
               a = [step |-> <<s>>, goal |-> Generate(goal, s, done)]
    BY <1>2
  <2>2. s \in Step
    BY DEF Generated
  <2>3. a.goal = Generate(goal, s, done) /\ a.step[1] = s
    BY <2>1
  <2>4. InPlay(a.goal) /\ a.goal.rest = goal.rest
    BY <2>2, <2>3, GenerationKeeps DEF AtWork
  <2> QED
    BY <2>2, <2>3, <2>4 DEF AtWork
<1> QED
  BY <1>1, <1>2 DEF Answers

LEMMA SpentKeeps ==
  ASSUME NEW g, AtWork(g)
  PROVE  /\ InPlay(AfterFailure(g, advance_subgoal(g)))
         /\ InPlay(AfterFailure(g, AdvanceFlagged(g)))
BY AttemptKeeps, NextSubgoalGoal, FlaggedSubgoal DEF AfterFailure, AtWork

LEMMA GoalTop ==
  ASSUME GoalInv, TopOfLoop
  PROVE  GoalInv'
<1>1. pc = "top" /\ InPlay(goal) /\ goal \in GoalState /\ ~goal.completed /\ ~goal.aborted
  BY DEF TopOfLoop, TopCancelled, AllPhasesDone, BudgetExhausted, AlreadyInApp, OpenAppStep,
         RsgNone, RsgStep, StartStep, Idle, Busy, InPhase, GoalInv, InPlay
<1>2. CASE TopCancelled
  BY <1>1, <1>2, AbortedGoal DEF TopCancelled
<1>3. CASE AllPhasesDone
  BY <1>1, <1>3, CompletedGoal DEF AllPhasesDone
<1>4. CASE BudgetExhausted
  BY <1>1, <1>4, AbortedGoal DEF BudgetExhausted
<1>5. CASE AlreadyInApp
  BY <1>1, <1>5, NextPhase, ContinueGoal DEF AlreadyInApp
<1>6. CASE OpenAppStep
  <2> DEFINE s == [act |-> "open_app", commit |-> NoCommit, last |-> TRUE, fresh |-> TRUE]
  <2>1. s \in Step
    BY StepActsAssumption DEF Step
  <2>2. goal.rest = <<>> /\ Continue(Append1(goal, s))
    BY <1>6 DEF OpenAppStep, InPhase, Idle
  <2> QED
    BY <1>1, <2>1, <2>2, AppendKeeps, ContinueGoal
<1>7. CASE RsgNone
  BY <1>1, <1>7, NextPhase, ContinueGoal DEF RsgNone
<1>8. CASE RsgStep
  <2>1. PICK s \in Generated, done \in BOOLEAN : Continue(Append1(Generate(goal, s, done), s))
    BY <1>8 DEF RsgStep
  <2>2. goal.rest = <<>> /\ s \in Step
    BY <1>8 DEF RsgStep, InPhase, Idle, Generated
  <2>3. InPlay(Generate(goal, s, done)) /\ Generate(goal, s, done).rest = <<>>
    BY <1>1, <2>2, GenerationKeeps
  <2> QED
    BY <2>1, <2>2, <2>3, AppendKeeps, ContinueGoal
<1>9. CASE StartStep
  BY <1>1, <1>9, WorkGoes DEF StartStep, Busy, AtWork
<1> QED
  BY <1>2, <1>3, <1>4, <1>5, <1>6, <1>7, <1>8, <1>9 DEF TopOfLoop

LEMMA GoalBefore ==
  ASSUME GoalInv, BeforeGesture
  PROVE  GoalInv'
<1>1. pc = "step" /\ AtWork(goal) /\ goal \in GoalState /\ ~goal.completed
  BY DEF BeforeGesture, TokenBudgetExceeded, AskUser, StuckUnanswered, WebSearch, Located,
         PerceptionFails, WrongScreen, FoundAfterAll, SearchRaises, NotFound, At, GoalInv,
         InPlay, AtWork, HitlNeverReachesActor
<1>2. CASE TokenBudgetExceeded
  BY <1>1, <1>2, AbortedGoal DEF TokenBudgetExceeded
<1>3. CASE AskUser
  BY <1>1, <1>3, NextSubgoalGoal, ContinueGoal DEF AskUser
<1>4. CASE StuckUnanswered
  BY <1>1, <1>4, AbortedGoal DEF StuckUnanswered
<1>5. CASE WebSearch
  BY <1>1, <1>5, NextSubgoalGoal, ContinueGoal DEF WebSearch
<1>6. CASE Located
  BY <1>1, <1>6, WorkGoes DEF Located, At, Current
<1>7. CASE PerceptionFails
  BY <1>1, <1>7, AbortedGoal DEF PerceptionFails
<1>8. CASE WrongScreen
  BY <1>1, <1>8, ReplannedOrAborted DEF WrongScreen
<1>9. AtWork(Scrolled(goal)) /\ AtWork(Looked(Scrolled(goal)))
  BY <1>1, SearchKeeps
<1>10. CASE FoundAfterAll
  BY <1>9, <1>10, ContinueGoal DEF FoundAfterAll, AtWork
<1>11. CASE SearchRaises
  BY <1>9, <1>11, RaiseGoal DEF SearchRaises, AtWork
<1>12. CASE NotFound
  BY <1>9, <1>12, ReplannedOrAborted DEF NotFound, AtWork, InPlay
<1> QED
  BY <1>2, <1>3, <1>4, <1>5, <1>6, <1>7, <1>8, <1>10, <1>11, <1>12 DEF BeforeGesture

LEMMA GoalGesture ==
  ASSUME GoalInv, Gesture
  PROVE  GoalInv'
<1>1. /\ pc = "act" /\ AtWork(goal)
      /\ Current.act \notin {"ask_user", "stuck", "web_search"}
  BY DEF Gesture, SnapshotRaises, TypeRefused, AlreadyTyped, ActSucceeds, ActFails, At,
         GoalInv, AtWork, HitlNeverReachesActor
<1>2. CASE SnapshotRaises
  BY <1>1, <1>2, RaiseGoal DEF SnapshotRaises, AtWork
<1>3. CASE TypeRefused
  BY <1>1, <1>3, SpentKeeps, ContinueGoal, AbortedGoal DEF TypeRefused, InPlay
<1>4. CASE AlreadyTyped
  BY <1>1, <1>4, NextSubgoalGoal, ContinueGoal DEF AlreadyTyped
<1>5. AtWork(Disturbed(goal)) /\ Head(Disturbed(goal).rest).act = Current.act
  BY <1>1, DisturbanceKeeps DEF Current
<1>6. CASE ActSucceeds
  BY <1>1, <1>5, <1>6, WorkGoes DEF ActSucceeds
<1>7. CASE ActFails
  BY <1>5, <1>7, SpentKeeps, ContinueGoal, AbortedGoal DEF ActFails, AtWork, InPlay
<1> QED
  BY <1>2, <1>3, <1>4, <1>6, <1>7 DEF Gesture

LEMMA GoalAfter ==
  ASSUME GoalInv, AfterGesture
  PROVE  GoalInv'
<1>1. /\ pc \in {"post", "verify"} /\ AtWork(goal) /\ goal \in GoalState /\ ~goal.completed
      /\ Current.act \notin {"ask_user", "stuck", "web_search"}
  BY DEF AfterGesture, CoordLoop, OpenAppDone, CaptureRaises, Capture, StillButDone,
         StuckScreen, ErrorScreen, HeuristicComplete, At, GoalInv, AtWork, InPlay,
         HitlNeverReachesActor
<1>2. CASE CoordLoop
  BY <1>1, <1>2, ReplannedOrAborted, ContinueGoal DEF CoordLoop, AtWork
<1>3. CASE OpenAppDone
  BY <1>1, <1>3, FlaggedSubgoal, ContinueGoal DEF OpenAppDone
<1>4. CASE CaptureRaises
  BY <1>1, <1>4, RaiseGoal DEF CaptureRaises, AtWork
<1>5. CASE Capture
  BY <1>1, <1>5, WorkGoes DEF Capture, Current
<1>6. CASE StillButDone
  BY <1>1, <1>6, NextSubgoalGoal, ContinueGoal DEF StillButDone
<1>7. CASE StuckScreen
  BY <1>1, <1>7, ReplannedGoal, AbortedGoal DEF StuckScreen
<1>8. CASE ErrorScreen
  BY <1>1, <1>8, DisturbanceKeeps, AttemptKeeps, ContinueGoal
     DEF ErrorScreen, RetryAfterGesture, AtWork
<1>9. CASE HeuristicComplete
  <2> DEFINE h == advance_subgoal(goal)
  <2>1. h \in GoalState /\ ~h.aborted
    BY <1>1, NextSubgoalGoal DEF InPlay
  <2>2. <<>> \in Seq({"open", "other"})
    OBVIOUS
  <2>3. CompleteGoal([h EXCEPT !.phases = <<>>])
    BY <1>9 DEF HeuristicComplete
  <2> HIDE DEF h
  <2> QED
    BY <2>1, <2>2, <2>3, SetPhases, CompletedGoal
<1> QED
  BY <1>2, <1>3, <1>4, <1>5, <1>6, <1>7, <1>8, <1>9 DEF AfterGesture

LEMMA GoalVerify ==
  ASSUME GoalInv, Verify
  PROVE  GoalInv'
<1>1. pc = "verify" /\ AtWork(goal) /\ Current.act \notin {"ask_user", "stuck", "web_search"}
  BY DEF Verify, EarlyReplan, RetryLadder, AiOverlay, PhaseMismatch, StepVerified, RepeatLoop,
         Rejected, Accepted, GoalInv, AtWork, HitlNeverReachesActor
<1>2. \A a \in Answers : AtWork(a.goal) /\ a.goal \in GoalState /\ ~a.goal.completed
  BY <1>1, AnswerKeeps DEF AtWork, InPlay
<1>3. CASE EarlyReplan
  BY <1>2, <1>3, ReplannedGoal DEF EarlyReplan
<1>4. CASE RetryLadder
  <2>1. PICK a \in Answers :
          LET retried == escalate_strategy(Attempted(a.goal)) IN
          \/ Continue(retried)
          \/ ReplanOrAbort(retried, [OneMoreReplan(OneMoreRejection) EXCEPT !.same = 0], 0)
    BY <1>4 DEF RetryLadder
  <2>2. AtWork(escalate_strategy(Attempted(a.goal)))
    BY <1>2, AttemptKeeps, EscalationKeeps
  <2> QED
    BY <2>1, <2>2, ContinueGoal, ReplannedOrAborted DEF AtWork, InPlay
<1>5. CASE AiOverlay
  BY <1>2, <1>5, DisturbanceKeeps, AttemptKeeps, ContinueGoal
     DEF AiOverlay, RetryAfterGesture, AtWork
<1>6. CASE PhaseMismatch
  <2>1. PICK a \in Answers :
          Continue(Attempted(Disturbed([a.goal EXCEPT !.rest[1].last = FALSE])))
    BY <1>6 DEF PhaseMismatch, RetryAfterGesture
  <2> DEFINE q == [a.goal.rest EXCEPT ![1] = [@ EXCEPT !.last = FALSE]]
             h == [a.goal EXCEPT !.rest = q]
  <2>2. AtWork(a.goal) /\ a.goal \in GoalState /\ a.goal.rest \in Seq(Step)
        /\ a.goal.rest # <<>> /\ Len(a.goal.rest) <= MaxPlan
    BY <1>2 DEF AtWork, InPlay, GoalState
  <2>3. a.goal.rest[1] \in Step /\ 1 \in 1..Len(a.goal.rest)
    BY <2>2
  <2>4. [a.goal.rest[1] EXCEPT !.last = FALSE] \in Step
    BY <2>3 DEF Step
  <2>5. q \in Seq(Step) /\ Len(q) = Len(a.goal.rest) /\ q # <<>>
    BY <2>2, <2>3, <2>4
  <2>6. [a.goal EXCEPT !.rest[1].last = FALSE] = h
    OBVIOUS
  <2> HIDE DEF q
  <2>7. h \in GoalState /\ h.rest = q /\ ~h.completed /\ ~h.aborted
    BY <2>2, <2>5, SetRest DEF AtWork, InPlay
  <2> HIDE DEF h
  <2>8. AtWork(h)
    BY <2>2, <2>5, <2>7 DEF AtWork, InPlay
  <2> QED
    BY <2>1, <2>6, <2>8, DisturbanceKeeps, AttemptKeeps, ContinueGoal DEF AtWork
<1>7. CASE StepVerified
  <2>1. PICK a \in Answers :
          \/ Continue(AdvanceFlagged(a.goal))
          \/ a.step # <<>> /\ Continue(AdvanceFlagged(Append1(a.goal, a.step[1])))
    BY <1>7 DEF StepVerified
  <2>2. AtWork(a.goal) /\ (a.step # <<>> => a.step[1] \in Step)
    BY <1>1, AnswerKeeps
  <2> QED
    BY <2>1, <2>2, FlaggedSubgoal, AppendKeeps, ContinueGoal DEF AtWork
<1>8. CASE RepeatLoop
  <2>1. PICK a \in Answers :
          /\ a.step # <<>>
          /\ ReplanOrAbort(Append1(a.goal, a.step[1]),
                           [OneMoreReplan(NoRejection) EXCEPT !.repeat = NoRepeat], 0)
    BY <1>8 DEF RepeatLoop
  <2>2. AtWork(a.goal) /\ a.step[1] \in Step
    BY <1>1, <2>1, AnswerKeeps
  <2>3. Append1(a.goal, a.step[1]) \in GoalState /\ ~Append1(a.goal, a.step[1]).completed
    BY <2>2, AppendKeeps DEF AtWork
  <2> QED
    BY <2>1, <2>3, ReplannedOrAborted
<1> QED
  BY <1>3, <1>4, <1>5, <1>6, <1>7, <1>8 DEF Verify

LEMMA NoGoalInPlay == InPlay(NoGoal)
<1>1. 0 \in 0..AttemptCap /\ 0 <= MaxPlan
  BY BoundsAreNatural
<1> QED
  BY <1>1 DEF InPlay, NoGoal, GoalState

LEMMA NewGoalInPlay ==
  ASSUME NEW phases \in UNION {[1..n -> {"open", "other"}] : n \in 1..MaxPhases},
         NEW wanted \in SUBSET Commits
  PROVE  InPlay([NoGoal EXCEPT !.phases = phases, !.pending = wanted])
<1> DEFINE h == [NoGoal EXCEPT !.phases = phases]
<1>1. PICK n \in 1..MaxPhases : phases \in [1..n -> {"open", "other"}]
  OBVIOUS
<1>2. n \in Nat
  BY <1>1, BoundAssumption
<1>3. phases \in Seq({"open", "other"})
  BY <1>1, <1>2
<1>4. h \in GoalState /\ h.rest = NoGoal.rest /\ ~h.completed /\ ~h.aborted
  BY <1>3, NoGoalInPlay, SetPhases DEF InPlay
<1>5. [NoGoal EXCEPT !.phases = phases, !.pending = wanted] = [h EXCEPT !.pending = wanted]
  BY DEF NoGoal
<1> HIDE DEF h
<1> QED
  BY <1>4, <1>5, NoGoalInPlay, SetPending DEF InPlay

LEMMA GoalStep ==
  ASSUME GoalInv, [Next]_vars
  PROVE  GoalInv'
<1>1. CASE Begin
  BY <1>1, NoGoalInPlay DEF Begin, GoalInv, InPlay, HitlNeverReachesActor,
     CompletedMeansPhasesDone, NoGoal
<1>2. CASE Cancel
  BY <1>2 DEF Cancel, GoalInv, HitlNeverReachesActor, CompletedMeansPhasesDone, Current
<1>3. CASE Plan
  BY <1>3, NewGoalInPlay, ContinueGoal DEF Plan
<1>4. CASE Finish
  BY <1>4 DEF Finish, GoalInv, HitlNeverReachesActor, CompletedMeansPhasesDone
<1>5. CASE UNCHANGED vars
  BY <1>5 DEF vars, GoalInv, HitlNeverReachesActor, CompletedMeansPhasesDone, Current
<1> QED
  BY <1>1, <1>2, <1>3, <1>4, <1>5, GoalTop, GoalBefore, GoalGesture, GoalAfter, GoalVerify
     DEF Next, Execute

-----------------------------------------------------------------------------
(* The counters *)

\* Counters of a loop that goes on, with at most n gestures counted.
Within(r, n) ==
  /\ r \in RunState
  /\ r.failures < MaxGestureFailures /\ r.same < SameScreen
  /\ r.total <= n /\ r.replans <= MAX_REPLAN_ATTEMPTS

LEMMA SetTotal ==
  ASSUME NEW r \in RunState, NEW n \in Nat
  PROVE  /\ [r EXCEPT !.total = n] \in RunState
         /\ [r EXCEPT !.total = n].total = n
         /\ [r EXCEPT !.total = n].replans = r.replans
         /\ [r EXCEPT !.total = n].failures = r.failures
         /\ [r EXCEPT !.total = n].same = r.same
BY DEF RunState

LEMMA SetReplans ==
  ASSUME NEW r \in RunState, NEW n \in Nat
  PROVE  /\ [r EXCEPT !.replans = n] \in RunState
         /\ [r EXCEPT !.replans = n].total = r.total
         /\ [r EXCEPT !.replans = n].replans = n
         /\ [r EXCEPT !.replans = n].failures = r.failures
         /\ [r EXCEPT !.replans = n].same = r.same
BY DEF RunState

LEMMA SetFailures ==
  ASSUME NEW r \in RunState, NEW n \in 0..MaxGestureFailures
  PROVE  /\ [r EXCEPT !.failures = n] \in RunState
         /\ [r EXCEPT !.failures = n].total = r.total
         /\ [r EXCEPT !.failures = n].replans = r.replans
         /\ [r EXCEPT !.failures = n].failures = n
         /\ [r EXCEPT !.failures = n].same = r.same
BY DEF RunState

LEMMA SetSame ==
  ASSUME NEW r \in RunState, NEW n \in 0..SameScreen
  PROVE  /\ [r EXCEPT !.same = n] \in RunState
         /\ [r EXCEPT !.same = n].total = r.total
         /\ [r EXCEPT !.same = n].replans = r.replans
         /\ [r EXCEPT !.same = n].failures = r.failures
         /\ [r EXCEPT !.same = n].same = n
BY DEF RunState

LEMMA SetTaps ==
  ASSUME NEW r \in RunState, NEW n \in 0..SameTap
  PROVE  /\ [r EXCEPT !.taps = n] \in RunState
         /\ [r EXCEPT !.taps = n].total = r.total
         /\ [r EXCEPT !.taps = n].replans = r.replans
         /\ [r EXCEPT !.taps = n].failures = r.failures
         /\ [r EXCEPT !.taps = n].same = r.same
BY DEF RunState

LEMMA SetRejected ==
  ASSUME NEW r \in RunState, NEW n \in 0..2
  PROVE  /\ [r EXCEPT !.rejected = n] \in RunState
         /\ [r EXCEPT !.rejected = n].total = r.total
         /\ [r EXCEPT !.rejected = n].replans = r.replans
         /\ [r EXCEPT !.rejected = n].failures = r.failures
         /\ [r EXCEPT !.rejected = n].same = r.same
BY DEF RunState

LEMMA SetRecoveries ==
  ASSUME NEW r \in RunState, NEW n \in 0..MaxRecovery
  PROVE  /\ [r EXCEPT !.recoveries = n] \in RunState
         /\ [r EXCEPT !.recoveries = n].total = r.total
         /\ [r EXCEPT !.recoveries = n].replans = r.replans
         /\ [r EXCEPT !.recoveries = n].failures = r.failures
         /\ [r EXCEPT !.recoveries = n].same = r.same
BY DEF RunState

LEMMA SetRetries ==
  ASSUME NEW r \in RunState, NEW n \in 0..MaxRetries
  PROVE  /\ [r EXCEPT !.retries = n] \in RunState
         /\ [r EXCEPT !.retries = n].total = r.total
         /\ [r EXCEPT !.retries = n].replans = r.replans
         /\ [r EXCEPT !.retries = n].failures = r.failures
         /\ [r EXCEPT !.retries = n].same = r.same
BY DEF RunState

LEMMA SetRepeat ==
  ASSUME NEW r \in RunState,
         NEW n \in [act : Acts \cup {"none"}, n : 0..TapRepeat + OtherRepeat]
  PROVE  /\ [r EXCEPT !.repeat = n] \in RunState
         /\ [r EXCEPT !.repeat = n].total = r.total
         /\ [r EXCEPT !.repeat = n].replans = r.replans
         /\ [r EXCEPT !.repeat = n].failures = r.failures
         /\ [r EXCEPT !.repeat = n].same = r.same
BY DEF RunState

LEMMA RunFields ==
  ASSUME NEW r \in RunState
  PROVE  /\ r.total \in Nat /\ r.replans \in Nat /\ r.failures \in Nat /\ r.same \in Nat
         /\ r.taps \in Nat /\ r.recoveries \in Nat /\ r.retries \in Nat /\ r.rejected \in Nat
         /\ r.failures \in 0..MaxGestureFailures /\ r.same \in 0..SameScreen
         /\ r.taps \in 0..SameTap /\ r.retries \in 0..MaxRetries
         /\ r.recoveries \in 0..MaxRecovery
         /\ r.repeat.act \in Acts \cup {"none"} /\ r.repeat.n \in Nat
BY BoundsAreNatural DEF RunState

\* A subgoal over, verified or refused, leaves the counters within their limits.
LEMMA WithinKeeps ==
  ASSUME NEW r, NEW n \in Nat, Within(r, n)
  PROVE  /\ Within(NextSubgoal(r), n)
         /\ Within([r EXCEPT !.rejected = 0], n)
         /\ Within([r EXCEPT !.rejected = Least(r.rejected + 1, 2)], n)
         /\ Within([r EXCEPT !.same = 0], n)
         /\ r.replans < MAX_REPLAN_ATTEMPTS => Within(OneMoreReplan(r), n)
<1>1. r \in RunState /\ r.rejected \in Nat /\ r.replans \in Nat
  BY RunFields DEF Within
<1>2. Least(r.rejected + 1, 2) \in 0..2 /\ 0 \in 0..2
  BY <1>1 DEF Least
<1>3. 0 <= MAX_REPLAN_ATTEMPTS /\ 0 < SameScreen /\ 0 \in 0..SameScreen
  BY BoundsAreNatural
<1>4. Within(NextSubgoal(r), n)
  BY <1>1, <1>3, SetReplans DEF NextSubgoal, Within
<1>5. /\ Within([r EXCEPT !.rejected = 0], n)
      /\ Within([r EXCEPT !.rejected = Least(r.rejected + 1, 2)], n)
  BY <1>1, <1>2, SetRejected DEF Within
<1>6. Within([r EXCEPT !.same = 0], n)
  BY <1>1, <1>3, SetSame DEF Within
<1>7. ASSUME r.replans < MAX_REPLAN_ATTEMPTS PROVE Within(OneMoreReplan(r), n)
  <2>1. r.replans + 1 \in Nat /\ r.replans + 1 <= MAX_REPLAN_ATTEMPTS
    BY <1>1, <1>7, BoundsAreNatural
  <2> QED
    BY <1>1, <2>1, SetReplans DEF OneMoreReplan, Within
<1> QED
  BY <1>4, <1>5, <1>6, <1>7

\* Counters about to be given to ReplanOrAbort: one replan more than before.
Counted(r, n) ==
  /\ r \in RunState
  /\ r.failures < MaxGestureFailures /\ r.same < SameScreen
  /\ r.total <= n /\ r.replans <= MAX_REPLAN_ATTEMPTS + 1

LEMMA ReplanCounted ==
  ASSUME NEW r, NEW n \in Nat, Within(r, n)
  PROVE  Counted(OneMoreReplan(r), n) /\ Counted([OneMoreReplan(r) EXCEPT !.same = 0], n)
<1> DEFINE s == [r EXCEPT !.replans = r.replans + 1]
<1>1. r \in RunState /\ r.replans \in Nat /\ r.replans + 1 <= MAX_REPLAN_ATTEMPTS + 1
  BY RunFields, BoundsAreNatural DEF Within
<1>2. Counted(s, n)
  BY <1>1, SetReplans DEF Within, Counted
<1>3. OneMoreReplan(r) = s
  BY DEF OneMoreReplan
<1> HIDE DEF s
<1>4. 0 \in 0..SameScreen /\ 0 < SameScreen
  BY BoundsAreNatural
<1>5. Counted([s EXCEPT !.same = 0], n)
  BY <1>2, <1>4, SetSame DEF Counted
<1> QED
  BY <1>2, <1>3, <1>5

MostActions == MAX_TOTAL_ACTIONS + 2

\* What is known of the counters wherever execute is suspended.
RunInv ==
  /\ run \in RunState
  /\ BudgetBound /\ ReplanBound
  /\ pc = "planning" => run = FreshRun
  /\ pc \in {"top", "step", "act", "post"} => Within(run, MostActions)
  /\ pc = "verify" => run.failures < MaxGestureFailures
  /\ pc \notin {"finish", "done"} => run.replans <= MAX_REPLAN_ATTEMPTS

(* How a handler leaves the counters, for each of the ways it can end. *)

LEMMA ContinueRun ==
  ASSUME Within(run', MostActions), pc' \in {"top", "raised"}
  PROVE  RunInv'
<1>1. run'.replans \in Nat /\ MAX_REPLAN_ATTEMPTS \in Nat
  BY RunFields, BoundsAreNatural DEF Within
<1> QED
  BY <1>1 DEF RunInv, Within, BudgetBound, ReplanBound, MostActions

LEMMA FinishRun ==
  ASSUME run' \in RunState, run'.total <= MostActions, pc' = "finish",
         run'.replans <= MAX_REPLAN_ATTEMPTS + 1,
         run'.replans <= MAX_REPLAN_ATTEMPTS \/ goal'.aborted
  PROVE  RunInv'
<1>1. run'.replans \in Nat /\ MAX_REPLAN_ATTEMPTS \in Nat
  BY RunFields, BoundsAreNatural
<1> QED
  BY <1>1 DEF RunInv, BudgetBound, ReplanBound, MostActions

LEMMA FinishWithin ==
  ASSUME Within(run', MostActions), pc' = "finish"
  PROVE  RunInv'
<1>1. run'.replans <= MAX_REPLAN_ATTEMPTS + 1
  BY RunFields, BoundsAreNatural DEF Within
<1> QED
  BY <1>1, FinishRun DEF Within

LEMMA AbortShows ==
  ASSUME NEW g, AbortGoal(g), GoalInv'
  PROVE  goal'.aborted
BY DEF AbortGoal, GoalInv, GoalState

LEMMA ReplanOrAbortRun ==
  ASSUME NEW g, NEW r, NEW n, Counted(r, MostActions), ReplanOrAbort(g, r, n), GoalInv'
  PROVE  RunInv'
<1>1. CASE r.replans <= MAX_REPLAN_ATTEMPTS /\ Replan(g, r, MaxPlan)
  BY <1>1, ContinueRun DEF Replan, Continue, Counted, Within
<1>2. CASE AbortGoal(g) /\ run' = r
  BY <1>2, AbortShows, FinishRun DEF AbortGoal, Counted
<1> QED
  BY <1>1, <1>2 DEF ReplanOrAbort

LEMMA SpentRun ==
  ASSUME NEW g, NEW r, NEW n \in Nat, Within(r, n)
  PROVE  Within(RunAfterFailure(g, r), n)
BY WithinKeeps DEF RunAfterFailure

LEMMA RunTop ==
  ASSUME RunInv, GoalInv', TopOfLoop
  PROVE  RunInv'
<1>1. pc = "top" /\ Within(run, MostActions) /\ run \in RunState /\ run.retries \in 0..MaxRetries
  BY RunFields
     DEF TopOfLoop, TopCancelled, AllPhasesDone, BudgetExhausted, AlreadyInApp, OpenAppStep,
         RsgNone, RsgStep, StartStep, Idle, Busy, InPhase, RunInv
<1>2. CASE TopCancelled \/ AllPhasesDone \/ BudgetExhausted
  BY <1>1, <1>2, FinishWithin
     DEF TopCancelled, AllPhasesDone, BudgetExhausted, AbortGoal, CompleteGoal
<1>3. CASE AlreadyInApp
  BY <1>1, <1>3, ContinueRun DEF AlreadyInApp, Continue
<1>4. CASE OpenAppStep \/ RsgStep \/ RsgNone
  <2>1. PICK n \in 0..MaxRetries : run' = [run EXCEPT !.retries = n] /\ pc' = "top"
    BY <1>1, <1>4, BoundsAreNatural DEF OpenAppStep, RsgStep, RsgNone, Continue
  <2>2. Within([run EXCEPT !.retries = n], MostActions)
    BY <1>1, SetRetries DEF Within
  <2> QED
    BY <2>1, <2>2, ContinueRun
<1>5. CASE StartStep
  BY <1>1, <1>5 DEF StartStep, RunInv, Within, BudgetBound, ReplanBound, MostActions
<1> QED
  BY <1>2, <1>3, <1>4, <1>5 DEF TopOfLoop

LEMMA RunBefore ==
  ASSUME RunInv, GoalInv', BeforeGesture
  PROVE  RunInv'
<1>1. pc = "step" /\ Within(run, MostActions) /\ run.total < MAX_TOTAL_ACTIONS
  BY DEF BeforeGesture, TokenBudgetExceeded, AskUser, StuckUnanswered, WebSearch, Located,
         PerceptionFails, WrongScreen, FoundAfterAll, SearchRaises, NotFound, At, RunInv,
         BudgetBound
<1>2. MostActions \in Nat
  BY BoundsAreNatural DEF MostActions
<1>3. CASE TokenBudgetExceeded \/ StuckUnanswered \/ PerceptionFails
  BY <1>1, <1>3, FinishWithin DEF TokenBudgetExceeded, StuckUnanswered, PerceptionFails, AbortGoal
<1>4. CASE AskUser \/ WebSearch
  BY <1>1, <1>2, <1>4, WithinKeeps, ContinueRun DEF AskUser, WebSearch, Continue
<1>5. CASE Located
  BY <1>1, <1>5 DEF Located, RunInv, BudgetBound, ReplanBound
<1>6. CASE WrongScreen
  BY <1>1, <1>2, <1>6, ReplanCounted, ReplanOrAbortRun DEF WrongScreen
<1>7. CASE FoundAfterAll \/ SearchRaises
  BY <1>1, <1>7, ContinueRun DEF FoundAfterAll, SearchRaises, Continue, Raise
<1>8. CASE NotFound
  BY <1>1, <1>2, <1>8, ReplanCounted, ReplanOrAbortRun DEF NotFound
<1> QED
  BY <1>3, <1>4, <1>5, <1>6, <1>7, <1>8 DEF BeforeGesture

LEMMA RunGesture ==
  ASSUME RunInv, GoalInv', Gesture
  PROVE  RunInv'
<1>1. pc = "act" /\ Within(run, MostActions) /\ run.total < MAX_TOTAL_ACTIONS
  BY DEF Gesture, SnapshotRaises, TypeRefused, AlreadyTyped, ActSucceeds, ActFails, At, RunInv,
         BudgetBound
<1>2. /\ MostActions \in Nat /\ MAX_TOTAL_ACTIONS <= MostActions
      /\ MAX_TOTAL_ACTIONS \in Nat
  BY BoundsAreNatural DEF MostActions
<1>3. CASE SnapshotRaises
  BY <1>1, <1>3, ContinueRun DEF SnapshotRaises, Raise
<1>4. CASE AlreadyTyped
  BY <1>1, <1>2, <1>4, WithinKeeps, ContinueRun DEF AlreadyTyped, Continue
<1>5. /\ Acted \in RunState /\ Acted.total = run.total + 1 /\ Acted.same = run.same
      /\ Acted.replans = run.replans /\ Acted.failures = run.failures
  <2>1. run \in RunState /\ run.total + 1 \in Nat
    BY <1>1, RunFields DEF Within
  <2> QED
    BY <2>1, SetTotal DEF Acted
<1>6. Within(Acted, MAX_TOTAL_ACTIONS) /\ Within(Acted, MostActions)
  <2>1. run.total \in Nat
    BY <1>1, RunFields DEF Within
  <2> QED
    BY <1>1, <1>2, <1>5, <2>1 DEF Within
\* One more failure, in a run whose counters are otherwise within limits.
<1>7. ASSUME NEW r, Within(r, MostActions), r.failures = run.failures
      PROVE  /\ OneMoreFailure(r) \in RunState
             /\ OneMoreFailure(r).total <= MostActions
             /\ OneMoreFailure(r).replans <= MAX_REPLAN_ATTEMPTS
             /\ ~TooManyFailures => Within(OneMoreFailure(r), MostActions)
  <2>1. r \in RunState /\ r.failures \in Nat /\ r.failures < MaxGestureFailures
    BY <1>7, RunFields DEF Within
  <2>2. r.failures + 1 \in 0..MaxGestureFailures
    BY <2>1, BoundsAreNatural
  <2>3. ~TooManyFailures => r.failures + 1 < MaxGestureFailures
    BY <1>7, <2>1, BoundsAreNatural DEF TooManyFailures
  <2> QED
    BY <1>7, <2>1, <2>2, <2>3, SetFailures DEF OneMoreFailure, Within
<1>8. CASE TypeRefused
  <2>1. CASE TooManyFailures
    <3>1. run' = RunAfterFailure(goal, OneMoreFailure(run)) /\ pc' = "finish"
      BY <1>8, <2>1 DEF TypeRefused, AbortGoal
    <3>2. OneMoreFailure(run) \in RunState
      BY <1>1, <1>7
    <3>3. /\ run' \in RunState /\ run'.total <= MostActions
          /\ run'.replans <= MAX_REPLAN_ATTEMPTS
      <4>1. 0 \in Nat /\ 0 <= MAX_REPLAN_ATTEMPTS
        BY BoundsAreNatural
      <4> QED
        BY <1>1, <1>7, <3>1, <3>2, <4>1, SetReplans DEF RunAfterFailure, NextSubgoal
    <3>4. run'.replans <= MAX_REPLAN_ATTEMPTS + 1
      BY <3>3, RunFields, BoundsAreNatural
    <3> QED
      BY <3>1, <3>3, <3>4, FinishRun
  <2>2. CASE ~TooManyFailures
    BY <1>1, <1>2, <1>7, <1>8, <2>2, SpentRun, ContinueRun DEF TypeRefused, Continue
  <2> QED
    BY <2>1, <2>2
<1>9. CASE ActSucceeds
  <2> DEFINE n == IF HasCoordinates(goal) THEN Least(run.taps + 1, SameTap) ELSE run.taps
             a == [Acted EXCEPT !.failures = 0]
  <2>1. run.taps \in 0..SameTap /\ run.taps \in Nat
    BY <1>1, RunFields DEF Within
  <2>2. n \in 0..SameTap
    BY <2>1, BoundsAreNatural DEF Least
  <2>3. run' = [a EXCEPT !.taps = n] /\ pc' = "post"
    BY <1>9 DEF ActSucceeds, Acted
  <2>4. 0 \in 0..MaxGestureFailures /\ 0 < MaxGestureFailures
    BY BoundsAreNatural
  <2>5. Within(a, MAX_TOTAL_ACTIONS)
    BY <1>6, <2>4, SetFailures DEF Within
  <2> HIDE DEF a, n
  <2>6. Within([a EXCEPT !.taps = n], MAX_TOTAL_ACTIONS)
    BY <2>2, <2>5, SetTaps DEF Within
  <2>7. run'.total \in Nat /\ run'.replans \in Nat
    BY <2>3, <2>6, RunFields DEF Within
  <2> QED
    BY <1>2, <2>3, <2>6, <2>7, BoundsAreNatural
       DEF RunInv, Within, BudgetBound, ReplanBound, MostActions
<1>10. CASE ActFails
  <2>1. CASE run' = OneMoreFailure(Acted) /\ pc' = "finish"
    <3>1. /\ run' \in RunState /\ run'.total <= MostActions
          /\ run'.replans <= MAX_REPLAN_ATTEMPTS
      BY <1>5, <1>6, <1>7, <2>1
    <3>2. run'.replans <= MAX_REPLAN_ATTEMPTS + 1
      BY <3>1, RunFields, BoundsAreNatural
    <3> QED
      BY <2>1, <3>1, <3>2, FinishRun
  <2>2. CASE /\ ~TooManyFailures /\ pc' = "top"
             /\ run' = RunAfterFailure(Disturbed(goal), OneMoreFailure(Acted))
    BY <1>2, <1>5, <1>6, <1>7, <2>2, SpentRun, ContinueRun
  <2> QED
    BY <1>10, <2>1, <2>2 DEF ActFails, AbortGoal, Continue
<1> QED
  BY <1>3, <1>4, <1>8, <1>9, <1>10 DEF Gesture

LEMMA RunAfter ==
  ASSUME RunInv, GoalInv', AfterGesture
  PROVE  RunInv'
<1>1. /\ run \in RunState /\ run.failures < MaxGestureFailures
      /\ run.total <= MAX_TOTAL_ACTIONS /\ run.replans <= MAX_REPLAN_ATTEMPTS
      /\ pc = "post" => run.same < SameScreen
      /\ pc \in {"post", "verify"}
  BY DEF AfterGesture, CoordLoop, OpenAppDone, CaptureRaises, Capture, StillButDone,
         StuckScreen, ErrorScreen, HeuristicComplete, At, RunInv, BudgetBound, Within
<1>2. /\ MAX_TOTAL_ACTIONS \in Nat /\ MostActions \in Nat
      /\ run.total \in Nat /\ run.same \in 0..SameScreen /\ run.same \in Nat
      /\ run.recoveries \in 0..MaxRecovery /\ run.recoveries \in Nat /\ run.replans \in Nat
      /\ SameScreen \in Nat /\ SameScreen > 1 /\ MaxRecovery \in Nat
      /\ MAX_REPLAN_ATTEMPTS \in Nat
  BY <1>1, RunFields, BoundsAreNatural DEF MostActions
<1>3. run.same < SameScreen => Within(run, MostActions)
  BY <1>1, <1>2 DEF Within, MostActions
<1>4. CASE CoordLoop
  <2> DEFINE a == [run EXCEPT !.total = run.total + 1]
             b == [a EXCEPT !.taps = 0]
             c == [b EXCEPT !.total = b.total + 1]
  <2>1. pc = "post" /\ 0 \in 0..SameTap
    BY <1>4, BoundsAreNatural DEF CoordLoop
  <2>2. a \in RunState /\ a.total = run.total + 1 /\ Within(a, MAX_TOTAL_ACTIONS + 1)
    BY <1>1, <1>2, <2>1, SetTotal DEF Within
  <2>3. [run EXCEPT !.total = @ + 1, !.taps = 0] = b
    OBVIOUS
  <2> HIDE DEF a
  <2>4. b \in RunState /\ b.total = run.total + 1 /\ Within(b, MAX_TOTAL_ACTIONS + 1)
    BY <2>1, <2>2, SetTaps DEF Within
  <2>5. \/ run' = c /\ pc' = "top"
        \/ ReplanOrAbort(goal, [OneMoreReplan(b) EXCEPT !.same = 0], 1)
    BY <1>4, <2>3 DEF CoordLoop, Continue
  <2> HIDE DEF b
  <2>6. Within(b, MostActions) /\ Within(c, MostActions)
    BY <1>2, <2>4, SetTotal DEF Within, MostActions
  <2> HIDE DEF c
  <2> QED
    BY <1>2, <2>5, <2>6, ContinueRun, ReplanCounted, ReplanOrAbortRun
<1>5. CASE OpenAppDone
  BY <1>1, <1>2, <1>3, <1>5, WithinKeeps, ContinueRun DEF OpenAppDone, At, Continue
<1>6. CASE CaptureRaises
  BY <1>1, <1>3, <1>6, ContinueRun DEF CaptureRaises, Raise
<1>7. CASE Capture
  <2>1. PICK n \in 0..SameScreen : run' = [run EXCEPT !.same = n]
    BY <1>1, <1>2, <1>7 DEF Capture
  <2>2. pc' = "verify"
    BY <1>7 DEF Capture
  <2> QED
    BY <1>1, <1>2, <2>1, <2>2, SetSame DEF RunInv, BudgetBound, ReplanBound
<1>8. CASE StillButDone
  <2> DEFINE a == [run EXCEPT !.replans = 0]
  <2>1. /\ a \in RunState /\ a.total = run.total /\ a.failures = run.failures
        /\ a.replans = 0
    BY <1>1, SetReplans
  <2>2. run' = [a EXCEPT !.same = 0] /\ pc' = "top"
    BY <1>8 DEF StillButDone, NextSubgoal, Continue
  <2> HIDE DEF a
  <2>3. Within([a EXCEPT !.same = 0], MostActions)
    BY <1>1, <1>2, <2>1, SetSame DEF Within, MostActions
  <2> QED
    BY <2>2, <2>3, ContinueRun
<1>9. CASE StuckScreen
  <2> DEFINE a == [run EXCEPT !.recoveries = run.recoveries + 1]
  <2>1. CASE run.recoveries < MaxRecovery /\ pc' = "top" /\ run' = [a EXCEPT !.same = 0]
    <3>1. run.recoveries + 1 \in 0..MaxRecovery
      BY <1>2, <2>1
    <3>2. /\ a \in RunState /\ a.total = run.total /\ a.failures = run.failures
          /\ a.replans = run.replans
      BY <1>1, <3>1, SetRecoveries
    <3> HIDE DEF a
    <3>3. Within([a EXCEPT !.same = 0], MostActions)
      BY <1>1, <1>2, <3>2, SetSame DEF Within, MostActions
    <3> QED
      BY <2>1, <3>3, ContinueRun
  <2>2. CASE pc' = "finish" /\ run' = run
    BY <1>1, <1>2, <2>2, FinishRun DEF MostActions
  <2>3. [run EXCEPT !.recoveries = @ + 1, !.same = 0] = [a EXCEPT !.same = 0]
    OBVIOUS
  <2> QED
    BY <1>9, <2>1, <2>2, <2>3 DEF StuckScreen, Replan, Continue, AbortGoal
<1>10. CASE ErrorScreen
  <2>1. run' = [run EXCEPT !.total = run.total + 1] /\ pc' = "top" /\ run.same < SameScreen
    BY <1>2, <1>10 DEF ErrorScreen, RetryAfterGesture, Continue, Looping
  <2>2. Within([run EXCEPT !.total = run.total + 1], MostActions)
    BY <1>1, <1>2, <2>1, SetTotal DEF Within, MostActions
  <2> QED
    BY <2>1, <2>2, ContinueRun
<1>11. CASE HeuristicComplete
  <2>1. run' = run /\ pc' = "finish" /\ run.same < SameScreen
    BY <1>2, <1>11 DEF HeuristicComplete, CompleteGoal, Looping
  <2> QED
    BY <1>3, <2>1, FinishWithin
<1> QED
  BY <1>4, <1>5, <1>6, <1>7, <1>8, <1>9, <1>10, <1>11 DEF AfterGesture

LEMMA RunVerify ==
  ASSUME RunInv, GoalInv', Verify
  PROVE  RunInv'
<1>1. /\ MAX_TOTAL_ACTIONS \in Nat /\ MostActions \in Nat /\ SameScreen \in Nat
      /\ MAX_TOTAL_ACTIONS <= MostActions /\ MAX_REPLAN_ATTEMPTS \in Nat
  BY BoundsAreNatural DEF MostActions
<1>2. /\ pc = "verify" /\ run \in RunState /\ ~Looping
      /\ run.failures < MaxGestureFailures /\ run.replans <= MAX_REPLAN_ATTEMPTS
      /\ run.total <= MAX_TOTAL_ACTIONS
  BY DEF Verify, EarlyReplan, RetryLadder, AiOverlay, PhaseMismatch, StepVerified, RepeatLoop,
         Rejected, Accepted, RunInv, BudgetBound
<1>3. run.same < SameScreen /\ run.total \in Nat /\ run.replans \in Nat
  BY <1>1, <1>2, RunFields DEF Looping
<1>4. Within(run, MAX_TOTAL_ACTIONS) /\ Within(run, MostActions)
  BY <1>1, <1>2, <1>3 DEF Within, MostActions
<1>5. Within(NoRejection, MAX_TOTAL_ACTIONS) /\ Within(NoRejection, MostActions)
  BY <1>1, <1>4, WithinKeeps DEF NoRejection
<1>6. Within(OneMoreRejection, MostActions)
  BY <1>1, <1>4, WithinKeeps DEF OneMoreRejection
<1>7. CASE EarlyReplan
  <2>1. /\ run.replans < MAX_REPLAN_ATTEMPTS /\ pc' = "top"
        /\ run' = [OneMoreReplan(run) EXCEPT !.rejected = 0]
    BY <1>7 DEF EarlyReplan, Replan, Continue
  <2> QED
    BY <1>1, <1>4, <2>1, WithinKeeps, ContinueRun
<1>8. CASE RetryLadder
  <2>1. \/ run' = OneMoreRejection /\ pc' = "top"
        \/ \E g : ReplanOrAbort(g, [OneMoreReplan(OneMoreRejection) EXCEPT !.same = 0], 0)
    BY <1>8 DEF RetryLadder, Continue
  <2> QED
    BY <1>1, <1>6, <2>1, ContinueRun, ReplanCounted, ReplanOrAbortRun
<1>9. CASE AiOverlay \/ PhaseMismatch
  <2>1. run' = [NoRejection EXCEPT !.total = NoRejection.total + 1] /\ pc' = "top"
    BY <1>9 DEF AiOverlay, PhaseMismatch, RetryAfterGesture, Continue
  <2>2. NoRejection \in RunState /\ NoRejection.total \in Nat
    BY <1>5, RunFields DEF Within
  <2>3. Within([NoRejection EXCEPT !.total = NoRejection.total + 1], MostActions)
    BY <1>1, <1>5, <2>2, SetTotal DEF Within, MostActions
  <2> QED
    BY <2>1, <2>3, ContinueRun
<1>10. CASE StepVerified
  <2>1. Within(NextSubgoal(NoRejection), MostActions)
    BY <1>1, <1>5, WithinKeeps
  <2>2. CASE run' = NextSubgoal(NoRejection) /\ pc' = "top"
    BY <2>1, <2>2, ContinueRun
  <2>3. CASE \E a \in Answers :
               /\ a.step # <<>>
               /\ \E same \in {FALSE, ActionType(a.step[1].act) = run.repeat.act} :
                    LET r == Repeated(a.step[1], same) IN
                    /\ r.n < Limit(a.step[1].act)
                    /\ run' = [NextSubgoal(NoRejection) EXCEPT !.repeat = r]
               /\ pc' = "top"
    <3>1. PICK a \in Answers, same \in BOOLEAN :
            /\ a.step # <<>>
            /\ Repeated(a.step[1], same).n < Limit(a.step[1].act)
            /\ run' = [NextSubgoal(NoRejection) EXCEPT !.repeat = Repeated(a.step[1], same)]
            /\ pc' = "top"
      BY <2>3
    <3> DEFINE r == Repeated(a.step[1], same)
    <3>2. a.step[1].act \in Acts
      BY <3>1, StepActsAssumption DEF Answers, Generated, Step
    <3>3. run.repeat.n \in Nat
      BY <1>2, RunFields
    <3>4. Limit(a.step[1].act) \in 0..TapRepeat + OtherRepeat
      BY BoundsAreNatural DEF Limit
    <3>5. ActionType(a.step[1].act) \in Acts
      BY <3>2 DEF ActionType, Acts
    <3>6. r \in [act : Acts \cup {"none"}, n : 0..TapRepeat + OtherRepeat]
      <4>1. r.n < Limit(a.step[1].act)
        BY <3>1
      <4>2. r = [act |-> ActionType(a.step[1].act),
                 n |-> IF same THEN run.repeat.n + 1 ELSE 0]
        BY DEF Repeated
      <4>3. (IF same THEN run.repeat.n + 1 ELSE 0) \in 0..TapRepeat + OtherRepeat
        BY <3>3, <3>4, <4>1, <4>2, BoundsAreNatural
      <4> QED
        BY <3>5, <4>2, <4>3
    <3> HIDE DEF r
    <3>7. Within([NextSubgoal(NoRejection) EXCEPT !.repeat = r], MostActions)
      BY <2>1, <3>6, SetRepeat DEF Within
    <3> QED
      BY <3>1, <3>7, ContinueRun DEF r
  <2> QED
    BY <1>10, <2>2, <2>3 DEF StepVerified, Continue
<1>11. CASE RepeatLoop
  <2> DEFINE r == OneMoreReplan(NoRejection)
  <2>1. Counted(r, MostActions)
    BY <1>1, <1>5, ReplanCounted
  <2>2. \E g : ReplanOrAbort(g, [r EXCEPT !.repeat = NoRepeat], 0)
    BY <1>11 DEF RepeatLoop
  <2>3. NoRepeat \in [act : Acts \cup {"none"}, n : 0..TapRepeat + OtherRepeat]
    BY BoundsAreNatural DEF NoRepeat
  <2> HIDE DEF r
  <2>4. Counted([r EXCEPT !.repeat = NoRepeat], MostActions)
    BY <2>1, <2>3, SetRepeat DEF Counted
  <2> QED
    BY <2>2, <2>4, ReplanOrAbortRun
<1> QED
  BY <1>7, <1>8, <1>9, <1>10, <1>11 DEF Verify

LEMMA FreshRunWithin == FreshRun \in RunState /\ Within(FreshRun, 0)
<1>1. /\ 0 \in 0..MaxGestureFailures /\ 0 \in 0..MaxRecovery /\ 0 \in 0..MaxRetries
      /\ 0 \in 0..SameScreen /\ 0 \in 0..SameTap /\ 0 \in 0..TapRepeat + OtherRepeat
      /\ 0 < MaxGestureFailures /\ 0 < SameScreen /\ 0 <= MAX_REPLAN_ATTEMPTS
  BY BoundsAreNatural
<1> QED
  BY <1>1 DEF FreshRun, RunState, Within, NoRepeat

LEMMA FreshRunInv ==
  ASSUME run = FreshRun, pc \in {"idle", "planning"}
  PROVE  RunInv
BY FreshRunWithin, BoundsAreNatural
   DEF RunInv, Within, BudgetBound, ReplanBound, FreshRun, Running

LEMMA RunStep ==
  ASSUME GoalInv, RunInv, [Next]_vars
  PROVE  RunInv'
<1>1. GoalInv'
  BY GoalStep
<1>2. CASE Begin
  <2>1. run' = FreshRun /\ pc' = "planning"
    BY <1>2 DEF Begin
  <2> QED
    BY <2>1, FreshRunWithin, BoundsAreNatural
       DEF RunInv, Within, BudgetBound, ReplanBound, FreshRun
<1>3. CASE Cancel \/ UNCHANGED vars
  BY <1>3 DEF Cancel, vars, RunInv, BudgetBound, ReplanBound
<1>4. CASE Plan
  <2>1. run' = FreshRun /\ pc' = "top"
    BY <1>4 DEF Plan, Continue, RunInv
  <2>2. Within(FreshRun, MostActions)
    BY FreshRunWithin, RunFields, BoundsAreNatural DEF Within, MostActions
  <2> QED
    BY <2>1, <2>2, ContinueRun
<1>5. CASE Finish
  BY <1>5 DEF Finish, RunInv, BudgetBound, ReplanBound
<1> QED
  BY <1>1, <1>2, <1>3, <1>4, <1>5, RunTop, RunBefore, RunGesture, RunAfter, RunVerify
     DEF Next, Execute

-----------------------------------------------------------------------------
(* The flags of the session, and the history *)

\* The gestures fired since the cancel event was set, where execute is suspended.
\* Typing fires up to two, every other act one.
LateInv ==
  /\ ~is_cancelled => hist.late = 0
  /\ pc \in {"step", "act"} => hist.late = 0
  /\ pc \in {"post", "verify"} => hist.late <= 2
  /\ pc = "post" /\ Current.act # "type" => hist.late <= 1
  /\ pc = "top" => hist.late <= 3

\* What is known of the flags wherever execute is suspended.
FlagInv ==
  /\ Running \/ pc \in {"idle", "planning", "finish", "done", "raised"}
  /\ hist \in History /\ TaskTypeOK
  /\ LateInv
  /\ Running \/ pc \in {"finish", "raised"} => task.known /\ ~task.complete
  /\ UiMatchesResult
  /\ CancelOnlyIfAsked

LEMMA HistoryFields ==
  ASSUME NEW h \in History
  PROVE  /\ h.late \in Nat /\ h.asked \in BOOLEAN
         /\ \A n \in Nat : /\ [h EXCEPT !.late = n] \in History
                           /\ [h EXCEPT !.late = n].late = n
                           /\ [h EXCEPT !.late = n].asked = h.asked
BY DEF History

\* A step of the loop that leaves the flags alone.
LEMMA FlagsKept ==
  ASSUME FlagInv, Running, UNCHANGED task, hist'.asked = hist.asked, hist' \in History, LateInv',
         pc' \in {"top", "step", "act", "post", "verify", "finish", "raised"}
  PROVE  FlagInv'
BY DEF FlagInv, Running, TaskTypeOK, CancelOnlyIfAsked, UiMatchesResult, is_cancelled

\* The same, when n gestures were fired on the way out of a round.
LEMMA FlagsFired ==
  ASSUME FlagInv, Running, UNCHANGED task, NEW n \in Nat, Fired(n),
         pc' \in {"top", "finish", "raised"}, pc' = "top" => hist.late + n <= 3
  PROVE  FlagInv'
<1> DEFINE m == IF is_cancelled THEN hist.late + n ELSE 0
<1>1. hist \in History /\ hist.late \in Nat
  BY HistoryFields DEF FlagInv
<1>2. m \in Nat /\ m <= hist.late + n /\ (~is_cancelled => m = 0)
  BY <1>1
<1>3. hist' = [hist EXCEPT !.late = m]
  BY DEF Fired
<1> HIDE DEF m
<1>4. hist' \in History /\ hist'.late = m /\ hist'.asked = hist.asked
  BY <1>1, <1>2, <1>3, HistoryFields
<1>5. LateInv'
  BY <1>1, <1>2, <1>4 DEF LateInv, is_cancelled
<1> QED
  BY <1>4, <1>5, FlagsKept

\* The same, when nothing was fired.
LEMMA FlagsQuiet ==
  ASSUME FlagInv, Running, UNCHANGED <<hist, task>>, pc' \in {"top", "finish", "raised"}
  PROVE  FlagInv'
<1>1. hist \in History /\ hist.late \in Nat
  BY HistoryFields DEF FlagInv
<1>2. hist.late <= 3
  BY <1>1 DEF FlagInv, LateInv, Running
<1>3. LateInv'
  BY <1>2 DEF FlagInv, LateInv, is_cancelled
<1> QED
  BY <1>1, <1>3, FlagsKept

LEMMA FlagsReplan ==
  ASSUME FlagInv, NEW g, NEW r, NEW n, Replan(g, r, n)
  PROVE  FlagInv'
<1>1. pc' = "top" /\ task' = NewTask /\ hist' = [hist EXCEPT !.late = 0]
  BY DEF Replan, Continue, start_task
<1>2. hist' \in History /\ hist'.late = 0 /\ hist'.asked = hist.asked
  BY <1>1, HistoryFields DEF FlagInv
<1>3. task' \in TaskState /\ task'.known /\ ~task'.complete /\ ~task'.cancelled
  BY <1>1 DEF NewTask, NoTask, TaskState
<1> QED
  BY <1>1, <1>2, <1>3
     DEF FlagInv, LateInv, TaskTypeOK, CancelOnlyIfAsked, UiMatchesResult, is_cancelled, Running

LEMMA FlagsReplanOrAbort ==
  ASSUME FlagInv, Running, NEW g, NEW r, NEW n \in Nat, ReplanOrAbort(g, r, n)
  PROVE  FlagInv'
BY FlagsReplan, FlagsFired DEF ReplanOrAbort, AbortGoal

LEMMA FlagsTop ==
  ASSUME FlagInv, TopOfLoop
  PROVE  FlagInv'
<1>1. pc = "top" /\ Running /\ UNCHANGED <<hist, task>>
  BY DEF TopOfLoop, TopCancelled, AllPhasesDone, BudgetExhausted, AlreadyInApp, OpenAppStep,
         RsgNone, RsgStep, StartStep, Idle, Busy, InPhase, Running
<1>2. CASE StartStep
  <2>1. pc' = "step" /\ hist.late = 0
    BY <1>2 DEF StartStep, Busy, FlagInv, LateInv
  <2> QED
    BY <1>1, <2>1, FlagsKept DEF FlagInv, LateInv, is_cancelled
<1>3. CASE pc' \in {"top", "finish"}
  BY <1>1, <1>3, FlagsQuiet
<1> QED
  BY <1>2, <1>3
     DEF TopOfLoop, TopCancelled, AllPhasesDone, BudgetExhausted, AlreadyInApp, OpenAppStep,
         RsgNone, RsgStep, Continue, AbortGoal, CompleteGoal

LEMMA FlagsBefore ==
  ASSUME FlagInv, BeforeGesture
  PROVE  FlagInv'
<1>1. pc = "step" /\ Running /\ hist.late = 0
  BY DEF BeforeGesture, TokenBudgetExceeded, AskUser, StuckUnanswered, WebSearch, Located,
         PerceptionFails, WrongScreen, FoundAfterAll, SearchRaises, NotFound, At, Running,
         FlagInv, LateInv
<1>2. CASE TokenBudgetExceeded \/ AskUser \/ StuckUnanswered \/ WebSearch \/ PerceptionFails
  <2>1. UNCHANGED <<hist, task>> /\ pc' \in {"top", "finish"}
    BY <1>2 DEF TokenBudgetExceeded, AskUser, StuckUnanswered, WebSearch, PerceptionFails,
                Continue, AbortGoal
  <2> QED
    BY <1>1, <2>1, FlagsQuiet
<1>3. CASE Located
  BY <1>1, <1>3, FlagsKept DEF Located, FlagInv, LateInv, is_cancelled
<1>4. CASE WrongScreen
  BY <1>1, <1>4, FlagsReplanOrAbort DEF WrongScreen
<1>5. Scrolls(goal) \in Nat /\ hist.late + Scrolls(goal) <= 3
  BY <1>1 DEF Scrolls
<1>6. CASE FoundAfterAll \/ SearchRaises
  <2>1. UNCHANGED task /\ Fired(Scrolls(goal)) /\ pc' \in {"top", "raised"}
    BY <1>6 DEF FoundAfterAll, SearchRaises, Continue, Raise
  <2> QED
    BY <1>1, <1>5, <2>1, FlagsFired
<1>7. CASE NotFound
  BY <1>1, <1>5, <1>7, FlagsReplanOrAbort DEF NotFound
<1> QED
  BY <1>2, <1>3, <1>4, <1>6, <1>7 DEF BeforeGesture

LEMMA FlagsGesture ==
  ASSUME GoalInv, FlagInv, Gesture
  PROVE  FlagInv'
<1>1. pc = "act" /\ Running /\ hist.late = 0 /\ UNCHANGED task
  BY DEF Gesture, SnapshotRaises, TypeRefused, AlreadyTyped, ActSucceeds, ActFails, At, Running,
         FlagInv, LateInv
<1>2. CASE SnapshotRaises \/ TypeRefused
  <2>1. UNCHANGED hist /\ pc' \in {"top", "finish", "raised"}
    BY <1>2 DEF SnapshotRaises, TypeRefused, Raise, Continue, AbortGoal
  <2> QED
    BY <1>1, <2>1, FlagsQuiet
<1>3. CASE AlreadyTyped
  <2>1. PICK n \in 0..1 : Fired(n)
    BY <1>3 DEF AlreadyTyped
  <2>2. n \in Nat /\ hist.late + n <= 3
    BY <1>1, <2>1
  <2>3. pc' = "top"
    BY <1>3 DEF AlreadyTyped, Continue
  <2> QED
    BY <1>1, <2>1, <2>2, <2>3, FlagsFired
<1>4. \A n \in Gestures : n \in 1..2 /\ (Current.act # "type" => n = 1)
  BY DEF Gestures
<1>5. CASE ActSucceeds
  <2> DEFINE f == hist.fired \cup ({Current.commit} \cap Commits)
  <2>1. PICK n \in Gestures :
          hist' = [hist EXCEPT !.late = IF is_cancelled THEN hist.late + n ELSE 0, !.fired = f]
    BY <1>5 DEF ActSucceeds
  <2> DEFINE m == IF is_cancelled THEN hist.late + n ELSE 0
             h == [hist EXCEPT !.late = m]
  <2>2. n \in 1..2 /\ (Current.act # "type" => n = 1)
    BY <1>4
  <2>3. /\ m \in 0..2 /\ (Current.act # "type" => m \in 0..1)
        /\ ~is_cancelled => m = 0
    BY <1>1, <2>2
  <2>4. hist \in History /\ f \in SUBSET Commits
    BY DEF FlagInv, History
  <2>5. hist' = [h EXCEPT !.fired = f]
    BY <2>1
  <2> HIDE DEF m, f
  <2>6. h \in History /\ h.late = m /\ h.asked = hist.asked
    BY <2>3, <2>4, HistoryFields
  <2> HIDE DEF h
  <2>7. hist' \in History /\ hist'.late = m /\ hist'.asked = hist.asked
    BY <2>4, <2>5, <2>6 DEF History
  <2>8. pc' = "post" /\ Current'.act = Current.act
    <3>1. pc' = "post" /\ goal' = Disturbed(goal) /\ AtWork(goal)
      BY <1>1, <1>5 DEF ActSucceeds, GoalInv, AtWork, HitlNeverReachesActor
    <3> QED
      BY <3>1, DisturbanceKeeps DEF Current
  <2>9. LateInv'
    BY <1>1, <2>3, <2>7, <2>8 DEF LateInv, is_cancelled
  <2> QED
    BY <1>1, <2>7, <2>8, <2>9, FlagsKept
<1>6. CASE ActFails
  <2>1. PICK n \in Gestures : Fired(n)
    BY <1>6 DEF ActFails
  <2>2. n \in Nat /\ hist.late + n <= 3
    BY <1>1, <1>4
  <2>3. pc' \in {"top", "finish"}
    BY <1>6 DEF ActFails, Continue, AbortGoal
  <2> QED
    BY <1>1, <2>1, <2>2, <2>3, FlagsFired
<1> QED
  BY <1>2, <1>3, <1>5, <1>6 DEF Gesture

LEMMA FlagsAfter ==
  ASSUME FlagInv, AfterGesture
  PROVE  FlagInv'
<1>1. /\ pc \in {"post", "verify"} /\ Running /\ hist \in History /\ hist.late \in Nat
      /\ hist.late <= 2 /\ (pc = "post" /\ Current.act # "type" => hist.late <= 1)
  BY HistoryFields
     DEF AfterGesture, CoordLoop, OpenAppDone, CaptureRaises, Capture, StillButDone, Running,
         StuckScreen, ErrorScreen, HeuristicComplete, At, FlagInv, LateInv
<1>2. CASE CoordLoop
  <2>1. pc = "post"
    BY <1>2 DEF CoordLoop
  <2>2. CASE Current.act = "tap" /\ Fired(2) /\ pc' = "top" /\ UNCHANGED task
    <3>1. hist.late + 2 <= 3
      BY <1>1, <2>1, <2>2
    <3> QED
      BY <1>1, <2>2, <3>1, FlagsFired
  <2>3. CASE \E r : ReplanOrAbort(goal, r, 1)
    BY <1>1, <2>3, FlagsReplanOrAbort
  <2> QED
    BY <1>2, <2>2, <2>3 DEF CoordLoop, Continue
<1>3. CASE OpenAppDone \/ CaptureRaises \/ StillButDone \/ HeuristicComplete
  <2>1. UNCHANGED <<hist, task>> /\ pc' \in {"top", "finish", "raised"}
    BY <1>3 DEF OpenAppDone, CaptureRaises, StillButDone, HeuristicComplete, Continue, Raise,
                CompleteGoal
  <2> QED
    BY <1>1, <2>1, FlagsQuiet
<1>4. CASE Capture
  <2>1. pc' = "verify" /\ UNCHANGED <<hist, task>>
    BY <1>4 DEF Capture
  <2>2. LateInv'
    BY <1>1, <2>1 DEF FlagInv, LateInv, is_cancelled
  <2> QED
    BY <1>1, <2>1, <2>2, FlagsKept
<1>5. CASE StuckScreen
  <2>1. \/ \E r, n : Replan(goal, r, n)
        \/ AbortGoal(goal) /\ UNCHANGED <<hist, task>>
    BY <1>5 DEF StuckScreen
  <2> QED
    BY <1>1, <2>1, FlagsReplan, FlagsQuiet DEF AbortGoal
<1>6. CASE ErrorScreen
  <2>1. Fired(1) /\ UNCHANGED task /\ pc' = "top"
    BY <1>6 DEF ErrorScreen, RetryAfterGesture, Continue
  <2>2. hist.late + 1 <= 3
    BY <1>1
  <2> QED
    BY <1>1, <2>1, <2>2, FlagsFired
<1> QED
  BY <1>2, <1>3, <1>4, <1>5, <1>6 DEF AfterGesture

LEMMA FlagsVerify ==
  ASSUME FlagInv, Verify
  PROVE  FlagInv'
<1>1. pc = "verify" /\ Running /\ hist \in History /\ hist.late \in Nat /\ hist.late <= 2
  BY HistoryFields
     DEF Verify, EarlyReplan, RetryLadder, AiOverlay, PhaseMismatch, StepVerified, RepeatLoop,
         Rejected, Accepted, Running, FlagInv, LateInv
<1>2. CASE EarlyReplan
  BY <1>2, FlagsReplan DEF EarlyReplan
<1>3. CASE RetryLadder \/ RepeatLoop
  <2>1. \/ UNCHANGED <<hist, task>> /\ pc' = "top"
        \/ \E g, r : ReplanOrAbort(g, r, 0)
    BY <1>3 DEF RetryLadder, RepeatLoop, Continue
  <2> QED
    BY <1>1, <2>1, FlagsQuiet, FlagsReplanOrAbort
<1>4. CASE AiOverlay \/ PhaseMismatch
  <2>1. \E g, r : RetryAfterGesture(g, r)
    BY <1>4 DEF AiOverlay, PhaseMismatch
  <2>2. Fired(1) /\ UNCHANGED task /\ pc' = "top"
    BY <2>1 DEF RetryAfterGesture, Continue
  <2>3. hist.late + 1 <= 3
    BY <1>1
  <2> QED
    BY <1>1, <2>2, <2>3, FlagsFired
<1>5. CASE StepVerified
  <2>1. UNCHANGED <<hist, task>> /\ pc' = "top"
    BY <1>5 DEF StepVerified, Continue
  <2> QED
    BY <1>1, <2>1, FlagsQuiet
<1> QED
  BY <1>2, <1>3, <1>4, <1>5 DEF Verify

LEMMA FlagsCancel ==
  ASSUME FlagInv, Cancel
  PROVE  FlagInv'
<1>1. /\ hist \in History /\ task \in TaskState
      /\ task' = IF task.known THEN [task EXCEPT !.aborted = TRUE, !.cancelled = TRUE] ELSE task
  BY DEF FlagInv, Cancel, abort_task, TaskTypeOK
<1>2. /\ task' \in TaskState /\ task'.known = task.known /\ task'.complete = task.complete
      /\ task.cancelled => task'.cancelled
      /\ task.aborted => task'.aborted
  BY <1>1 DEF TaskState
<1>3. (hist.asked \/ Running) \in BOOLEAN
  BY <1>1 DEF Running, History
<1>4. /\ hist' \in History /\ hist'.late = hist.late
      /\ hist'.asked = (hist.asked \/ Running)
  BY <1>1, <1>3 DEF Cancel, History
<1>5. UNCHANGED <<pc, goal, run>>
  BY DEF Cancel
<1>6. LateInv'
  BY <1>2, <1>4, <1>5 DEF FlagInv, LateInv, is_cancelled, Current
<1> QED
  BY <1>2, <1>4, <1>5, <1>6
     DEF FlagInv, Running, TaskTypeOK, CancelOnlyIfAsked, UiMatchesResult, is_cancelled

LEMMA FlagsPlan ==
  ASSUME FlagInv, Plan
  PROVE  FlagInv'
<1>1. pc' = "top" /\ task' = NewTask
  BY DEF Plan, Continue, start_task
<1>2. task' \in TaskState /\ task'.known /\ ~task'.complete /\ ~task'.cancelled
  BY <1>1 DEF NewTask, NoTask, TaskState
<1>3. hist' \in History /\ hist'.late = 0
  <2>1. PICK w \in SUBSET Commits : hist' = [hist EXCEPT !.wanted = w, !.late = 0]
    BY DEF Plan
  <2>2. hist \in History
    BY DEF FlagInv
  <2> QED
    BY <2>1, <2>2 DEF History
<1> QED
  BY <1>1, <1>2, <1>3
     DEF FlagInv, LateInv, Running, TaskTypeOK, CancelOnlyIfAsked, UiMatchesResult, is_cancelled

LEMMA FlagsFinish ==
  ASSUME FlagInv, GoalInv, Finish
  PROVE  FlagInv'
<1>1. pc = "finish" /\ pc' = "done" /\ UNCHANGED <<goal, hist>> /\ task \in TaskState
      /\ task.known /\ ~task.complete
  BY DEF Finish, FlagInv, TaskTypeOK
<1>2. CASE goal.completed
  <2>1. ~goal.aborted
    BY <1>2 DEF GoalInv, CompletedMeansPhasesDone
  <2>2. task' = IF ~task.aborted THEN [task EXCEPT !.complete = TRUE] ELSE task
    BY <1>1, <1>2, <2>1 DEF Finish, finish_task
  <2>3. task' \in TaskState /\ task'.cancelled = task.cancelled
        /\ (task'.complete \/ task'.aborted)
    BY <1>1, <2>2 DEF TaskState
  <2> QED
    BY <1>1, <1>2, <2>3
       DEF FlagInv, LateInv, Running, TaskTypeOK, CancelOnlyIfAsked, UiMatchesResult, is_cancelled
<1>3. CASE ~goal.completed
  BY <1>1, <1>3
     DEF Finish, FlagInv, LateInv, Running, TaskTypeOK, CancelOnlyIfAsked, UiMatchesResult,
         is_cancelled
<1> QED
  BY <1>2, <1>3

LEMMA FlagStep ==
  ASSUME GoalInv, FlagInv, [Next]_vars
  PROVE  FlagInv'
<1>1. CASE Begin
  BY <1>1
     DEF Begin, FlagInv, LateInv, Running, TaskTypeOK, CancelOnlyIfAsked, UiMatchesResult,
         NoHistory, History, is_cancelled
<1>2. CASE UNCHANGED vars
  BY <1>2
     DEF vars, FlagInv, LateInv, Running, TaskTypeOK, CancelOnlyIfAsked, UiMatchesResult,
         is_cancelled, Current
<1> QED
  BY <1>1, <1>2, FlagsCancel, FlagsPlan, FlagsTop, FlagsBefore, FlagsGesture, FlagsAfter,
     FlagsVerify, FlagsFinish
     DEF Next, Execute

-----------------------------------------------------------------------------
(* The theorems *)

\* The inductive invariant.
LEMMA Invariants == Spec => [](GoalInv /\ RunInv /\ FlagInv)
<1>1. Init => GoalInv /\ RunInv /\ FlagInv
  <2> SUFFICES ASSUME Init PROVE GoalInv /\ RunInv /\ FlagInv
    OBVIOUS
  <2>1. GoalInv
    BY NoGoalInPlay
       DEF Init, GoalInv, InPlay, HitlNeverReachesActor, CompletedMeansPhasesDone, NoGoal
  <2>2. RunInv
    BY FreshRunInv DEF Init
  <2>3. FlagInv
    BY DEF Init, FlagInv, LateInv, Running, TaskTypeOK, CancelOnlyIfAsked, UiMatchesResult,
           NoHistory, History, NoTask, TaskState, is_cancelled
  <2> QED
    BY <2>1, <2>2, <2>3
<1>2. GoalInv /\ RunInv /\ FlagInv /\ [Next]_vars => (GoalInv /\ RunInv /\ FlagInv)'
  BY GoalStep, RunStep, FlagStep
<1> QED
  BY <1>1, <1>2, PTL DEF Spec

\* Every variable of execute stays in its type, the bounded counters within
\* their limits.
THEOREM TypeCorrect == Spec => []TypeOK
<1>1. GoalInv /\ RunInv /\ FlagInv => TypeOK
  BY DEF TypeOK, GoalInv, RunInv, FlagInv
<1> QED
  BY <1>1, Invariants, PTL

\* However failures, loops and replans follow each other, the action budget
\* holds at the start of every gesture and a task exceeds it by two at most, no
\* subgoal is replanned more often than allowed without the task given up, and
\* the queue never outgrows what one replan put there.
THEOREM BudgetsHold == Spec => []Budgets
<1>1. RunInv => BudgetBound /\ ReplanBound
  BY DEF RunInv
<1>2. GoalInv => QueueBound
  BY DEF GoalInv, InPlay, QueueBound, Running
<1> QED
  BY <1>1, <1>2, Invariants, PTL DEF Budgets

\* Whatever way out of the loop was taken, a task reported complete has no
\* phase left and was not aborted.
THEOREM CompletionIsHonest == Spec => []CompletedMeansPhasesDone
<1>1. GoalInv => CompletedMeansPhasesDone
  BY DEF GoalInv
<1> QED
  BY <1>1, Invariants, PTL

\* What is fired and verified is always a gesture.
THEOREM OnlyGesturesAreFired == Spec => []HitlNeverReachesActor
<1>1. GoalInv => HitlNeverReachesActor
  BY DEF GoalInv
<1> QED
  BY <1>1, Invariants, PTL

\* The user is shown a success for the task that succeeded, and for no other.
THEOREM UiIsHonest == Spec => []UiMatchesResult
<1>1. FlagInv => UiMatchesResult
  BY DEF FlagInv
<1> QED
  BY <1>1, Invariants, PTL

\* A task is never stopped by the cancel of an earlier one.
THEOREM CancelIsOwn == Spec => []CancelOnlyIfAsked
<1>1. FlagInv => CancelOnlyIfAsked
  BY DEF FlagInv
<1> QED
  BY <1>1, Invariants, PTL

\* After a cancel that is not lost at most three more gestures are fired.
THEOREM CancelTakesEffect == Spec => []CancelStopsGestures
<1>1. FlagInv => CancelStopsGestures
  <2> SUFFICES ASSUME FlagInv, Running, is_cancelled PROVE hist.late <= 3
    BY DEF CancelStopsGestures
  <2>1. hist.late \in Nat
    BY HistoryFields DEF FlagInv
  <2> QED
    BY <2>1 DEF FlagInv, LateInv, Running
<1> QED
  BY <1>1, Invariants, PTL
=============================================================================
