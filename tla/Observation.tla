---------------------------- MODULE Observation ----------------------------
(***************************************************************************)
(* What a look at the phone promises: what is seen was taken at screens    *)
(* between the beginning of the look and its end.                          *)
(***************************************************************************)
EXTENDS Naturals

CONSTANT Look

VARIABLES
  screen,  \* how often the screen has changed
  stage,   \* stage[p]: "idle", "looking", "seen" or "failed"
  since,   \* since[p]: the screen when the look began
  seen     \* seen[p]: the screens at which its pictures were taken

vars == <<screen, stage, since, seen>>

Init == /\ screen = 0
        /\ stage = [p \in Look |-> "idle"]
        /\ since = [p \in Look |-> 0]
        /\ seen = [p \in Look |-> {}]

Change == screen' = screen + 1 /\ UNCHANGED <<stage, since, seen>>

Begin(p) == /\ stage[p] = "idle"
            /\ stage' = [stage EXCEPT ![p] = "looking"]
            /\ since' = [since EXCEPT ![p] = screen]
            /\ UNCHANGED <<screen, seen>>

See(p) == /\ stage[p] = "looking"
          /\ stage' = [stage EXCEPT ![p] = "seen"]
          /\ \E S \in (SUBSET (since[p]..screen)) \ {{}} : seen' = [seen EXCEPT ![p] = S]
          /\ UNCHANGED <<screen, since>>

Fail(p) == /\ stage[p] \in {"idle", "looking"}
           /\ stage' = [stage EXCEPT ![p] = "failed"]
           /\ UNCHANGED <<screen, since, seen>>

Next == Change \/ \E p \in Look : Begin(p) \/ See(p) \/ Fail(p)

Spec == Init /\ [][Next]_vars
=============================================================================
