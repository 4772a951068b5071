------------------------------ MODULE Inquiry ------------------------------
(***************************************************************************)
(* What a question to the user promises the agent that asks it: the first  *)
(* thing the user says while the question is open is what counts, and the  *)
(* agent is told that or nothing, once.                                    *)
(***************************************************************************)
CONSTANTS Question, Answer

VARIABLES
  stage,  \* stage[q]: "unasked", "asked" or "closed"
  said,   \* said[q]: what the user answered so far, or "none"
  told    \* told[q]: what the agent was told when q was closed

vars == <<stage, said, told>>

TypeOK == /\ stage \in [Question -> {"unasked", "asked", "closed"}]
          /\ said \in [Question -> Answer \cup {"none"}]
          /\ told \in [Question -> Answer \cup {"none"}]

Init == /\ stage = [q \in Question |-> "unasked"]
        /\ said = [q \in Question |-> "none"]
        /\ told = [q \in Question |-> "none"]

Ask(q) == /\ stage[q] = "unasked"
          /\ stage' = [stage EXCEPT ![q] = "asked"]
          /\ UNCHANGED <<said, told>>

Say(q, a) == /\ stage[q] = "asked" /\ said[q] = "none"
             /\ said' = [said EXCEPT ![q] = a]
             /\ UNCHANGED <<stage, told>>

Close(q) == /\ stage[q] = "asked"
            /\ stage' = [stage EXCEPT ![q] = "closed"]
            /\ \E t \in {said[q], "none"} : told' = [told EXCEPT ![q] = t]
            /\ said' = [said EXCEPT ![q] = "none"]

Next == \E q \in Question : Ask(q) \/ (\E a \in Answer : Say(q, a)) \/ Close(q)

Spec == Init /\ [][Next]_vars
=============================================================================
