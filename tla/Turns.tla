-------------------------------- MODULE Turns --------------------------------
(***************************************************************************)
(* What the user may rely on when he speaks to the assistant several times *)
(* in a row: one request is dealt with at a time and answered once, a      *)
(* refused one never reaches the phone, and one whose last work went wrong *)
(* is not reported as done.  A search or a description is reported as done *)
(* also when it found nothing, and covers what went wrong before.          *)
(***************************************************************************)
EXTENDS Naturals

CONSTANT Turn

VARIABLES
  open,      \* the request at work, or 0
  outcome,   \* outcome[t]: how the work on t went last: "none", "ok", "unfound" or "bad"
  refused,   \* the requests refused
  answer     \* answer[t]: the status reported for t, or "none"

vars == <<open, outcome, refused, answer>>

Init ==
  /\ open = 0
  /\ outcome = [t \in Turn |-> "none"]
  /\ refused = {}
  /\ answer = [t \in Turn |-> "none"]

Begin(t) ==
  /\ open = 0 /\ answer[t] = "none"
  /\ open' = t
  /\ UNCHANGED <<outcome, refused, answer>>

Refuse(t) ==
  /\ open = t /\ outcome[t] = "none"
  /\ refused' = refused \cup {t}
  /\ UNCHANGED <<open, outcome, answer>>

Work(t) ==
  /\ open = t /\ t \notin refused
  /\ \E o \in {"ok", "unfound", "bad"} : outcome' = [outcome EXCEPT ![t] = o]
  /\ UNCHANGED <<open, refused, answer>>

Answer(t) ==
  /\ open = t
  /\ open' = 0
  /\ \E s \in {"completed", "failed", "retry"} :
       /\ s = "completed" => outcome[t] # "bad"
       /\ answer' = [answer EXCEPT ![t] = s]
  /\ UNCHANGED <<outcome, refused>>

Next == \E t \in Turn : Begin(t) \/ Refuse(t) \/ Work(t) \/ Answer(t)

Spec == Init /\ [][Next]_vars
=============================================================================
