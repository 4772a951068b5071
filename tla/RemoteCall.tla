----------------------------- MODULE RemoteCall -----------------------------
(***************************************************************************)
(* What a gesture request promises its caller: it reaches the phone only   *)
(* if it was accepted, and is performed there no more often than the phone *)
(* may attempt it, perhaps after the answer.  "ok" means that it was       *)
(* performed, and of a blind call that it has arrived; "failed" says       *)
(* nothing, then or later.                                                 *)
(***************************************************************************)
EXTENDS Naturals

CONSTANTS
  Call,
  Blind,    \* the calls that are called done without having looked
  Attempts  \* Attempts[c]: how often c may be attempted

VARIABLES
  answer,    \* answer[c]: "idle", "open", "refused", "ok" or "failed"
  arrived,   \* the calls that have reached the phone
  performed  \* performed[c]: how often c was performed

vars == <<answer, arrived, performed>>

TypeOK == /\ answer \in [Call -> {"idle", "open", "refused", "ok", "failed"}]
          /\ arrived \subseteq Call
          /\ performed \in [Call -> Nat]

Init ==
  /\ answer = [c \in Call |-> "idle"]
  /\ arrived = {} /\ performed = [c \in Call |-> 0]

Change(c, from, to) ==
  answer[c] = from /\ answer' = [answer EXCEPT ![c] = to] /\ UNCHANGED <<arrived, performed>>

Accept(c) == Change(c, "idle", "open")

Refuse(c) == Change(c, "idle", "refused")

Arrive(c) ==
  /\ answer[c] \in {"open", "failed"} /\ c \notin arrived
  /\ arrived' = arrived \cup {c}
  /\ UNCHANGED <<answer, performed>>

Perform(c) ==
  /\ c \in arrived /\ performed[c] < Attempts[c]
  /\ performed' = [performed EXCEPT ![c] = @ + 1]
  /\ UNCHANGED <<answer, arrived>>

Succeed(c) ==
  /\ c \in arrived /\ (c \in Blind \/ performed[c] > 0)
  /\ Change(c, "open", "ok")

Fail(c) == Change(c, "open", "failed")

Next ==
  \E c \in Call :
    Accept(c) \/ Refuse(c) \/ Arrive(c) \/ Perform(c) \/ Succeed(c) \/ Fail(c)

Spec == Init /\ [][Next]_vars
=============================================================================
