-------------------------- MODULE CommandDelivery --------------------------
(***************************************************************************)
(* What the polling command queue promises its two users, the executor     *)
(* that queues a command and the device that polls: a queued command waits *)
(* until it is taken by the device it is addressed to or dropped because   *)
(* it grew too old, and it is never both.                                  *)
(***************************************************************************)
CONSTANTS Command, Device

VARIABLES
  fate,      \* fate[c]: "absent", "waiting", "taken" or "dropped"
  taker,     \* taker[c]: the set of devices that were handed c
  addressee  \* addressee[c]: the device c is for

vars == <<fate, taker, addressee>>

TypeOK == /\ fate \in [Command -> {"absent", "waiting", "taken", "dropped"}]
          /\ taker \in [Command -> SUBSET Device]
          /\ addressee \in [Command -> Device]

Init == /\ fate = [c \in Command |-> "absent"]
        /\ taker = [c \in Command |-> {}]
        /\ addressee \in [Command -> Device]

Queue(c) == /\ fate[c] = "absent"
            /\ fate' = [fate EXCEPT ![c] = "waiting"]
            /\ UNCHANGED <<taker, addressee>>

\* One poll of device d takes the commands S, all for it, and drops those of D,
\* whoever they are for.
Poll(d, S, D) ==
  /\ \A c \in S \cup D : fate[c] = "waiting"
  /\ \A c \in S : addressee[c] = d
  /\ S \cap D = {}
  /\ fate' = [c \in Command |-> IF c \in S THEN "taken"
                                ELSE IF c \in D THEN "dropped" ELSE fate[c]]
  /\ taker' = [c \in Command |-> IF c \in S THEN {d} ELSE taker[c]]
  /\ UNCHANGED addressee

Next == \/ \E c \in Command : Queue(c)
        \/ \E d \in Device : \E S, D \in SUBSET Command : Poll(d, S, D)

Spec == Init /\ [][Next]_vars
============================================================================
