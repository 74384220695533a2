---------------------------- MODULE ChatSessions ----------------------------
(***************************************************************************)
(* What the chat server promises about sessions, without its table: a      *)
(* connection is let in once, while there is room, may join under a name,  *)
(* and leaves once, by itself or with everyone else when the server stops. *)
(***************************************************************************)
EXTENDS Naturals, FiniteSets

CONSTANTS Client, MaxClients

VARIABLES
  stage,   \* how far each client's session has come
  running  \* is the server there?

vars == <<stage, running>>

Present == {c \in Client : stage[c] \in {"connected", "joined"}}

Init ==
  /\ stage = [c \in Client |-> "away"]
  /\ running = TRUE

Arrive(c) ==
  /\ stage[c] = "away"
  /\ Cardinality(Present) < MaxClients
  /\ stage' = [stage EXCEPT ![c] = "connected"]

Name(c) ==
  /\ stage[c] = "connected"
  /\ stage' = [stage EXCEPT ![c] = "joined"]

Leave(c) ==
  /\ c \in Present
  /\ stage' = [stage EXCEPT ![c] = "left"]

Step ==
  /\ running
  /\ \E c \in Client : Arrive(c) \/ Name(c) \/ Leave(c)
  /\ UNCHANGED running

\* An orderly stop sends everyone away; a crash leaves the sessions undecided.
Stop ==
  /\ running
  /\ running' = FALSE
  /\ stage' \in {stage, [c \in Client |-> IF c \in Present THEN "left" ELSE stage[c]]}

Next == Step \/ Stop

Spec == Init /\ [][Next]_vars

=============================================================================
