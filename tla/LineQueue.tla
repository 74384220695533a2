----------------------------- MODULE LineQueue ------------------------------
(***************************************************************************)
(* What a chat connection promises about the lines written on it: they are *)
(* handled one by one, whole, in the order in which they were written.     *)
(***************************************************************************)
EXTENDS Sequences

CONSTANTS Client, Message

VARIABLES
  queue,    \* the lines of each client that wait to be handled
  handled   \* the lines of each client that were

vars == <<queue, handled>>

Init ==
  /\ queue = [c \in Client |-> <<>>]
  /\ handled = [c \in Client |-> <<>>]

Write(c, line) ==
  /\ queue' = [queue EXCEPT ![c] = Append(@, line)]
  /\ UNCHANGED handled

Handle(c) ==
  /\ queue[c] # <<>>
  /\ handled' = [handled EXCEPT ![c] = Append(@, Head(queue[c]))]
  /\ queue' = [queue EXCEPT ![c] = Tail(@)]

Next == \E c \in Client : Handle(c) \/ \E line \in Message : Write(c, line)

Spec == Init /\ [][Next]_vars

=============================================================================
