--------------------------- MODULE ChatInvariant ---------------------------
(***************************************************************************)
(* The inductive invariant of ChatServer: what the safety properties need  *)
(* to know of the states in the middle of a broadcast, a cascade of        *)
(* departures or a sort.                                                   *)
(***************************************************************************)
EXTENDS ChatServer

\* accept is only called when there is a connection to accept.
AcceptReady ==
  pc = "scan" /\ n = 0 /\ Listener \in ready => backlog # <<>>

\* Where a connection may have left a trace in the table.
InTable(c) == \E s \in Slot : c \in {sockets[s], messages[s], users[s]}

\* A connection that is still waiting, or not made yet, has left none; so a
\* new slot can never be mistaken for an old one.
Fresh ==
  /\ \A i \in DOMAIN backlog :
       /\ ~InTable(backlog[i])
       /\ \A j \in DOMAIN backlog : backlog[i] = backlog[j] => i = j
  /\ \A c \in Client : peer[c] = "idle" =>
       ~InTable(c) /\ \A i \in DOMAIN backlog : backlog[i] # c

\* A buffer and a user belong to one slot, the same one, even when the slot is
\* closed and the pointers are stale.
OneSlotEach ==
  \A s, t \in Slot :
    /\ messages[s] # None => (messages[s] = messages[t] => s = t)
    /\ users[s] # None => (users[s] = users[t] => s = t)
    /\ users[s] # None => (users[s] = messages[t] => s = t)

\* What a call in progress relies on: the slots it knows to be closed are not
\* among the open ones.
FrameInv(f, open) ==
  /\ f.op = "cleanup" => f.n \notin open
  /\ f.op \in {"client", "reply", "cleanup", "list"} => f.lost = <<>>
  /\ \A i \in DOMAIN f.lost : f.lost[i] \notin open

\* handle_client is the outermost call, and while a share_message writes it is
\* the innermost.
StackInv ==
  /\ pc = "select" => stack = <<>>
  /\ \A i \in DOMAIN stack :
       /\ FrameInv(stack[i], OpenSlots)
       /\ stack[i].op = "client" => i = Len(stack)
       /\ stack[i].op = "share" => i = 1

TypeInv == TypeOK /\ AcceptReady

TableInv == SlotsCoherent /\ OneSlotEach /\ Fresh

\* The open slots a share_message still has to count.
Ahead == {s \in OpenSlots : s >= Top.ctr}

\* A share_message has counted the slots behind it, those it closed included.
ShareCount ==
  In("share") =>
    /\ Top.ctr \in 1..(MaxClients + 1)
    /\ socket_total = Top.count + Cardinality(Ahead)

CountInv == TotalCountsSockets /\ ShareCount

IInv == TypeInv /\ TableInv /\ StackInv /\ CountInv

-----------------------------------------------------------------------------
(* What is left to be done for the connections that were closed.           *)

Elements(seq) == {seq[i] : i \in DOMAIN seq}

\* The slots a call has closed, or will clean up after.
Pending(f) == Elements(f.lost) \cup (IF f.op = "cleanup" THEN {f.n} ELSE {})

\* One call takes care of each, and the user is there until it does.
PendingInv ==
  /\ \A i \in DOMAIN stack :
       /\ \A s \in Pending(stack[i]) : users[s] # None => users[s] \in userinfos
       /\ stack[i].op = "cleanup" => users[stack[i].n] # None
       /\ \A k, l \in DOMAIN stack[i].lost : stack[i].lost[k] = stack[i].lost[l] => k = l
  /\ \A i, j \in DOMAIN stack : i # j => Pending(stack[i]) \cap Pending(stack[j]) = {}

\* handle_client works on slot s.
Serves(s) == \E i \in DOMAIN stack : stack[i].op = "client" /\ stack[i].n = s

\* Some call has closed slot s and not dropped it yet.
Lost(s) == \E i \in DOMAIN stack : s \in Elements(stack[i].lost)

\* A slot without its buffer is the one handle_client works on, which lost it
\* when a receiver was dropped; a buffer without its slot is one to be dropped.
BufferInv ==
  pc # "exited" =>
    /\ \A s \in Slot : messages[s] # sockets[s] =>
         IF IsOpen(s) THEN messages[s] = None /\ Serves(s) ELSE Lost(s)
    /\ \A i \in DOMAIN stack :
         stack[i].op \in {"share", "drop"} /\ IsOpen(stack[i].n) => Serves(stack[i].n)

\* The innermost share_message tells the departure of u and has yet to come to t.
Telling(u, t) ==
  /\ stack # <<>>
  /\ Top.op = "share" /\ ~IsOpen(Top.n)
  /\ users[Top.n] = u /\ Top.ctr <= t

\* A departure that a client was not sent is being told, or that of a slot to be
\* dropped; a text is no departure.
NewsInv ==
  /\ \A t \in OpenSlots : \A u \in Unheard(sockets[t]) :
       Telling(u, t) \/ \E s \in Slot : Lost(s) /\ users[s] = u
  /\ stack # <<>> /\ Top.op = "share" /\ Top.isuser => IsOpen(Top.n)

\* Nobody is owed what happened before it came.
NewcomerInv ==
  /\ \A i \in DOMAIN backlog : owed[backlog[i]] = {}
  /\ \A c \in Client : peer[c] = "idle" => owed[c] = {}

\* A connection that the server has closed is not in use, and does not wait.
GoneInv ==
  \A c \in Client : peer[c] = "gone" =>
    c \notin Connected /\ \A i \in DOMAIN backlog : backlog[i] # c

DepartureInv == PendingInv /\ BufferInv /\ NewsInv /\ NewcomerInv /\ GoneInv

=============================================================================
