--------------------------- MODULE MessageFraming ---------------------------
(***************************************************************************)
(* How the chat server cuts the bytes of its connections into messages     *)
(* (projects/proj1-acf/server.c: handle_client, with the table operations  *)
(* that move or reuse its buffers and offsets).                            *)
(*                                                                         *)
(* A connection is a stream of bytes: a read returns any part of what is   *)
(* there, half a line or three of them.  The server keeps what has no      *)
(* newline yet in messages[n], and its length in offsets[n].               *)
(*                                                                         *)
(* Abstractions.  A line is what its bytes say: ListLine is                *)
(* show_all_statuses, any other line is shared or answered, which touches  *)
(* neither buffers nor offsets as long as the writes succeed (failed       *)
(* writes are the subject of ChatServer).  Users are named by connection.  *)
(***************************************************************************)
EXTENDS LineBuffer, SequencesExt

CONSTANTS
  Client,      \* the connections that may ever be made
  None,        \* the empty slot and the NULL pointer
  NameOrder,   \* the pairs <<c, d>> such that c's user sorts before d's
  MaxClients,  \* slots for clients: 10 in the code
  Line,        \* the lines the clients write in this instance
  ListLine,    \* the command show_all_statuses
  Fragment,    \* what a client may have written of a line when it dies
  MaxLines     \* bound: lines the clients write in all

ASSUME ClientAssumption == None \notin Client /\ None \notin Buffer
ASSUME BoundsAssumption == MaxClients \in Nat \ {0} /\ MaxLines \in Nat
ASSUME LineAssumption ==
  Line \subseteq Seq(Byte) /\ \A line \in Line : IsLine(line) /\ Len(line) <= Capacity
ASSUME FragmentAssumption ==
  Fragment \subseteq Seq(Letter) /\ \A part \in Fragment : Len(part) < Capacity

VARIABLES
  sockets,   \* the connection in each slot
  messages,  \* the buffer of each slot
  offsets,   \* where the next read puts its bytes in it
  users,     \* the user of each slot
  pc,        \* "select", "serve", or "crashed" by a NULL pointer
  serving,   \* the n of handle_client
  peer,      \* the state of each client's connection
  wire,      \* the bytes written on it and not read yet
  lines,     \* history: the lines each client has written
  handled    \* history: the messages handled as each client's

table == <<sockets, messages, offsets, users>>
vars == <<table, pc, serving, peer, wire, lines, handled>>

Slot == 1..MaxClients

TypeOK ==
  /\ sockets \in [Slot -> Client \cup {None}]
  /\ messages \in [Slot -> Buffer \cup {None}]
  /\ offsets \in [Slot -> 0..Capacity]
  /\ users \in [Slot -> Client \cup {None}]
  /\ pc \in {"select", "serve", "crashed"}
  /\ serving \in Slot
  /\ peer \in [Client -> {"idle", "up", "fin", "gone"}]
  /\ wire \in [Client -> Seq(Byte)]
  /\ lines \in [Client -> Seq(Line)]
  /\ handled \in [Client -> Seq(Seq(Byte))]

Init ==
  /\ sockets = [s \in Slot |-> None]
  /\ messages = [s \in Slot |-> None]
  /\ offsets = [s \in Slot |-> 0]
  /\ users = [s \in Slot |-> None]
  /\ pc = "select"
  /\ serving = 1
  /\ peer = [c \in Client |-> "idle"]
  /\ wire = [c \in Client |-> <<>>]
  /\ lines = [c \in Client |-> <<>>]
  /\ handled = [c \in Client |-> <<>>]

-----------------------------------------------------------------------------
(* Connections *)

IsOpen(s) == sockets[s] # None
OpenSlots == {s \in Slot : IsOpen(s)}

\* What malloc returns: whatever the bytes were.  Those behind the offset are
\* written before they are read, so they are null here; those before it only
\* matter when the slot's offset is not zero.
Malloced(offset) == {b \in Buffer : \A i \in offset..Capacity : b[i] = Null}

\* The slot establish_connection fills: the first one without a socket.
Vacant(s) == ~IsOpen(s) /\ \A t \in Slot : t < s => IsOpen(t)

\* A connection is made when it is accepted.  (What the code does without a
\* vacant slot is the subject of ChatServer.)
EstablishConnection ==
  /\ pc = "select"
  /\ \E c \in Client, s \in Slot :
       /\ peer[c] = "idle"
       /\ Vacant(s)
       /\ peer' = [peer EXCEPT ![c] = "up"]
       /\ sockets' = [sockets EXCEPT ![s] = c]
       /\ users' = [users EXCEPT ![s] = None]
       /\ \E b \in Malloced(offsets[s]) : messages' = [messages EXCEPT ![s] = b]
  /\ UNCHANGED <<offsets, pc, serving, wire, lines, handled>>

\* Clients write between the server's reads; a line, or the start of one and
\* then the end of the connection.
Write(c, line) ==
  /\ pc = "select"
  /\ peer[c] = "up"
  /\ Len(lines[c]) < MaxLines
  /\ wire' = [wire EXCEPT ![c] = @ \o line]
  /\ lines' = [lines EXCEPT ![c] = Append(@, line)]
  /\ UNCHANGED <<table, pc, serving, peer, handled>>

Hangup(c, part) ==
  /\ pc = "select"
  /\ peer[c] = "up"
  /\ peer' = [peer EXCEPT ![c] = "fin"]
  /\ wire' = [wire EXCEPT ![c] = @ \o part]
  /\ UNCHANGED <<table, pc, serving, lines, handled>>

-----------------------------------------------------------------------------
(* handle_client: the read *)

\* The size given to read.
Room(s) == Capacity - offsets[s]

ReceiveBytes(s) ==
  /\ pc = "select"
  /\ IsOpen(s)
  /\ \E length \in 1..Min({Room(s), Len(wire[sockets[s]])}) :
       /\ messages' = [messages EXCEPT
            ![s] = Stored(@, offsets[s], SubSeq(wire[sockets[s]], 1, length))]
       /\ wire' = [wire EXCEPT ![sockets[s]] = SubSeq(@, length + 1, Len(@))]
  /\ pc' = "serve"
  /\ serving' = s
  /\ UNCHANGED <<sockets, offsets, users, peer, lines, handled>>

\* read returns 0: at the end of the stream, and also when its size is 0.
AtEnd(s) == Room(s) = 0 \/ (wire[sockets[s]] = <<>> /\ peer[sockets[s]] = "fin")

ReceiveEnd(s) ==
  /\ pc = "select"
  /\ IsOpen(s)
  /\ wire[sockets[s]] # <<>> \/ peer[sockets[s]] = "fin"   \* select reports it
  /\ AtEnd(s)
  /\ peer' = [peer EXCEPT ![sockets[s]] = "gone"]
  /\ wire' = [wire EXCEPT ![sockets[s]] = <<>>]
  /\ sockets' = [sockets EXCEPT ![s] = None]
  /\ messages' = [messages EXCEPT ![s] = None]
  /\ UNCHANGED <<offsets, users, pc, serving, lines, handled>>

-----------------------------------------------------------------------------
(* handle_client: the loop over the messages *)

\* messages[n] and offsets[n] of the slot handle_client was called for.
Served == messages[serving]
LineEnd == FindMessageEnd(Served, offsets[serving])
Message == FirstMessage(Served, LineEnd + 1)

HasMessage == pc = "serve" /\ Served # None /\ LineEnd # -1

\* Mutant of Advanced: the next search starts where the last one did.
AdvancedKeepsOffset(t) ==
  /\ messages' = [messages EXCEPT ![t] = Remaining(Served, LineEnd + 1)]
  /\ UNCHANGED offsets

\* generate_message, and offsets[n] = 0 at the end of the loop's body.
Advanced(t) ==
  /\ messages' = [messages EXCEPT ![t] = Remaining(Served, LineEnd + 1)]
  /\ offsets' = [offsets EXCEPT ![serving] = 0]

\* Mutant of NextStep: handle_client returns after one message.
NextStepReturn == "select"

\* The loop goes on to search the buffer again.
NextStep == "serve"

Handle == handled' = [handled EXCEPT ![sockets[serving]] = Append(@, Message)]

\* The first message is the name.
Join ==
  /\ HasMessage
  /\ users[serving] = None
  /\ Handle
  /\ Advanced(serving)
  /\ users' = [users EXCEPT ![serving] = sockets[serving]]
  /\ pc' = NextStep
  /\ UNCHANGED <<sockets, serving, peer, wire, lines>>

\* A text, or a command that leaves the table alone.
HandleMessage ==
  /\ HasMessage
  /\ users[serving] # None
  /\ Message # ListLine
  /\ Handle
  /\ Advanced(serving)
  /\ pc' = NextStep
  /\ UNCHANGED <<sockets, users, serving, peer, wire, lines>>

\* Where remove_holes takes each row of the table from: in order, each empty
\* slot is swapped with the next one in use.
Compaction ==
  LET Swapped(q, s, t) == [q EXCEPT ![s] = q[t], ![t] = q[s]]
      InUseAfter(q, s) == {t \in Slot : t > s /\ IsOpen(q[t])}
      After[s \in 0..MaxClients] ==
        IF s = 0 THEN [t \in Slot |-> t]
        ELSE LET q == After[s - 1] IN
             IF IsOpen(q[s]) \/ InUseAfter(q, s) = {} THEN q ELSE Swapped(q, s, Min(InUseAfter(q, s)))
  IN After[MaxClients]

\* The first k rows of q are in the order of their users' names; names need not
\* differ.
InNameOrder(q, k) == \A s, t \in 1..k : s < t => <<users[q[t]], users[q[s]]>> \notin NameOrder

\* The arrangements sort_users can end with: compacted, then the rows in use
\* in the order of their users' names.  Of two rows the first is the pivot, so
\* they are only exchanged when they are out of order; among more of them a
\* random pivot may also change the order of equal names.
Arrangements ==
  LET k == Cardinality(OpenSlots) IN
  {q \in [Slot -> Slot] :
     IF k <= 2 /\ InNameOrder(Compaction, k) THEN q = Compaction
     ELSE /\ \A s \in Slot : s > k => q[s] = Compaction[s]
          /\ {q[s] : s \in 1..k} = OpenSlots
          /\ InNameOrder(q, k)}

\* What the calls of swap_information come to, but for the offsets.
MoveRows(q, buffers) ==
  /\ sockets' = [s \in Slot |-> sockets[q[s]]]
  /\ messages' = [s \in Slot |-> buffers[q[s]]]
  /\ users' = [s \in Slot |-> users[q[s]]]

\* show_all_statuses moves the rows under handle_client, whose n stays what it
\* was: from here on it works on another client's buffer, or on none, and the
\* zero that belongs in the sender's offset goes to that other client's.
SortUsers ==
  /\ HasMessage
  /\ users[serving] # None
  /\ Message = ListLine
  /\ \A s \in OpenSlots : users[s] # None
  /\ Handle
  /\ \E q \in Arrangements :
       /\ MoveRows(q, [messages EXCEPT ![serving] = Remaining(Served, LineEnd + 1)])
       /\ offsets' = [[s \in Slot |-> offsets[q[s]]] EXCEPT ![serving] = 0]
  /\ pc' = NextStep
  /\ UNCHANGED <<serving, peer, wire, lines>>

Crash ==
  /\ pc' = "crashed"
  /\ UNCHANGED <<table, serving, peer, wire, lines, handled>>

\* The statuses include a user that has no name yet.
SortNullUser ==
  /\ HasMessage
  /\ users[serving] # None
  /\ Message = ListLine
  /\ \E s \in OpenSlots : users[s] = None
  /\ Crash

\* The sort has left the slot empty.
BufferGone ==
  /\ pc = "serve"
  /\ Served = None
  /\ Crash

\* Mutant of OffsetAfter: the offset stays at zero.
OffsetAfterZero == 0

\* Mutant of OffsetAfter: the loop's last location is taken for the length.
OffsetAfterLocation == LineEnd

\* offsets[n] = strlen (messages[n])
OffsetAfter == StringEnd(Served, 0)

ClientDone ==
  /\ pc = "serve"
  /\ Served # None
  /\ LineEnd = -1
  /\ offsets' = [offsets EXCEPT ![serving] = OffsetAfter]
  /\ pc' = "select"
  /\ UNCHANGED <<sockets, messages, users, serving, peer, wire, lines, handled>>

-----------------------------------------------------------------------------

Parse == Join \/ HandleMessage \/ SortUsers \/ SortNullUser \/ BufferGone \/ ClientDone

Receive(s) == ReceiveBytes(s) \/ ReceiveEnd(s)

Clients == \E c \in Client :
  \/ \E line \in Line : Write(c, line)
  \/ \E part \in Fragment \cup {<<>>} : Hangup(c, part)

Next == Parse \/ (\E s \in Slot : Receive(s)) \/ EstablishConnection \/ Clients

Spec == Init /\ [][Next]_vars

\* The scan comes to every slot that select reports, and handle_client runs
\* to its end; nothing makes a client write or hang up.
FairSpec == Spec /\ WF_vars(Parse) /\ \A s \in Slot : WF_vars(Receive(s))

-----------------------------------------------------------------------------
(* Properties *)

Unhandled(c) == SubSeq(lines[c], Len(handled[c]) + 1, Len(lines[c]))

Queue == INSTANCE LineQueue WITH Message <- Line, queue <- [c \in Client |-> Unhandled(c)]

\* However its bytes are cut up and joined by the reads, a connection is a
\* queue of lines: each is handled once, whole, in the order of writing.
ImplementsQueue == Queue!Spec

\* What was handled, what the buffer holds and what was not read yet are,
\* put together, the lines the client wrote, then what it wrote of another.
NothingLost ==
  \A s \in OpenSlots : LET c == sockets[s] IN
    IsPrefix(FlattenSeq(lines[c]), FlattenSeq(handled[c]) \o Text(messages[s]) \o wire[c])

\* Every line that was written is handled, though the client may hang up; only
\* the crash of a listing (SortNullUser, BufferGone) leaves lines unhandled.
LinesHandled ==
  \A c \in Client : \A k \in 1..MaxLines :
    Len(lines[c]) >= k ~> (Len(handled[c]) >= k \/ pc = "crashed")

=============================================================================
