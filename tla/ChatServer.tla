----------------------------- MODULE ChatServer -----------------------------
(***************************************************************************)
(* The connection table and the event loop of the 61C chat server          *)
(* (projects/proj1-acf/server.c, with the parts of commands.c,             *)
(* command_utils.c and user_utils.c that change or walk the table).        *)
(*                                                                         *)
(* The server is one thread.  It blocks in select, then scans its slots    *)
(* and serves each readable one; serving a client may write to any other   *)
(* client, and a failed write closes that client's slot in the middle of   *)
(* whatever was going on.  What can be interleaved is the outside: clients *)
(* connect, send, close and die between any two system calls.  So a step   *)
(* of this module is one system call (or the code between two of them) and *)
(* the C call stack, which holds the loop counters of the half-finished    *)
(* calls, is the variable "stack", its innermost call first.  The clients    *)
(* act when the server is blocked or about to write; acting at any other   *)
(* moment would not look different to it.                                  *)
(*                                                                         *)
(* Abstractions.  A connection, the buffer malloc'ed for it and the user   *)
(* created on it are named by the client.  A line is its kind.  Lines      *)
(* arrive whole and the lines a read returns fit the buffer.  Whether a    *)
(* named receiver has muted the sender, and whether a mute list is full,   *)
(* is left open.  A write takes the whole of what it is given or nothing.  *)
(***************************************************************************)
EXTENDS Integers, Sequences, FiniteSets

CONSTANTS
  Client,      \* the connections that may ever be made
  None,        \* the empty slot (-1) and the NULL pointer
  Listener,    \* sockets[0]
  NameOrder,   \* the pairs <<c, d>> such that c's user may sort before d's
  MaxClients,  \* slots for clients: 10 in the code
  Kind,        \* the kinds of line the clients send in this instance
  MaxLines,    \* bound: lines the clients send in all
  Aborts,      \* may a client's connection be reset?
  Stalls       \* may a client's receive window be full?

LineKind == {"text",         \* shared with the other users
             "plain",        \* a command that only answers its sender
             "lookup",       \* mute, unmute, show_status
             "notify",       \* set_nickname, clear_nickname, rename
             "list",         \* show_all_statuses
             "server_exit"}

ASSUME ClientAssumption == None \notin Client
ASSUME ListenerAssumption == Listener \notin Client
ASSUME BoundsAssumption == MaxClients \in Nat \ {0} /\ MaxLines \in Nat
ASSUME KindAssumption == Kind \subseteq LineKind
ASSUME FaultsAssumption == Aborts \in BOOLEAN /\ Stalls \in BOOLEAN

VARIABLES
  \* the server's globals and heap
  sockets,       \* the connection in each slot
  messages,      \* the buffer each slot points to
  users,         \* the user each slot points to, possibly freed
  socket_total,  \* open sockets, the listener included
  buffers,       \* the buffers allocated and not freed
  userinfos,     \* the users allocated and not freed
  text,          \* the unparsed lines of each buffer
  errno,
  \* the server's control state
  pc,            \* "select", "scan", or how the process ended
  n,             \* the slot handle_connections looks at
  count,         \* the open sockets it has counted in this scan
  ready,         \* the read set select returned
  stack,         \* the calls in progress
  \* the clients and the kernel
  peer,          \* the state of each client's connection
  backlog,       \* the connections not accepted yet
  inbox,         \* the lines the kernel holds for the server
  sent,          \* the number of lines the clients have sent
  \* history
  owed,          \* the departures each client still has to be told
  garbled        \* the departures it was told in a line that began too early

table == <<sockets, messages, users, socket_total>>
heap == <<buffers, userinfos>>
scanning == <<n, count, ready>>
network == <<backlog, inbox, sent>>
news == <<owed, garbled>>
vars == <<table, heap, text, errno, pc, scanning, stack, peer, network, news>>

-----------------------------------------------------------------------------
(* Types *)

Slot == 1..MaxClients

PeerState == {"idle",   \* never connected
              "up",
              "fin",    \* closed by the client
              "rst",    \* reset by the client, the error not yet reported
              "dead",   \* reset, and writing to it raises SIGPIPE
              "gone"}   \* closed by the server

Ended == {"exited",       \* handle_server_exit
          "sigpipe",      \* killed by a write to a dead connection
          "null_buffer",  \* dereferenced a NULL messages[n]
          "null_user",    \* dereferenced a NULL users[i]
          "freed",        \* used a freed user
          "overrun"}      \* walked past sockets[MaxClients]

Frame == [op : {"client", "share", "drop", "cleanup", "reply", "list"},
          n : Slot, isuser : BOOLEAN, ctr : Nat, count : Nat, lost : Seq(Slot),
          early : BOOLEAN]

TypeOK ==
  /\ sockets \in [Slot -> Client \cup {None}]
  /\ messages \in [Slot -> Client \cup {None}]
  /\ users \in [Slot -> Client \cup {None}]
  /\ socket_total \in Int
  /\ buffers \subseteq Client
  /\ userinfos \subseteq Client
  /\ text \in [Client -> Seq(LineKind)]
  /\ errno \in {"0", "EAGAIN", "ECONNRESET"}
  /\ pc \in {"select", "scan"} \cup Ended
  /\ n \in Nat
  /\ count \in Nat
  /\ ready \subseteq Client \cup {Listener}
  /\ stack \in Seq(Frame)
  /\ peer \in [Client -> PeerState]
  /\ backlog \in Seq(Client)
  /\ inbox \in [Client -> Seq(LineKind)]
  /\ sent \in Nat
  /\ owed \in [Client -> SUBSET Client]
  /\ garbled \in [Client -> SUBSET (Client \cup {None})]

Init ==
  /\ sockets = [s \in Slot |-> None]
  /\ messages = [s \in Slot |-> None]
  /\ users = [s \in Slot |-> None]
  /\ socket_total = 1
  /\ buffers = {}
  /\ userinfos = {}
  /\ text = [c \in Client |-> <<>>]
  /\ errno = "0"
  /\ pc = "select"
  /\ n = 0
  /\ count = 0
  /\ ready = {}
  /\ stack = <<>>
  /\ peer = [c \in Client |-> "idle"]
  /\ backlog = <<>>
  /\ inbox = [c \in Client |-> <<>>]
  /\ sent = 0
  /\ owed = [c \in Client |-> {}]
  /\ garbled = [c \in Client |-> {}]

-----------------------------------------------------------------------------
(* The table and the call stack *)

IsOpen(s) == sockets[s] # None
OpenSlots == {s \in Slot : IsOpen(s)}
Connected == {sockets[s] : s \in OpenSlots}

\* A call of op on slot s, its loop counters at their initial values; early
\* says that share_message's length is negative.
Call(op, s) ==
  [op |-> op, n |-> s, isuser |-> FALSE, ctr |-> 1, count |-> 1, lost |-> <<>>, early |-> FALSE]

ShareCall(s, isuser) == [Call("share", s) EXCEPT !.isuser = isuser]

Running == pc = "scan"
In(op) == Running /\ stack # <<>> /\ Head(stack).op = op
Top == Head(stack)
Return == stack' = Tail(stack)
Continue(frame) == stack' = <<frame>> \o Tail(stack)

\* Mutants of Farewell: nobody is told; the nested share_message finds the
\* closures of the outer one in its list.
FarewellSilent(s) == IF users[s] = None THEN <<>> ELSE <<Call("cleanup", s)>>

FarewellOneList(s) ==
  IF users[s] = None THEN <<>>
  ELSE <<[Call("share", s) EXCEPT !.lost = IF stack = <<>> THEN <<>> ELSE Top.lost],
         Call("cleanup", s)>>

\* handle_disconnect (s), then cleanup_user (users[s]): what every path that
\* has closed the slot of a named user does.
Farewell(s) ==
  IF users[s] = None THEN <<>> ELSE <<Call("share", s), Call("cleanup", s)>>

\* The end of the process.  What is left of its state is kept as it is.
End(how) ==
  /\ pc' = how
  /\ UNCHANGED <<table, heap, text, errno, scanning, stack, peer, network, news>>

\* History: the user of slot s has lost its connection, so everyone else
\* connected is owed the news.
OweDeparture(s) ==
  /\ owed' = [c \in Client |->
               IF users[s] # None /\ \E t \in OpenSlots \ {s} : sockets[t] = c
               THEN owed[c] \cup {users[s]}
               ELSE owed[c]]
  /\ UNCHANGED garbled

\* Mutants of CloseSlot: 0 for -1, and no close.
CloseSlotToZero(s) ==
  /\ sockets' = [sockets EXCEPT ![s] = Listener]
  /\ peer' = [peer EXCEPT ![sockets[s]] = "gone"]
  /\ OweDeparture(s)

CloseSlotOpen(s) ==
  /\ sockets' = [sockets EXCEPT ![s] = None]
  /\ UNCHANGED peer
  /\ OweDeparture(s)

\* close (sockets[s]); sockets[s] = -1
CloseSlot(s) ==
  /\ sockets' = [sockets EXCEPT ![s] = None]
  /\ peer' = [peer EXCEPT ![sockets[s]] = "gone"]
  /\ OweDeparture(s)

\* What write returns on c's connection, and the state it leaves c's side in.
\* A first write after a FIN succeeds and may provoke a reset; a reset is
\* reported once, and the write after it raises SIGPIPE.
WriteOutcome(c, got, after) ==
  \/ peer[c] = "up" /\ got = "sent" /\ after = "up"
  \/ peer[c] = "up" /\ got = "again" /\ after = "up" /\ Stalls
  \/ peer[c] = "fin" /\ got = "sent" /\ after \in {"fin", "dead"}
  \/ peer[c] = "rst" /\ got = "reset" /\ after = "dead"
  \/ peer[c] = "dead" /\ got = "pipe" /\ after = "dead"

Writes(c, got) == \E after \in PeerState : WriteOutcome(c, got, after)

-----------------------------------------------------------------------------
(* handle_connections: select, then one scan of the table *)

\* Mutants of Readable and ReadSet: ends, lines or connections go unnoticed.
ReadableLines(c) == inbox[c] # <<>>

Readable(c) == inbox[c] # <<>> \/ peer[c] \in {"fin", "rst", "dead"}

ReadSetNoListener == {c \in Connected : Readable(c)}

ReadSet == {c \in Connected : Readable(c)}
             \cup (IF backlog = <<>> THEN {} ELSE {Listener})

Select ==
  /\ pc = "select"
  /\ ReadSet # {}
  /\ pc' = "scan"
  /\ ready' = ReadSet
  /\ n' = 0
  /\ count' = 0
  /\ UNCHANGED <<table, heap, text, errno, stack, peer, network, news>>

\* The top of the scan loop, no call in progress.
AtSlot == Running /\ stack = <<>> /\ count < socket_total

\* The scan goes on to the next slot, having counted this one.
CountSlot ==
  /\ n' = n + 1
  /\ count' = count + 1
  /\ UNCHANGED ready

ScanListener ==
  /\ AtSlot
  /\ n = 0
  /\ Listener \notin ready \/ socket_total = MaxClients + 1
  /\ CountSlot
  /\ UNCHANGED <<table, heap, text, errno, pc, stack, peer, network, news>>

\* Mutant of FirstFree: the slots in use are the first ones.
FirstFreeByTotal(s) == s = socket_total

\* The slot establish_connection finds.
FirstFree(s) == ~IsOpen(s) /\ \A t \in Slot : t < s => IsOpen(t)

FillSlot(s, c) ==
  /\ sockets' = [sockets EXCEPT ![s] = c]
  /\ messages' = [messages EXCEPT ![s] = c]
  /\ users' = [users EXCEPT ![s] = None]
  /\ buffers' = buffers \cup {c}

EstablishConnection ==
  /\ AtSlot
  /\ n = 0
  /\ Listener \in ready
  /\ socket_total < MaxClients + 1
  /\ \E s \in Slot : FirstFree(s) /\ FillSlot(s, Head(backlog))
  /\ socket_total' = socket_total + 1
  /\ backlog' = Tail(backlog)
  /\ CountSlot
  /\ UNCHANGED <<userinfos, text, errno, pc, stack, peer, inbox, sent, news>>

\* A slot that is empty, or whose socket has nothing to read.
SkipSlot ==
  /\ AtSlot
  /\ n \in Slot
  /\ IsOpen(n) => (sockets[n] \notin ready \/ ~Readable(sockets[n]))
  /\ n' = n + 1
  /\ count' = count + (IF IsOpen(n) THEN 1 ELSE 0)
  /\ UNCHANGED <<table, heap, text, errno, pc, ready, stack, peer, network, news>>

\* handle_client (n): read returns lines.
ReceiveLines ==
  /\ AtSlot
  /\ n \in Slot
  /\ IsOpen(n)
  /\ LET c == sockets[n] IN
       /\ c \in ready
       /\ inbox[c] # <<>>
       /\ text' = [text EXCEPT ![messages[n]] = inbox[c]]
       /\ inbox' = [inbox EXCEPT ![c] = <<>>]
  /\ errno' = "0"
  /\ stack' = <<Call("client", n)>>
  /\ CountSlot
  /\ UNCHANGED <<table, heap, pc, peer, backlog, sent, news>>

\* handle_client (n): read returns 0 or an error; the slot is given up.
ReceiveEnd ==
  /\ AtSlot
  /\ n \in Slot
  /\ IsOpen(n)
  /\ sockets[n] \in ready
  /\ inbox[sockets[n]] = <<>>
  /\ peer[sockets[n]] \in {"fin", "rst", "dead"}
  /\ CloseSlot(n)
  /\ socket_total' = socket_total - 1
  /\ buffers' = buffers \ {messages[n]}
  /\ messages' = [messages EXCEPT ![n] = None]
  /\ errno' = "0"
  /\ stack' = Farewell(n)
  /\ CountSlot
  /\ UNCHANGED <<users, userinfos, text, pc, network>>

ScanDone ==
  /\ Running
  /\ stack = <<>>
  /\ count >= socket_total
  /\ pc' = "select"
  /\ n' = 0
  /\ count' = 0
  /\ ready' = {}
  /\ UNCHANGED <<table, heap, text, errno, stack, peer, network, news>>

ScanOverrun ==
  /\ AtSlot
  /\ n > MaxClients
  /\ End("overrun")

-----------------------------------------------------------------------------
(* handle_client: the loop over the lines in the buffer *)

\* The next line of the buffer slot s points to is of this kind.
HasLine(s, kinds) ==
  /\ messages[s] # None
  /\ text[messages[s]] # <<>>
  /\ Head(text[messages[s]]) \in kinds

TakeLine(s) == text' = [text EXCEPT ![messages[s]] = Tail(@)]

\* The next line comes from a user, and is of one of these kinds.
Command(kinds) == In("client") /\ HasLine(Top.n, kinds) /\ users[Top.n] # None

BufferGone ==
  /\ In("client")
  /\ messages[Top.n] = None
  /\ End("null_buffer")

ClientDone ==
  /\ In("client")
  /\ messages[Top.n] # None
  /\ text[messages[Top.n]] = <<>>
  /\ Return
  /\ UNCHANGED <<table, heap, text, errno, pc, scanning, peer, network, news>>

\* The first line is the user's name: the user is whoever's buffer it is in.
Join ==
  /\ In("client")
  /\ HasLine(Top.n, LineKind)
  /\ users[Top.n] = None
  /\ users' = [users EXCEPT ![Top.n] = messages[Top.n]]
  /\ userinfos' = userinfos \cup {messages[Top.n]}
  /\ TakeLine(Top.n)
  /\ errno' = "0"
  /\ stack' = <<ShareCall(Top.n, FALSE)>> \o stack
  /\ UNCHANGED <<sockets, messages, socket_total, buffers, pc, scanning, peer, network, news>>

ShareUserMessage ==
  /\ Command({"text"})
  /\ TakeLine(Top.n)
  /\ errno' = "0"
  /\ stack' = <<ShareCall(Top.n, TRUE)>> \o stack
  /\ UNCHANGED <<table, heap, pc, scanning, peer, network, news>>

\* istaken_name, istaken_nickname and find_user walk the open slots until one
\* matches and dereference users[i] on the way.
SomeUnnamed == \E s \in OpenSlots : users[s] = None
FirstNamed == \E s \in OpenSlots : users[s] # None /\ \A t \in OpenSlots : s <= t

LookupNullUser ==
  /\ Command({"lookup", "notify"})
  /\ SomeUnnamed
  /\ End("null_user")

\* A command that ends in one reply and tells nobody else: also a "notify"
\* command whose arguments are refused.
AnswerSender ==
  /\ Command({"plain", "lookup", "notify"})
  /\ HasLine(Top.n, {"plain"}) \/ ~SomeUnnamed \/ FirstNamed
  /\ TakeLine(Top.n)
  /\ stack' = <<Call("reply", Top.n)>> \o stack
  /\ UNCHANGED <<table, heap, errno, pc, scanning, peer, network, news>>

\* mute by a user whose list of mutes is full.
MuteListFull ==
  /\ Command({"lookup"})
  /\ ~SomeUnnamed \/ FirstNamed
  /\ TakeLine(Top.n)
  /\ UNCHANGED <<table, heap, errno, pc, scanning, stack, peer, network, news>>

\* set_nickname, clear_nickname, rename: tell the others, then the sender.
NotifyAll ==
  /\ Command({"notify"})
  /\ ~SomeUnnamed \/ FirstNamed
  /\ TakeLine(Top.n)
  /\ errno' = "0"
  /\ stack' = <<ShareCall(Top.n, FALSE), Call("reply", Top.n)>> \o stack
  /\ UNCHANGED <<table, heap, pc, scanning, peer, network, news>>

HandleServerExit ==
  /\ Command({"server_exit"})
  /\ sockets' = [s \in Slot |-> None]
  /\ socket_total' = socket_total - 1
  /\ buffers' = buffers \ {messages[s] : s \in OpenSlots}
  /\ userinfos' = userinfos \ {users[s] : s \in OpenSlots}
  /\ peer' = [c \in Client |-> IF c \in Connected THEN "gone" ELSE peer[c]]
  /\ pc' = "exited"
  /\ UNCHANGED <<messages, users, text, errno, scanning, stack, network, news>>

-----------------------------------------------------------------------------
(* show_all_statuses: sort the table, then reply once per user *)

\* Where sort_users takes the content of each slot from: the open slots come
\* first, in the order of their users' names.  (The order it leaves the empty
\* slots in is never observed.)
Arrangements ==
  LET k == Cardinality(OpenSlots) IN
  {q \in [Slot -> Slot] :
     /\ \A s \in Slot : \E t \in Slot : q[t] = s
     /\ \A s \in Slot : s <= k <=> IsOpen(q[s])
     /\ \A s, t \in Slot : s < t /\ t <= k => <<users[q[s]], users[q[t]]>> \in NameOrder
     /\ \A s, t \in Slot : k < s /\ s < t => q[s] < q[t]}

SortNullUser ==
  /\ Command({"list"})
  /\ SomeUnnamed
  /\ End("null_user")

\* Mutant of MoveSlots: the users stay where they are.
MoveSlotsNotUsers(q) ==
  /\ sockets' = [s \in Slot |-> sockets[q[s]]]
  /\ messages' = [s \in Slot |-> messages[q[s]]]
  /\ UNCHANGED users

\* What the calls of swap_information come to.
MoveSlots(q) ==
  /\ sockets' = [s \in Slot |-> sockets[q[s]]]
  /\ messages' = [s \in Slot |-> messages[q[s]]]
  /\ users' = [s \in Slot |-> users[q[s]]]

SortUsers ==
  /\ Command({"list"})
  /\ ~SomeUnnamed
  /\ TakeLine(Top.n)
  /\ \E q \in Arrangements :
       /\ MoveSlots(q)
       /\ \E s \in Slot : q[s] = Top.n /\ stack' = <<Call("list", s)>> \o stack
  /\ UNCHANGED <<socket_total, heap, errno, pc, scanning, peer, network, news>>

\* output_user_status (users[i], n): compose the status, then reply.
OutputUserStatus ==
  /\ In("list")
  /\ Top.ctr < socket_total
  /\ users[Top.ctr] \in userinfos
  /\ stack' = <<Call("reply", Top.n), [Top EXCEPT !.ctr = @ + 1]>> \o Tail(stack)
  /\ UNCHANGED <<table, heap, text, errno, pc, scanning, peer, network, news>>

ListFreedUser ==
  /\ In("list")
  /\ Top.ctr < socket_total
  /\ users[Top.ctr] \notin userinfos
  /\ End("freed")

ListDone ==
  /\ In("list")
  /\ Top.ctr >= socket_total
  /\ Return
  /\ UNCHANGED <<table, heap, text, errno, pc, scanning, peer, network, news>>

-----------------------------------------------------------------------------
(* share_message: write to every open slot but n *)

\* The loop has a slot to look at.
Sharing == In("share") /\ Top.count < socket_total /\ Top.ctr \in Slot

\* The slot is open and is not the sender's.
AtOther == Sharing /\ IsOpen(Top.ctr) /\ Top.ctr # Top.n

\* What the loop writes to the slot's socket.
AtReceiver == AtOther /\ (Top.isuser => users[Top.ctr] # None)

\* Mutant of NextReceiver: the slot is not counted.
NextReceiverUncounted == [Top EXCEPT !.ctr = @ + 1]

\* The frame once the loop has dealt with an open slot.
NextReceiver == [Top EXCEPT !.ctr = @ + 1, !.count = @ + 1, !.early = FALSE]

ShareSkipEmpty ==
  /\ Sharing
  /\ ~IsOpen(Top.ctr)
  /\ Continue([Top EXCEPT !.ctr = @ + 1])
  /\ UNCHANGED <<table, heap, text, errno, pc, scanning, peer, network, news>>

\* The sender's own slot, or a user who has muted the sender.
ShareSkip ==
  /\ Sharing
  /\ IsOpen(Top.ctr)
  /\ Top.ctr = Top.n \/ (Top.isuser /\ users[Top.ctr] # None)
  /\ Continue(NextReceiver)
  /\ UNCHANGED <<table, heap, text, errno, pc, scanning, peer, network, news>>

\* ismuted (users[ctr], users[n]) for a connection that has no user yet.
ShareNullUser ==
  /\ AtOther
  /\ Top.isuser
  /\ users[Top.ctr] = None
  /\ End("null_user")

\* The news in the message reaches c: if the sender's slot is closed, that of
\* its departure.  A line with a stray byte before its type is not understood.
Tell(c) ==
  IF IsOpen(Top.n) THEN UNCHANGED news
  ELSE IF Top.early
       THEN garbled' = [garbled EXCEPT ![c] = @ \cup {users[Top.n]}] /\ UNCHANGED owed
       ELSE owed' = [owed EXCEPT ![c] = @ \ {users[Top.n]}] /\ UNCHANGED garbled

\* The message is written, from where length says.
ShareDeliver ==
  /\ AtReceiver
  /\ errno # "ECONNRESET"
  /\ LET c == sockets[Top.ctr] IN
       /\ \E after \in PeerState :
            /\ WriteOutcome(c, "sent", after)
            /\ peer' = [peer EXCEPT ![c] = after]
       /\ Tell(c)
  /\ Continue(NextReceiver)
  /\ UNCHANGED <<table, heap, text, errno, pc, scanning, network>>

\* EAGAIN: the -1 that write returned is added to length, and the loop writes to
\* the same slot again, from a byte before the message (or further before it).
ShareStall ==
  /\ AtReceiver
  /\ Writes(sockets[Top.ctr], "again")
  /\ errno' = "EAGAIN"
  /\ Continue([Top EXCEPT !.early = TRUE])
  /\ UNCHANGED <<table, heap, text, pc, scanning, peer, network, news>>

\* The write fails, or succeeds with errno still set by an earlier one.
ShareLose ==
  /\ AtReceiver
  /\ \/ Writes(sockets[Top.ctr], "reset")
     \/ Writes(sockets[Top.ctr], "sent") /\ errno = "ECONNRESET"
  /\ errno' = "ECONNRESET"
  /\ CloseSlot(Top.ctr)
  /\ Continue([NextReceiver EXCEPT !.lost = Append(@, Top.ctr)])
  /\ UNCHANGED <<messages, users, socket_total, heap, text, pc, scanning, network>>

SharePipe ==
  /\ AtReceiver
  /\ Writes(sockets[Top.ctr], "pipe")
  /\ End("sigpipe")

\* The end of the write loop.  The slots it closed are then dropped, and errno
\* is not looked at again before the next share_message resets it.
ShareDone ==
  /\ In("share")
  /\ Top.count >= socket_total
  /\ socket_total' = socket_total - Len(Top.lost)
  /\ errno' = "0"
  /\ Continue([Top EXCEPT !.op = "drop"])
  /\ UNCHANGED <<sockets, messages, users, heap, text, pc, scanning, peer, network, news>>

\* Mutant of ForgetBuffers: the closed slot keeps its buffer.
ForgetSenderBuffer(m, s) ==
  /\ buffers' = buffers \ {messages[m]}
  /\ messages' = [messages EXCEPT ![m] = None]

\* The buffer freed is the sender's; the closed slot's is only forgotten.
ForgetBuffers(m, s) ==
  /\ buffers' = buffers \ {messages[m]}
  /\ messages' = [messages EXCEPT ![m] = None, ![s] = None]

DropNext ==
  /\ In("drop")
  /\ Top.lost # <<>>
  /\ LET s == Head(Top.lost) IN
       /\ ForgetBuffers(Top.n, s)
       /\ stack' = Farewell(s) \o <<[Top EXCEPT !.lost = Tail(@)]>> \o Tail(stack)
  /\ UNCHANGED <<sockets, users, socket_total, userinfos, text, errno, pc, scanning, peer,
                 network, news>>

DropDone ==
  /\ In("drop")
  /\ Top.lost = <<>>
  /\ Return
  /\ UNCHANGED <<table, heap, text, errno, pc, scanning, peer, network, news>>

\* cleanup_user (users[n]), the departure having been shared.
CleanupUser ==
  /\ In("cleanup")
  /\ users[Top.n] \in userinfos
  /\ userinfos' = userinfos \ {users[Top.n]}
  /\ Return
  /\ UNCHANGED <<table, buffers, text, errno, pc, scanning, peer, network, news>>

-----------------------------------------------------------------------------
(* reply: write to the sender *)

ReplyClosed ==
  /\ In("reply")
  /\ ~IsOpen(Top.n)
  /\ Return
  /\ UNCHANGED <<table, heap, text, errno, pc, scanning, peer, network, news>>

ReplyDeliver ==
  /\ In("reply")
  /\ IsOpen(Top.n)
  /\ \E after \in PeerState :
       /\ WriteOutcome(sockets[Top.n], "sent", after)
       /\ peer' = [peer EXCEPT ![sockets[Top.n]] = after]
  /\ Return
  /\ UNCHANGED <<table, heap, text, errno, pc, scanning, network, news>>

\* Any failed write, EAGAIN included, gives the slot up.
ReplyLose ==
  /\ In("reply")
  /\ IsOpen(Top.n)
  /\ Writes(sockets[Top.n], "reset") \/ Writes(sockets[Top.n], "again")
  /\ CloseSlot(Top.n)
  /\ buffers' = buffers \ {messages[Top.n]}
  /\ messages' = [messages EXCEPT ![Top.n] = None]
  /\ socket_total' = socket_total - 1
  /\ stack' = Farewell(Top.n) \o Tail(stack)
  /\ UNCHANGED <<users, userinfos, text, errno, pc, scanning, network>>

ReplyPipe ==
  /\ In("reply")
  /\ IsOpen(Top.n)
  /\ Writes(sockets[Top.n], "pipe")
  /\ End("sigpipe")

-----------------------------------------------------------------------------
(* The clients *)

\* The server is blocked, or about to write: what happens at any other moment
\* it can only learn at the next of these.
AtSystemCall ==
  \/ pc = "select"
  \/ AtReceiver
  \/ In("reply") /\ IsOpen(Top.n)

Connect(c) ==
  /\ AtSystemCall
  /\ peer[c] = "idle"
  /\ peer' = [peer EXCEPT ![c] = "up"]
  /\ backlog' = Append(backlog, c)
  /\ UNCHANGED <<table, heap, text, errno, pc, scanning, stack, inbox, sent, news>>

Send(c, kind) ==
  /\ AtSystemCall
  /\ peer[c] = "up"
  /\ sent < MaxLines
  /\ inbox' = [inbox EXCEPT ![c] = Append(@, kind)]
  /\ sent' = sent + 1
  /\ UNCHANGED <<table, heap, text, errno, pc, scanning, stack, peer, backlog, news>>

\* The client closes its connection, or its machine resets it.
Hangup(c) ==
  /\ AtSystemCall
  /\ peer[c] = "up"
  /\ \E end \in IF Aborts THEN {"fin", "rst"} ELSE {"fin"} :
       peer' = [peer EXCEPT ![c] = end]
  /\ UNCHANGED <<table, heap, text, errno, pc, scanning, stack, network, news>>

-----------------------------------------------------------------------------
Scan ==
  \/ ScanListener \/ EstablishConnection \/ SkipSlot
  \/ ReceiveLines \/ ReceiveEnd \/ ScanDone \/ ScanOverrun

HandleClient ==
  \/ BufferGone \/ ClientDone \/ Join \/ ShareUserMessage
  \/ LookupNullUser \/ AnswerSender \/ MuteListFull \/ NotifyAll \/ HandleServerExit

ShowAllStatuses ==
  \/ SortNullUser \/ SortUsers \/ OutputUserStatus \/ ListFreedUser \/ ListDone

ShareMessage ==
  \/ ShareSkipEmpty \/ ShareSkip \/ ShareNullUser \/ ShareDeliver \/ ShareStall
  \/ ShareLose \/ SharePipe \/ ShareDone \/ DropNext \/ DropDone \/ CleanupUser

Reply == ReplyClosed \/ ReplyDeliver \/ ReplyLose \/ ReplyPipe

Server ==
  Select \/ Scan \/ HandleClient \/ ShowAllStatuses \/ ShareMessage \/ Reply

Clients ==
  \E c \in Client : Connect(c) \/ Hangup(c) \/ \E kind \in Kind : Send(c, kind)

Next == Server \/ Clients

Spec == Init /\ [][Next]_vars

\* The operating system runs the server; nothing makes a client do anything.
FairSpec == Spec /\ WF_vars(Server)

-----------------------------------------------------------------------------
(* Properties *)

AtRest == pc \in {"select", "scan"} /\ stack = <<>>

\* Slots the innermost call has closed and not yet subtracted.
Unsubtracted ==
  IF stack # <<>> /\ Top.op = "share" THEN Len(Top.lost) ELSE 0

\* socket_total counts the listener and the open slots, in every state: a
\* share_message that has closed slots and not yet subtracted them is exactly
\* that many ahead.  (server.c:41-43; decremented in four places.)
TotalCountsSockets ==
  pc # "exited" => socket_total = 1 + Cardinality(OpenSlots) + Unsubtracted

\* No connection is in two slots, and an open slot never points to another
\* connection's user or buffer, nor to a freed one, however failed writes,
\* departures, slot reuse and sorting follow each other.
SlotsCoherent ==
  /\ \A s, t \in OpenSlots : sockets[s] = sockets[t] => s = t
  /\ \A s \in OpenSlots :
       /\ users[s] # None => users[s] = sockets[s] /\ users[s] \in userinfos
       /\ messages[s] # None => messages[s] = sockets[s] /\ messages[s] \in buffers

\* The buffer of a client that is still connected is there whenever its next
\* read may happen.
BuffersInPlace ==
  AtRest => \A s \in Slot : messages[s] = sockets[s]

\* The departures that c was not sent at all.
Unheard(c) == owed[c] \ garbled[c]

\* Whoever is still connected when the server is done with an event has been
\* told of every named user that left while it was connected (README.md:125),
\* or was sent that news, from before its beginning, when its window had been
\* full: a stall is the only way to miss it.
DeparturesTold ==
  AtRest => \A s \in OpenSlots : Unheard(sockets[s]) = {}

\* README.md:125: "The server should notify other clients if a client
\* disconnects."  Not so for a client whose window was full at that moment.
EveryDepartureTold ==
  AtRest => \A s \in OpenSlots : owed[sockets[s]] = {}

\* share_message counts the slots it closes itself, so however many it loses
\* it stops before the end of the table (server.c:265-288).
ShareStaysInTable ==
  In("share") /\ Top.count < socket_total => Top.ctr \in Slot

\* Every user about to be cleaned up is allocated, has lost its slot, and is
\* cleaned up by one call only: however share_message and handle_disconnect
\* nest, no user is freed twice.
CleanupsPending ==
  /\ \A i \in DOMAIN stack : stack[i].op = "cleanup" =>
       ~IsOpen(stack[i].n) /\ users[stack[i].n] \in userinfos
  /\ \A i, j \in DOMAIN stack :
       stack[i].op = "cleanup" /\ stack[j].op = "cleanup" /\ i # j =>
         stack[i].n # stack[j].n

\* The slots, buffers and users implement sessions that begin and end once
\* and never exceed the room there is.
StageOf(c) ==
  IF c \in Connected
  THEN IF \E s \in Slot : sockets[s] = c /\ users[s] = c THEN "joined" ELSE "connected"
  ELSE IF peer[c] = "gone" THEN "left" ELSE "away"

Sessions == INSTANCE ChatSessions
  WITH stage <- [c \in Client |-> StageOf(c)],
       running <- pc \notin Ended

ImplementsSessions == Sessions!Spec

\* A connection whose client has gone is noticed and its slot given up, unless
\* the server itself ends: no scan order or early end of a scan starves it.
EndNoticed ==
  \A c \in Client :
    (c \in Connected /\ peer[c] \in {"fin", "rst", "dead"})
       ~> (c \notin Connected \/ pc \in Ended)

\* A waiting connection is accepted unless from some time on the table stays
\* full: when a slot is given up while it waits, its turn comes.
BacklogServed ==
  \A c \in Client :
    (\E i \in DOMAIN backlog : backlog[i] = c)
       ~> (c \in Connected \/ peer[c] = "gone" \/ pc \in Ended \/ [](socket_total > MaxClients))

=============================================================================
