----------------------------- MODULE ChatClient -----------------------------
(***************************************************************************)
(* The chat client (projects/proj1-acf/client.c, client_utils.c and        *)
(* student_client.c) once its connection is made: a loop around select     *)
(* that moves lines from standard input to the server and messages from    *)
(* the server to the screen.                                               *)
(*                                                                         *)
(* The first byte of a server's message is its type.  Capacity stands for  *)
(* MAX_INPUT_LENGTH as well as for MAX_MESSAGE_LENGTH.  input_message has  *)
(* that last index; server_message ends one byte before it, and the client *)
(* still puts a null there when a read fills the array.  "behind" is that  *)
(* byte of memory, with some value at first.  The build leaves it between  *)
(* the array of 1025 bytes and the next aligned variable, so the program   *)
(* reads back what it wrote there.                                         *)
(* send_message is one step: the kernel takes a line whole.  The branch of *)
(* maintain_connection on error_fds is left out: select reports there only *)
(* urgent data, which the server never sends.  Outputs other than the      *)
(* messages (prefixes, farewells) are left out.                            *)
(***************************************************************************)
EXTENDS LineBuffer, SequencesExt

CONSTANTS
  Exit_Message,  \* the type of the server's answer to an exit command
  Input,         \* the lines the user may type
  Output,        \* the messages the server may send
  Beyond,        \* what memory holds behind server_message before the first read
  MaxTyped,      \* bound: lines typed
  MaxPosted      \* bound: messages sent by the server

ASSUME TypeAssumption == Exit_Message \in Letter
ASSUME InputAssumption ==
  Input \subseteq Seq(Byte) /\ \A line \in Input : IsLine(line) /\ Len(line) <= Capacity
ASSUME OutputAssumption ==
  Output \subseteq Seq(Byte) /\ \A m \in Output : IsLine(m) /\ 1 < Len(m) /\ Len(m) <= Capacity
ASSUME BeyondAssumption == Beyond \in Byte
ASSUME ClientBoundsAssumption == MaxTyped \in Nat /\ MaxPosted \in Nat

VARIABLES
  pc,              \* where maintain_connection is, or how the process ended
  ready,           \* the descriptors select reported
  piped,           \* is standard input a pipe? (it never changes)
  stdin,           \* the bytes typed and not read
  input_message,
  input_offset,    \* the local variable of process_input
  server_message,
  behind,          \* the byte of memory behind server_message
  server_offset,
  link,            \* the state of the connection
  wire,            \* the server's bytes that were not read yet
  typed,           \* history: the lines typed
  sent,            \* history: what send_message has written, call by call
  posted,          \* history: the messages the server wrote
  shown            \* history: what handle_server_message has printed

input == <<piped, stdin, input_message, input_offset, typed, sent>>
output == <<server_message, behind, server_offset, wire, posted, shown>>
vars == <<pc, ready, link, input, output>>

Ended == {"exited",        \* handle_exit
          "disconnected",  \* handle_server_disconnect
          "sigpipe",       \* killed by a write to a dead connection
          "overrun"}       \* wrote behind input_message

TypeOK ==
  /\ pc \in {"select", "input", "send", "receive", "messages"} \cup Ended
  /\ ready \subseteq {"stdin", "socket"}
  /\ piped \in BOOLEAN
  /\ stdin \in Seq(Byte)
  /\ input_message \in Buffer
  /\ input_offset \in Nat
  /\ server_message \in [0..(Capacity - 1) -> Byte]
  /\ behind \in Byte
  /\ server_offset \in 0..Capacity
  /\ link \in {"up", "fin", "rst", "dead"}
  /\ wire \in Seq(Byte)
  /\ typed \in Seq(Input)
  /\ sent \in Seq(Seq(Byte))
  /\ posted \in Seq(Output)
  /\ shown \in Seq(Seq(Byte))

Init ==
  /\ pc = "select"
  /\ ready = {}
  /\ piped \in BOOLEAN
  /\ stdin = <<>>
  /\ input_message = [i \in 0..Capacity |-> Null]
  /\ input_offset = 0
  /\ server_message = [i \in 0..(Capacity - 1) |-> Null]
  /\ behind = Beyond
  /\ server_offset = 0
  /\ link = "up"
  /\ wire = <<>>
  /\ typed = <<>>
  /\ sent = <<>>
  /\ posted = <<>>
  /\ shown = <<>>

-----------------------------------------------------------------------------
(* The user and the server.  What the client cannot tell from the same act  *)
(* before its last select, because a read or getc may miss what is already *)
(* on its way, is only done there.                                         *)

\* A terminal hands over a line when its newline is typed, and a user types
\* slowly; a pipe holds whatever was written to it.
Type(line) ==
  /\ pc = "select"
  /\ piped \/ stdin = <<>>
  /\ Len(typed) < MaxTyped
  /\ stdin' = stdin \o line
  /\ typed' = Append(typed, line)
  /\ UNCHANGED <<pc, ready, link, piped, input_message, input_offset, sent, output>>

Post(message) ==
  /\ pc = "select"
  /\ link = "up"
  /\ Len(posted) < MaxPosted
  /\ wire' = wire \o message
  /\ posted' = Append(posted, message)
  /\ UNCHANGED <<pc, ready, link, input, server_message, behind, server_offset, shown>>

\* The server closes the connection, or a reset discards what it had sent.
ServerEnds(how) ==
  /\ pc = "select" \/ (how = "rst" /\ pc \in {"send", "receive"})
  /\ link = "up"
  /\ link' = how
  /\ wire' = IF how = "rst" THEN <<>> ELSE wire
  /\ UNCHANGED <<pc, ready, input, server_message, behind, server_offset, posted, shown>>

\* The answer to a write on a connection the server has closed.
ResetArrives ==
  /\ pc \in {"select", "send", "receive"}
  /\ link = "fin"
  /\ sent # <<>>
  /\ link' = "dead"
  /\ wire' = <<>>
  /\ UNCHANGED <<pc, ready, input, server_message, behind, server_offset, posted, shown>>

-----------------------------------------------------------------------------
(* maintain_connection *)

Readable ==
  {d \in {"stdin", "socket"} : IF d = "stdin" THEN stdin # <<>> ELSE wire # <<>> \/ link # "up"}

\* The local input_offset of process_input starts at zero.
Select ==
  /\ pc = "select"
  /\ Readable # {}
  /\ ready' = Readable
  /\ pc' = IF "stdin" \in ready' THEN "input" ELSE "receive"
  /\ input_offset' = 0
  /\ UNCHANGED <<link, piped, stdin, input_message, typed, sent, output>>

EndAs(how) ==
  /\ pc' = how
  /\ UNCHANGED <<ready, link, input, output>>

-----------------------------------------------------------------------------
(* process_input *)

\* A byte that does not end a line.
GetLetter ==
  /\ pc = "input"
  /\ stdin # <<>>
  /\ Head(stdin) # Newline
  /\ input_offset <= Capacity
  /\ input_message' = [input_message EXCEPT ![input_offset] = Head(stdin)]
  /\ input_offset' = input_offset + 1
  /\ stdin' = Tail(stdin)
  /\ UNCHANGED <<pc, ready, link, piped, typed, sent, output>>

\* Mutant of LineStored: the line is not terminated.
LineStoredOpen == [input_message EXCEPT ![input_offset] = Newline]

\* The newline and a null byte behind it.
LineStored == [input_message EXCEPT ![input_offset] = Newline, ![input_offset + 1] = Null]

\* The end of a line is followed by send_message; the offset goes on counting.
GetNewline ==
  /\ pc = "input"
  /\ stdin # <<>>
  /\ Head(stdin) = Newline
  /\ input_offset + 1 <= Capacity
  /\ input_message' = LineStored
  /\ input_offset' = input_offset + 2
  /\ stdin' = Tail(stdin)
  /\ pc' = "send"
  /\ UNCHANGED <<ready, link, piped, typed, sent, output>>

InputOverrun ==
  /\ pc = "input"
  /\ stdin # <<>>
  /\ input_offset + (IF Head(stdin) = Newline THEN 1 ELSE 0) > Capacity
  /\ EndAs("overrun")

\* getc finds nothing (the rest of the input may not have reached the pipe).
InputDone ==
  /\ pc = "input"
  /\ stdin = <<>> \/ piped
  /\ pc' = "receive"
  /\ UNCHANGED <<ready, link, input, output>>

\* send_message writes the string at the start of input_message; on a
\* connection closed by the server the kernel takes it all the same.
SendMessage ==
  /\ pc = "send"
  /\ link \in {"up", "fin"}
  /\ sent' = Append(sent, Text(input_message))
  /\ pc' = "input"
  /\ UNCHANGED <<ready, link, piped, stdin, input_message, input_offset, typed, output>>

SendReset ==
  /\ pc = "send"
  /\ link = "rst"
  /\ EndAs("disconnected")

SendPipe ==
  /\ pc = "send"
  /\ link = "dead"
  /\ EndAs("sigpipe")

-----------------------------------------------------------------------------
(* receive_messages *)

NothingToReceive ==
  /\ pc = "receive"
  /\ "socket" \notin ready
  /\ pc' = "select"
  /\ UNCHANGED <<ready, link, input, output>>

\* The array and the byte behind it, as the string functions meet them.
Memory == [i \in 0..Capacity |-> IF i < Capacity THEN server_message[i] ELSE behind]

Hold(bytes) ==
  /\ server_message' = [i \in 0..(Capacity - 1) |-> bytes[i]]
  /\ behind' = bytes[Capacity]

\* Mutant of Room: the array is taken to have room for one byte more.
RoomOneMore == Capacity - server_offset + 1

\* The size given to read.
Room == Capacity - server_offset

ReceiveBytes ==
  /\ pc = "receive"
  /\ "socket" \in ready
  /\ \E length \in 1..Min({Room, Len(wire)}) :
       /\ Hold(Stored(Memory, server_offset, SubSeq(wire, 1, length)))
       /\ wire' = SubSeq(wire, length + 1, Len(wire))
  /\ pc' = "messages"
  /\ UNCHANGED <<ready, link, input, server_offset, posted, shown>>

\* The end of the stream, an error, or a read of no bytes into a full buffer.
ReceiveEnd ==
  /\ pc = "receive"
  /\ "socket" \in ready
  /\ wire = <<>> \/ Room = 0
  /\ EndAs("disconnected")

LineEnd == FindMessageEnd(Memory, server_offset)
Message == FirstMessage(Memory, LineEnd + 1)

HandleServerMessage ==
  /\ pc = "messages"
  /\ LineEnd # -1
  /\ Message[1] # Exit_Message
  /\ shown' = Append(shown, Tail(Message))
  /\ Hold(Remaining(Memory, LineEnd + 1))
  /\ server_offset' = 0
  /\ UNCHANGED <<pc, ready, link, input, wire, posted>>

HandleExit ==
  /\ pc = "messages"
  /\ LineEnd # -1
  /\ Message[1] = Exit_Message
  /\ EndAs("exited")

\* Mutant of OffsetAfter: the offset stays at zero.
OffsetAfterZero == 0

\* Mutant of OffsetAfter: the last location is taken for the length.
OffsetAfterLocation == LineEnd

\* server_offset = strlen (server_message)
OffsetAfter == StringEnd(Memory, 0)

MessagesDone ==
  /\ pc = "messages"
  /\ LineEnd = -1
  /\ server_offset' = OffsetAfter
  /\ pc' = "select"
  /\ UNCHANGED <<ready, link, input, server_message, behind, wire, posted, shown>>

-----------------------------------------------------------------------------

ProcessInput ==
  GetLetter \/ GetNewline \/ InputOverrun \/ InputDone \/ SendMessage \/ SendReset \/ SendPipe

ReceiveMessages ==
  \/ NothingToReceive \/ ReceiveBytes \/ ReceiveEnd
  \/ HandleServerMessage \/ HandleExit \/ MessagesDone

Process == Select \/ ProcessInput \/ ReceiveMessages

Outside ==
  \/ \E line \in Input : Type(line)
  \/ \E message \in Output : Post(message)
  \/ \E how \in {"fin", "rst"} : ServerEnds(how)
  \/ ResetArrives

Next == Process \/ Outside

Spec == Init /\ [][Next]_vars

\* The process is scheduled; neither the user nor the server has to act.
FairSpec == Spec /\ WF_vars(Process)

-----------------------------------------------------------------------------
(* Properties *)

\* On a terminal, what the server is sent is what the user typed, line by line
\* and in order, each line once.
SentAsTyped == ~piped => IsPrefix(sent, typed)

\* The screen shows the server's messages without their types, in order,
\* however the reads cut them up, and stops before a message to exit.
ShownAsPosted ==
  /\ Len(shown) <= Len(posted)
  /\ \A i \in DOMAIN shown : shown[i] = Tail(posted[i]) /\ posted[i][1] # Exit_Message

\* Behind server_message nothing is ever written but the null that follows a
\* read, and that only when the read has filled the array: no byte the server
\* sent goes there, and moving what remains to the front leaves it alone.
WritesContained ==
  [][behind' # behind =>
       behind' = Null /\ Len(wire) - Len(wire') = Capacity - server_offset]_vars

\* A message that reached the client is shown, unless the connection or the
\* process ends first.
MessagesShown ==
  \A k \in 1..MaxPosted : Len(posted) >= k ~> (Len(shown) >= k \/ pc \in Ended \/ link # "up")

=============================================================================
