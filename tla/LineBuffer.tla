----------------------------- MODULE LineBuffer -----------------------------
(***************************************************************************)
(* The buffer in which both ends of the chat collect what they read until  *)
(* a line is complete (projects/proj1-acf/client_server_utils.c, used by   *)
(* handle_client in server.c and by receive_messages in client.c).         *)
(*                                                                         *)
(* A buffer is a C array: a function on its indices.  Where the text in it *)
(* ends is a matter of where a null byte is, and the bytes behind it keep  *)
(* whatever they held before.                                              *)
(***************************************************************************)
EXTENDS Integers, Sequences, FiniteSetsExt

CONSTANTS
  Letter,    \* the bytes that are neither a newline nor null
  Newline,
  Null,      \* the null byte
  Capacity   \* MAX_MESSAGE_LENGTH: the last index of a buffer

ASSUME LetterAssumption == Newline \notin Letter /\ Null \notin Letter
ASSUME BytesAssumption == Newline # Null
ASSUME CapacityAssumption == Capacity \in Nat \ {0}

Byte == Letter \cup {Newline, Null}

Buffer == [0..Capacity -> Byte]

\* A line as the clients write it: one newline, at its end.
IsLine(bytes) ==
  bytes # <<>> /\ \A i \in DOMAIN bytes : IF i = Len(bytes) THEN bytes[i] = Newline ELSE bytes[i] \in Letter

\* The buffer holds a string of z bytes.
Holds(buffer, z) ==
  z \in 0..Capacity /\ buffer[z] = Null /\ \A i \in 0..(z - 1) : buffer[i] # Null

\* The index of the null byte that ends the string starting at "from".
StringEnd(buffer, from) == Min({i \in from..Capacity : buffer[i] = Null})

\* The bytes of the string at the start of the buffer.
Text(buffer) == [i \in 1..StringEnd(buffer, 0) |-> buffer[i - 1]]

\* What read (fd, buffer + offset, ...) and the null byte put behind it leave.
Stored(buffer, offset, bytes) ==
  [i \in 0..Capacity |->
     IF i \in offset..(offset + Len(bytes) - 1) THEN bytes[i - offset + 1]
     ELSE IF i = offset + Len(bytes) THEN Null
     ELSE buffer[i]]

NewlinesFrom(buffer, start) ==
  {i \in start..(StringEnd(buffer, start) - 1) : buffer[i] = Newline}

\* The index of the first newline at or after start, -1 if there is none.
FindMessageEnd(buffer, start) ==
  IF NewlinesFrom(buffer, start) = {} THEN -1 ELSE Min(NewlinesFrom(buffer, start))

\* generate_message: the message, which strncpy ends at the first null byte...
FirstMessage(buffer, end) == [i \in 1..Min({end, StringEnd(buffer, 0)}) |-> buffer[i - 1]]

\* Mutant of Remaining: what is behind the first message is dropped.
RemainingNothing(buffer, end) == [buffer EXCEPT ![0] = Null]

\* ... and the buffer once the string behind it was copied to its start.
Remaining(buffer, end) ==
  [i \in 0..Capacity |-> IF i <= StringEnd(buffer, end) - end THEN buffer[end + i] ELSE buffer[i]]

=============================================================================
