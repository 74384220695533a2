--------------------------- MODULE ClientInvariant ---------------------------
(***************************************************************************)
(* The inductive invariant of ChatClient: where the bytes are that the     *)
(* user typed and the server sent, however the reads cut them up.          *)
(***************************************************************************)
EXTENDS ChatClient

\* What is on its way contains no null byte, and only whole lines are typed.
BytesInv ==
  /\ \A i \in DOMAIN wire : wire[i] # Null
  /\ \A i \in DOMAIN stdin : stdin[i] # Null

-----------------------------------------------------------------------------
(* process_input *)

\* The string at the start of input_message is the first line of this call;
\* before the first newline the bytes are those of no string yet.
StringInv ==
  /\ input_offset <= Capacity + 1
  /\ pc \in {"input", "send"} =>
       \/ pc = "input" /\ \A i \in 0..(input_offset - 1) : input_message[i] # Null
       \/ \E z \in 0..(input_offset - 1) : Holds(input_message, z)

\* The last line typed on a terminal is being read: so many of its bytes are in
\* input_message, and the others in stdin.
Reading(line, read) ==
  /\ Len(typed) = Len(sent) + 1
  /\ line = typed[Len(typed)]
  /\ stdin = SubSeq(line, read + 1, Len(line))
  /\ \A i \in 1..read : input_message[i - 1] = line[i]

AllSent == stdin = <<>> /\ Len(sent) = Len(typed)

TerminalInv ==
  /\ Len(sent) <= Len(typed)
  /\ \A i \in DOMAIN sent : sent[i] = typed[i]
  /\ pc \in {"receive", "messages"} => AllSent
  /\ pc = "select" => AllSent \/ Reading(typed[Len(typed)], 0)
  /\ pc = "input" =>
       \/ AllSent
       \/ Reading(typed[Len(typed)], input_offset) /\ input_offset < Len(typed[Len(typed)])
  /\ pc = "send" =>
       LET line == typed[Len(typed)] IN Reading(line, Len(line)) /\ Holds(input_message, Len(line))

-----------------------------------------------------------------------------
(* receive_messages *)

\* The bytes the buffer holds, and those the client has still to show.
Held == StringEnd(Memory, 0)
Left == Held + Len(wire)
Unshown(i) == IF i <= Held THEN Memory[i - 1] ELSE wire[i - Held]

\* server_offset is the end of the string but while messages are taken out, and
\* the bytes before it were found to hold no newline.
HeldInv ==
  /\ Holds(Memory, Held)
  /\ server_offset <= Held
  /\ pc \in {"select", "input", "send", "receive"} => server_offset = Held
  /\ \A i \in 0..(server_offset - 1) : Memory[i] # Newline

\* The messages the client has still to show begin at these places in the bytes
\* it has still to show.
Cuts(cut) ==
  /\ cut[Len(shown) + 1] = 0
  /\ \A j \in (Len(shown) + 1)..Len(posted) :
       /\ cut[j + 1] = cut[j] + Len(posted[j])
       /\ \A i \in 1..Len(posted[j]) : cut[j] + i <= Left => Unshown(cut[j] + i) = posted[j][i]
  /\ \A j, k \in (Len(shown) + 1)..(Len(posted) + 1) : j <= k => cut[j] <= cut[k]
  /\ Left <= cut[Len(posted) + 1]
  /\ link = "up" => Left = cut[Len(posted) + 1]

CutInv ==
  /\ Len(shown) <= Len(posted)
  /\ \E cut \in [(Len(shown) + 1)..(Len(posted) + 1) -> Nat] : Cuts(cut)

ClientInv ==
  /\ TypeOK
  /\ BytesInv /\ StringInv /\ (~piped => TerminalInv)
  /\ HeldInv /\ CutInv /\ ShownAsPosted

==============================================================================
