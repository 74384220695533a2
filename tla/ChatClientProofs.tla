-------------------------- MODULE ChatClientProofs --------------------------
(***************************************************************************)
(* ClientInv is inductive: what the client sends and shows is what was     *)
(* typed and posted, for every way the reads cut the bytes up.             *)
(***************************************************************************)
EXTENDS ClientInvariant, SharedLemmas

LEMMA InputIs ==
  ASSUME NEW line \in Input
  PROVE  line \in Seq(Byte) /\ IsLine(line) /\ Len(line) <= Capacity
BY InputAssumption

LEMMA OutputIs ==
  ASSUME NEW m \in Output
  PROVE  m \in Seq(Byte) /\ IsLine(m) /\ 1 < Len(m) /\ Len(m) <= Capacity
BY OutputAssumption

\* The end of the string in server_message.
LEMMA HeldIs ==
  ASSUME NEW buffer, NEW z, Holds(buffer, z)
  PROVE  StringEnd(buffer, 0) = z /\ z \in Nat /\ z <= Capacity
BY StringEndIs, CapacityAssumption DEF Holds

\* The array and the byte behind it are one buffer.
LEMMA MemoryIs ==
  ASSUME TypeOK
  PROVE  Memory \in Buffer
BY CapacityAssumption DEF TypeOK, Memory, Buffer

\* What the client holds afterwards is what it put there.
LEMMA HoldIs ==
  ASSUME NEW buffer \in Buffer, Hold(buffer)
  PROVE  /\ Memory' = buffer
         /\ server_message' \in [0..(Capacity - 1) -> Byte]
         /\ behind' \in Byte
<1>1. Capacity \in Nat \ {0} /\ buffer \in [0..Capacity -> Byte]
  BY CapacityAssumption DEF Buffer
<1>2. server_message' = [i \in 0..(Capacity - 1) |-> buffer[i]] /\ behind' = buffer[Capacity]
  BY DEF Hold
<1>3. \A i \in 0..(Capacity - 1) : buffer[i] \in Byte
  BY <1>1
<1>4. ASSUME NEW i \in 0..Capacity
      PROVE  buffer[i] = (IF i < Capacity THEN server_message'[i] ELSE behind')
  <2>1. CASE i < Capacity
    BY <1>1, <1>2, <2>1
  <2>2. CASE ~(i < Capacity)
    BY <1>1, <1>2, <2>2
  <2>3. QED
    BY <2>1, <2>2
<1>5. Memory' = [i \in 0..Capacity |-> buffer[i]]
  BY <1>4 DEF Memory
<1>6. QED
  BY <1>1, <1>2, <1>3, <1>5

LEMMA MemoryKept ==
  ASSUME UNCHANGED <<server_message, behind>>
  PROVE  Memory' = Memory
BY DEF Memory

-----------------------------------------------------------------------------
(* What the steps of receive_messages do to the bytes that are not shown.  *)

\* A read moves bytes from the connection into the buffer.
LEMMA ReceiveFacts ==
  ASSUME ClientInv, ReceiveBytes
  PROVE  /\ Memory' \in Buffer /\ wire' \in Seq(Byte)
         /\ server_message' \in [0..(Capacity - 1) -> Byte] /\ behind' \in Byte
         /\ \A i \in DOMAIN wire' : wire'[i] # Null
         /\ Holds(Memory', Held') /\ Held <= Held' /\ server_offset = Held
         /\ \A i \in 0..(Held - 1) : Memory'[i] = Memory[i]
         /\ Left' = Left
         /\ \A i \in 1..Left : Unshown(i)' = Unshown(i)
<1>1. /\ Memory \in Buffer /\ wire \in Seq(Byte) /\ Holds(Memory, Held)
      /\ server_offset = Held /\ \A i \in DOMAIN wire : wire[i] # Null
  BY MemoryIs DEF ClientInv, TypeOK, HeldInv, BytesInv, ReceiveBytes
<1>2. Held \in Nat /\ Held <= Capacity /\ Capacity \in Nat /\ Len(wire) \in Nat
  BY <1>1, HeldIs, CapacityAssumption
<1>3. PICK n \in 1..Min({Room, Len(wire)}) :
        /\ Hold(Stored(Memory, server_offset, SubSeq(wire, 1, n)))
        /\ wire' = SubSeq(wire, n + 1, Len(wire))
  BY DEF ReceiveBytes
<1>4. Room = Capacity - Held
  BY <1>1 DEF Room
<1>5. Min({Room, Len(wire)}) = IF Room <= Len(wire) THEN Room ELSE Len(wire)
  BY <1>2, <1>4, MinOfTwo
<1>6. n \in Nat /\ 1 <= n /\ n <= Capacity - Held /\ n <= Len(wire)
  BY <1>2, <1>3, <1>4, <1>5
<1>7. PICK bytes : bytes = SubSeq(wire, 1, n)
  OBVIOUS
<1>8. bytes \in Seq(Byte) /\ Len(bytes) = n /\ \A i \in 1..n : bytes[i] = wire[i]
  BY <1>1, <1>6, <1>7
<1>9. \A i \in DOMAIN bytes : bytes[i] # Null
  BY <1>1, <1>6, <1>8
<1>10. PICK result : result = Stored(Memory, Held, bytes)
  OBVIOUS
<1>11. /\ result \in Buffer
       /\ Holds(result, Held + n)
       /\ \A i \in 0..(Held - 1) : result[i] = Memory[i]
       /\ \A i \in 1..n : result[Held + i - 1] = bytes[i]
  <2>1. PICK buffer, z : buffer = Memory /\ z = Held
    OBVIOUS
  <2>2. z + Len(bytes) <= Capacity /\ \A i \in DOMAIN bytes : bytes[i] # Null
    BY <1>2, <1>6, <1>8, <1>9, <2>1
  <2>3. buffer \in Buffer /\ Holds(buffer, z)
    BY <1>1, <2>1
  <2>4. PICK stored : stored = Stored(buffer, z, bytes)
    OBVIOUS
  <2>5. /\ stored \in Buffer
        /\ Holds(stored, z + Len(bytes))
        /\ \A i \in 0..(z - 1) : stored[i] = buffer[i]
        /\ \A i \in 1..Len(bytes) : stored[z + i - 1] = bytes[i]
    <3>1. bytes \in Seq(Byte)
      BY <1>8
    <3>2. QED
      BY <2>2, <2>3, <2>4, <3>1, StoredIs
  <2>6. QED
    BY <1>8, <1>10, <2>1, <2>4, <2>5
<1>12. Memory' = result /\ server_message' \in [0..(Capacity - 1) -> Byte] /\ behind' \in Byte
  <2>1. Hold(result)
    BY <1>1, <1>3, <1>7, <1>10
  <2>2. QED
    BY <1>11, <2>1, HoldIs
<1>13. Held' = Held + n
  BY <1>11, <1>12, HeldIs DEF Held
<1>14. /\ wire' \in Seq(Byte) /\ Len(wire') = Len(wire) - n
       /\ \A i \in 1..(Len(wire) - n) : wire'[i] = wire[i + n]
  BY <1>1, <1>2, <1>3, <1>6
<1>15. ASSUME NEW i \in DOMAIN wire'
       PROVE  wire'[i] # Null
  <2>1. i \in 1..(Len(wire) - n)
    BY <1>2, <1>6, <1>14
  <2>2. wire'[i] = wire[i + n] /\ i + n \in 1..Len(wire)
    BY <1>2, <1>6, <1>14, <2>1
  <2>3. i + n \in DOMAIN wire
    BY <1>1, <2>2
  <2>4. QED
    BY <1>1, <2>2, <2>3
<1>16. Left' = Left
  BY <1>2, <1>6, <1>13, <1>14 DEF Left
<1>17. ASSUME NEW i \in 1..Left
       PROVE  Unshown(i)' = Unshown(i)
  <2>1. i \in Nat /\ 1 <= i /\ i <= Held + Len(wire)
    BY <1>2 DEF Left
  <2>2. CASE i <= Held
    <3>1. i - 1 \in 0..(Held - 1) /\ i <= Held + n
      BY <1>2, <1>6, <2>1, <2>2
    <3>2. result[i - 1] = Memory[i - 1]
      BY <1>11, <3>1
    <3>3. QED
      BY <1>12, <1>13, <2>2, <3>1, <3>2 DEF Unshown
  <2>3. CASE i > Held /\ i <= Held + n
    <3>1. i - Held \in 1..n /\ Held + (i - Held) - 1 = i - 1
      BY <1>2, <1>6, <2>1, <2>3
    <3>2. result[i - 1] = wire[i - Held]
      BY <1>8, <1>11, <3>1
    <3>3. QED
      BY <1>2, <1>6, <1>12, <1>13, <2>1, <2>3, <3>2 DEF Unshown
  <2>4. CASE i > Held + n
    <3>1. i - (Held + n) \in 1..(Len(wire) - n) /\ (i - (Held + n)) + n = i - Held
      BY <1>2, <1>6, <2>1, <2>4
    <3>2. wire'[i - (Held + n)] = wire[i - Held]
      BY <1>14, <3>1
    <3>3. QED
      BY <1>2, <1>6, <1>13, <2>1, <2>4, <3>2 DEF Unshown
  <2>5. QED
    BY <1>2, <1>6, <2>1, <2>2, <2>3, <2>4
<1>18. QED
  BY <1>1, <1>2, <1>6, <1>11, <1>12, <1>13, <1>14, <1>15, <1>16, <1>17

\* The first newline behind server_offset ends the first message not shown.
LEMMA FirstFound ==
  ASSUME ClientInv, pc = "messages", LineEnd # -1
  PROVE  /\ Len(shown) < Len(posted)
         /\ LineEnd + 1 = Len(posted[Len(shown) + 1])
         /\ LineEnd + 1 <= Held
         /\ Message = posted[Len(shown) + 1]
<1>1. /\ Memory \in Buffer /\ Holds(Memory, Held) /\ wire \in Seq(Byte)
      /\ server_offset \in 0..Held /\ \A i \in 0..(server_offset - 1) : Memory[i] # Newline
      /\ Len(shown) \in Nat /\ Len(posted) \in Nat /\ Len(shown) <= Len(posted)
      /\ posted \in Seq(Output)
  <2>1. TypeOK /\ HeldInv /\ CutInv
    BY DEF ClientInv
  <2>2. Held \in Nat
    BY <2>1, HeldIs DEF HeldInv
  <2>3. QED
    BY <2>1, <2>2, MemoryIs DEF TypeOK, HeldInv, CutInv
<1>2. Held \in Nat /\ Held <= Capacity /\ Len(wire) \in Nat /\ Left \in Nat /\ Held <= Left
  BY <1>1, HeldIs DEF Left
<1>3. PICK cut \in [(Len(shown) + 1)..(Len(posted) + 1) -> Nat] : Cuts(cut)
  BY DEF ClientInv, CutInv
<1>4. ~(\A i \in server_offset..(Held - 1) : Memory[i] # Newline)
  BY <1>1, NoMessageEnd DEF LineEnd
<1>5. PICK e0 \in server_offset..(Held - 1) : Memory[e0] = Newline
  BY <1>4
<1>6. Len(shown) < Len(posted)
  <2>1. SUFFICES ASSUME Len(shown) = Len(posted)
                 PROVE  FALSE
    BY <1>1
  <2>2. Left <= 0
    BY <1>3, <2>1 DEF Cuts
  <2>3. QED
    BY <1>1, <1>2, <1>5, <2>2
<1> DEFINE m == posted[Len(shown) + 1]
<1>7. m \in Output /\ Len(shown) + 1 \in (Len(shown) + 1)..Len(posted)
  BY <1>1, <1>6
<1>8. /\ m \in Seq(Byte) /\ Len(m) \in Nat \ {0} /\ m[Len(m)] = Newline
      /\ \A i \in 1..Len(m) : m[i] # Null /\ (m[i] = Newline <=> i = Len(m))
  BY <1>7, OutputIs, LineIs
<1>9. \A i \in 1..Len(m) : i <= Left => Unshown(i) = m[i]
  <2>1. \A i \in 1..Len(m) : cut[Len(shown) + 1] + i <= Left => Unshown(cut[Len(shown) + 1] + i) = m[i]
    BY <1>3, <1>7 DEF Cuts
  <2>2. cut[Len(shown) + 1] = 0
    BY <1>3 DEF Cuts
  <2>3. \A i \in 1..Len(m) : 0 + i <= Left => Unshown(0 + i) = m[i]
    BY <2>1, <2>2
  <2>4. \A i \in 1..Len(m) : 0 + i = i
    BY <1>8
  <2>5. QED
    BY <2>3, <2>4
<1> HIDE DEF m
<1>10. \A i \in 1..Len(m) : i <= Held => Memory[i - 1] = m[i]
  BY <1>2, <1>8, <1>9 DEF Unshown
<1>11. Len(m) <= Held
  <2>1. SUFFICES ASSUME Held < Len(m)
                 PROVE  FALSE
    BY <1>2, <1>8
  <2>2. e0 + 1 \in 1..Len(m) /\ e0 + 1 <= Held /\ (e0 + 1) - 1 = e0 /\ e0 + 1 # Len(m)
    BY <1>1, <1>2, <1>5, <1>8, <2>1
  <2>3. Memory[e0] = m[e0 + 1]
    BY <1>10, <2>2
  <2>4. QED
    BY <1>5, <1>8, <2>2, <2>3
<1> DEFINE e == Len(m) - 1
<1>12. Memory[e] = Newline /\ e \in 0..(Held - 1)
  <2>1. Len(m) \in 1..Len(m) /\ e \in 0..(Held - 1)
    BY <1>2, <1>8, <1>11
  <2>2. Memory[Len(m) - 1] = m[Len(m)]
    BY <1>10, <1>11, <2>1
  <2>3. QED
    BY <1>8, <2>1, <2>2
<1>13. \A i \in 0..(e - 1) : Memory[i] # Newline
  <2> TAKE i \in 0..(e - 1)
  <2>1. i + 1 \in 1..Len(m) /\ i + 1 <= Held /\ (i + 1) - 1 = i /\ i + 1 # Len(m)
    BY <1>2, <1>8, <1>11
  <2>2. Memory[i] = m[i + 1]
    BY <1>10, <2>1
  <2>3. QED
    BY <1>8, <2>1, <2>2
<1>14. server_offset <= e
  BY <1>1, <1>2, <1>12
<1>15. LineEnd = e
  <2>1. PICK buffer, z, start, end : buffer = Memory /\ z = Held /\ start = server_offset /\ end = e
    OBVIOUS
  <2>2. /\ Holds(buffer, z) /\ start \in 0..z /\ end \in start..(z - 1) /\ buffer[end] = Newline
        /\ \A i \in start..(end - 1) : buffer[i] # Newline
    BY <1>1, <1>2, <1>12, <1>13, <1>14, <2>1
  <2>3. FindMessageEnd(buffer, start) = end
    BY <2>2, MessageEndIs
  <2>4. QED
    BY <2>1, <2>3 DEF LineEnd
<1>16. LineEnd + 1 = Len(m) /\ Len(m) \in 1..Held
  BY <1>2, <1>8, <1>11, <1>15
<1>17. /\ FirstMessage(Memory, Len(m)) \in Seq(Byte)
       /\ Len(FirstMessage(Memory, Len(m))) = Len(m)
       /\ \A i \in 1..Len(m) : FirstMessage(Memory, Len(m))[i] = Memory[i - 1]
  <2>1. PICK buffer, z, end : buffer = Memory /\ z = Held /\ end = Len(m)
    OBVIOUS
  <2>2. buffer \in Buffer /\ Holds(buffer, z) /\ end \in 1..z
    BY <1>1, <1>16, <2>1
  <2>3. QED
    BY <2>1, <2>2, FirstMessageIs
<1>18. Message = FirstMessage(Memory, Len(m))
  BY <1>16 DEF Message
<1>19. Message = m
  <2>1. \A i \in 1..Len(m) : Message[i] = m[i]
    BY <1>2, <1>8, <1>10, <1>11, <1>17, <1>18
  <2>2. Message \in Seq(Byte) /\ Len(Message) = Len(m)
    BY <1>17, <1>18
  <2>3. QED
    BY <1>8, <2>1, <2>2, SeqEqual
<1>20. QED
  BY <1>6, <1>11, <1>16, <1>19 DEF m

\* Showing a message takes its bytes away and no other.
LEMMA HandleFacts ==
  ASSUME ClientInv, HandleServerMessage
  PROVE  LET size == Len(posted[Len(shown) + 1]) IN
         /\ size \in Nat /\ size <= Held
         /\ Memory' \in Buffer /\ Holds(Memory', Held - size) /\ Held' = Held - size
         /\ server_message' \in [0..(Capacity - 1) -> Byte] /\ behind' \in Byte
         /\ Left' = Left - size
         /\ \A i \in 1..(Left - size) : Unshown(i)' = Unshown(size + i)
<1> DEFINE size == Len(posted[Len(shown) + 1])
<1>1. pc = "messages" /\ LineEnd # -1 /\ wire' = wire
  BY DEF HandleServerMessage
<1>2. /\ Memory \in Buffer /\ Holds(Memory, Held) /\ wire \in Seq(Byte)
      /\ Hold(Remaining(Memory, size))
  <2>1. Hold(Remaining(Memory, LineEnd + 1))
    BY DEF HandleServerMessage
  <2>2. LineEnd + 1 = size
    BY <1>1, FirstFound
  <2>3. QED
    BY <2>1, <2>2, MemoryIs DEF ClientInv, TypeOK, HeldInv
<1>3. size \in Nat /\ size <= Held /\ Held \in Nat /\ Len(wire) \in Nat
  <2>1. Len(shown) < Len(posted) /\ size <= Held
    BY <1>1, FirstFound
  <2>2. posted \in Seq(Output) /\ shown \in Seq(Seq(Byte))
    BY DEF ClientInv, TypeOK
  <2>3. posted[Len(shown) + 1] \in Output
    BY <2>1, <2>2
  <2>4. size \in Nat
    BY <2>3, OutputIs
  <2>5. QED
    BY <1>2, <2>1, <2>4, HeldIs
<1> HIDE DEF size
<1>4. PICK result : result = Remaining(Memory, size)
  OBVIOUS
<1>5. /\ result \in Buffer /\ Holds(result, Held - size)
      /\ \A i \in 0..(Held - size - 1) : result[i] = Memory[size + i]
  <2>1. PICK buffer, z, end : buffer = Memory /\ z = Held /\ end = size
    OBVIOUS
  <2>2. buffer \in Buffer /\ Holds(buffer, z) /\ end \in 0..z
    BY <1>2, <1>3, <2>1
  <2>3. /\ Remaining(buffer, end) \in Buffer /\ Holds(Remaining(buffer, end), z - end)
        /\ \A i \in 0..(z - end - 1) : Remaining(buffer, end)[i] = buffer[end + i]
    BY <2>2, RemainingIs
  <2>4. QED
    BY <1>4, <2>1, <2>3
<1>6. Memory' = result /\ server_message' \in [0..(Capacity - 1) -> Byte] /\ behind' \in Byte
  <2>1. Hold(result)
    BY <1>2, <1>4
  <2>2. QED
    BY <1>5, <2>1, HoldIs
<1>7. Held' = Held - size
  BY <1>5, <1>6, HeldIs DEF Held
<1>8. Left' = Left - size
  BY <1>1, <1>3, <1>7 DEF Left
<1>9. ASSUME NEW i \in 1..(Left - size)
      PROVE  Unshown(i)' = Unshown(size + i)
  <2>1. i \in Nat /\ 1 <= i /\ i <= Held + Len(wire) - size
    BY <1>3 DEF Left
  <2>2. CASE i <= Held - size
    <3>1. i - 1 \in 0..(Held - size - 1) /\ size + (i - 1) = (size + i) - 1 /\ size + i <= Held
      BY <1>3, <2>1, <2>2
    <3>2. result[i - 1] = Memory[(size + i) - 1]
      BY <1>5, <3>1
    <3>3. QED
      BY <1>6, <1>7, <2>2, <3>1, <3>2 DEF Unshown
  <2>3. CASE i > Held - size
    <3>1. i - (Held - size) = (size + i) - Held /\ ~(size + i <= Held) /\ ~(i <= Held - size)
      BY <1>3, <2>1, <2>3
    <3>2. QED
      BY <1>1, <1>7, <3>1 DEF Unshown
  <2>4. QED
    BY <1>3, <2>1, <2>2, <2>3
<1>10. QED
  BY <1>3, <1>5, <1>6, <1>7, <1>8, <1>9 DEF size

-----------------------------------------------------------------------------
(* The places where the messages begin. *)

\* Bytes move from the connection to the buffer, or are lost with a connection
\* that is not up any more.
LEMMA CutKept ==
  ASSUME CutInv, shown' = shown, posted' = posted,
         Left \in Nat, Left' \in Nat, Left' <= Left,
         link' = "up" => link = "up" /\ Left' = Left,
         \A i \in 1..Left' : Unshown(i)' = Unshown(i),
         posted \in Seq(Output), shown \in Seq(Seq(Byte))
  PROVE  CutInv'
<1>1. PICK cut \in [(Len(shown) + 1)..(Len(posted) + 1) -> Nat] : Cuts(cut)
  BY DEF CutInv
<1>2. Len(shown) \in Nat /\ Len(posted) \in Nat /\ Len(shown) <= Len(posted)
  BY DEF CutInv
<1>3. cut[Len(posted) + 1] \in Nat
  BY <1>1, <1>2
<1>4. ASSUME NEW j \in (Len(shown) + 1)..Len(posted), NEW i \in 1..Len(posted[j]), cut[j] + i <= Left'
      PROVE  Unshown(cut[j] + i)' = posted[j][i]
  <2>1. cut[j] \in Nat /\ i \in Nat /\ 1 <= i
    <3>1. posted[j] \in Output
      BY <1>2
    <3>2. Len(posted[j]) \in Nat
      BY <3>1, OutputIs
    <3>3. cut[j] \in Nat
      <4>1. j \in (Len(shown) + 1)..(Len(posted) + 1)
        BY <1>2
      <4>2. QED
        BY <1>1, <4>1
    <3>4. i \in Nat /\ 1 <= i
      BY <3>2
    <3>5. QED
      BY <3>3, <3>4
  <2>2. cut[j] + i \in 1..Left' /\ cut[j] + i <= Left
    BY <1>4, <2>1
  <2>3. Unshown(cut[j] + i) = posted[j][i]
    BY <1>1, <2>2 DEF Cuts
  <2>4. PICK p \in 1..Left' : p = cut[j] + i
    BY <2>2
  <2>5. Unshown(p)' = Unshown(p)
    OBVIOUS
  <2>6. QED
    BY <2>3, <2>4, <2>5
<1>5. Cuts(cut)'
  <2>1. Left' <= cut[Len(posted) + 1] /\ (link' = "up" => Left' = cut[Len(posted) + 1])
    BY <1>1, <1>3 DEF Cuts
  <2>2. QED
    BY <1>1, <1>4, <2>1 DEF Cuts
<1>6. QED
  BY <1>1, <1>2, <1>5 DEF CutInv

\* The places of the others once the first message is shown.
LEMMA CutShown ==
  ASSUME ClientInv, HandleServerMessage
  PROVE  CutInv'
<1>1. /\ shown \in Seq(Seq(Byte)) /\ posted \in Seq(Output) /\ Len(shown) \in Nat /\ Len(posted) \in Nat
      /\ posted' = posted /\ link' = link /\ Len(shown') = Len(shown) + 1
  BY DEF ClientInv, TypeOK, HandleServerMessage
<1>2. Len(shown) < Len(posted)
  BY FirstFound DEF HandleServerMessage
<1>3. PICK cut \in [(Len(shown) + 1)..(Len(posted) + 1) -> Nat] : Cuts(cut)
  BY DEF ClientInv, CutInv
<1>4. PICK size, n : size = Len(posted[Len(shown) + 1]) /\ n = Len(shown)
  OBVIOUS
<1>5. /\ size \in Nat /\ Left' = Left - size /\ Left \in Nat
      /\ \A i \in 1..(Left - size) : Unshown(i)' = Unshown(size + i)
  <2>1. /\ size \in Nat /\ Left' = Left - size
        /\ \A i \in 1..(Left - size) : Unshown(i)' = Unshown(size + i)
    BY <1>4, HandleFacts
  <2>2. wire \in Seq(Byte) /\ Held \in Nat
    BY HeldIs DEF ClientInv, TypeOK, HeldInv
  <2>3. QED
    BY <2>1, <2>2 DEF Left
<1> /\ cut \in [(n + 1)..(Len(posted) + 1) -> Nat] /\ cut[n + 1] = 0
    /\ \A j \in (n + 1)..Len(posted) :
         /\ cut[j + 1] = cut[j] + Len(posted[j])
         /\ \A i \in 1..Len(posted[j]) : cut[j] + i <= Left => Unshown(cut[j] + i) = posted[j][i]
    /\ \A j, k \in (n + 1)..(Len(posted) + 1) : j <= k => cut[j] <= cut[k]
  BY <1>3, <1>4 DEF Cuts
<1>6. cut[n + 2] = size
  <2>1. n + 1 \in (n + 1)..Len(posted) /\ (n + 1) + 1 = n + 2
    BY <1>1, <1>2, <1>4
  <2>2. cut[(n + 1) + 1] = cut[n + 1] + Len(posted[n + 1])
    BY <2>1
  <2>3. QED
    BY <1>1, <1>4, <1>5, <2>1, <2>2
<1>7. \A j \in (n + 2)..(Len(posted) + 1) : cut[j] \in Nat /\ size <= cut[j]
  <2> TAKE j \in (n + 2)..(Len(posted) + 1)
  <2>1. n + 2 \in (n + 1)..(Len(posted) + 1) /\ j \in (n + 1)..(Len(posted) + 1) /\ n + 2 <= j
    BY <1>1, <1>2, <1>4
  <2>2. cut[n + 2] <= cut[j]
    BY <2>1
  <2>3. QED
    BY <1>6, <2>1, <2>2
<1>8. PICK rest : rest = [j \in (n + 2)..(Len(posted) + 1) |-> cut[j] - size]
  OBVIOUS
<1>9. rest \in [(n + 2)..(Len(posted) + 1) -> Nat]
  BY <1>5, <1>7, <1>8
<1>10. \A j \in (n + 2)..(Len(posted) + 1) : rest[j] = cut[j] - size
  BY <1>8
<1>11. rest[n + 2] = 0
  <2>1. n + 2 \in (n + 2)..(Len(posted) + 1)
    BY <1>1, <1>2, <1>4
  <2>2. QED
    BY <1>5, <1>6, <1>10, <2>1
<1>12. ASSUME NEW j \in (n + 2)..Len(posted)
       PROVE  /\ rest[j + 1] = rest[j] + Len(posted[j])
              /\ \A i \in 1..Len(posted[j]) : rest[j] + i <= Left' => Unshown(rest[j] + i)' = posted[j][i]
  <2>1. /\ j \in (n + 1)..Len(posted) /\ j \in (n + 2)..(Len(posted) + 1)
        /\ j + 1 \in (n + 2)..(Len(posted) + 1)
    BY <1>1, <1>4
  <2>2. /\ cut[j + 1] = cut[j] + Len(posted[j]) /\ cut[j] \in Nat /\ size <= cut[j]
        /\ \A i \in 1..Len(posted[j]) : cut[j] + i <= Left => Unshown(cut[j] + i) = posted[j][i]
    BY <1>7, <2>1
  <2>3. Len(posted[j]) \in Nat
    <3>1. posted[j] \in Output
      BY <1>1, <1>4
    <3>2. QED
      BY <3>1, OutputIs
  <2>4. rest[j + 1] = rest[j] + Len(posted[j])
    <3>1. rest[j] = cut[j] - size /\ rest[j + 1] = cut[j + 1] - size
      BY <1>10, <2>1
    <3>2. QED
      BY <1>5, <2>2, <2>3, <3>1
  <2>5. ASSUME NEW i \in 1..Len(posted[j]), rest[j] + i <= Left'
        PROVE  Unshown(rest[j] + i)' = posted[j][i]
    <3>1. rest[j] = cut[j] - size
      BY <1>10, <2>1
    <3>2. /\ rest[j] + i \in 1..(Left - size) /\ cut[j] + i <= Left
          /\ size + (rest[j] + i) = cut[j] + i
      <4>1. PICK c, l, r : c = cut[j] /\ l = Left /\ r = rest[j]
        OBVIOUS
      <4>2. c \in Nat /\ size \in Nat /\ size <= c /\ l \in Nat /\ i \in Nat /\ 1 <= i /\ r = c - size
        BY <1>5, <2>2, <2>3, <3>1, <4>1
      <4>3. r + i <= l - size
        BY <1>5, <2>5, <4>1
      <4>4. r + i \in 1..(l - size) /\ c + i <= l /\ size + (r + i) = c + i
        BY <4>2, <4>3
      <4>5. QED
        BY <4>1, <4>4
    <3>3. PICK p \in 1..(Left - size) : p = rest[j] + i
      BY <3>2
    <3>4. Unshown(p)' = Unshown(size + p)
      BY <1>5
    <3>5. size + p = cut[j] + i
      BY <3>2, <3>3
    <3>6. QED
      BY <2>2, <3>2, <3>3, <3>4, <3>5
  <2>6. QED
    BY <2>4, <2>5
<1>13. \A j, k \in (n + 2)..(Len(posted) + 1) : j <= k => rest[j] <= rest[k]
  <2> TAKE j, k \in (n + 2)..(Len(posted) + 1)
  <2> HAVE j <= k
  <2>1. cut[j] <= cut[k]
    BY <1>1, <1>4
  <2>2. QED
    BY <1>5, <1>7, <1>10, <2>1
<1>14. /\ Left' <= rest[Len(posted) + 1]
       /\ link = "up" => Left' = rest[Len(posted) + 1]
  <2>1. Left <= cut[Len(posted) + 1] /\ (link = "up" => Left = cut[Len(posted) + 1])
    BY <1>3 DEF Cuts
  <2>2. Len(posted) + 1 \in (n + 2)..(Len(posted) + 1)
    BY <1>1, <1>2, <1>4
  <2>3. PICK last, l : last = cut[Len(posted) + 1] /\ l = Left
    OBVIOUS
  <2>4. rest[Len(posted) + 1] = last - size
    BY <1>10, <2>2, <2>3
  <2>5. last \in Nat /\ size <= last
    BY <1>7, <2>2, <2>3
  <2>6. Left' = l - size /\ l \in Nat /\ size \in Nat
    BY <1>5, <2>3
  <2>7. l <= last /\ (link = "up" => l = last)
    BY <2>1, <2>3
  <2>8. QED
    BY <2>4, <2>5, <2>6, <2>7
<1>15. Len(shown') + 1 = n + 2
  BY <1>1, <1>4
<1>16. Cuts(rest)'
  BY <1>1, <1>11, <1>12, <1>13, <1>14, <1>15 DEF Cuts
<1>17. Len(shown') <= Len(posted')
  BY <1>1, <1>2
<1>18. rest \in [(Len(shown') + 1)..(Len(posted') + 1) -> Nat]
  BY <1>1, <1>9, <1>15
<1>19. QED
  BY <1>16, <1>17, <1>18 DEF CutInv

\* A new message begins where the last one ends.
LEMMA CutPosted ==
  ASSUME ClientInv, NEW message \in Output, Post(message)
  PROVE  CutInv'
<1>1. /\ shown \in Seq(Seq(Byte)) /\ posted \in Seq(Output) /\ wire \in Seq(Byte) /\ Held \in Nat
      /\ message \in Seq(Byte) /\ Len(message) \in Nat
  <2>1. message \in Seq(Byte)
    BY OutputIs
  <2>2. QED
    BY <2>1, HeldIs DEF ClientInv, TypeOK, HeldInv
<1>2. /\ Len(shown) \in Nat /\ Len(posted) \in Nat /\ Len(wire) \in Nat /\ Len(shown) <= Len(posted)
  BY <1>1 DEF ClientInv, CutInv
<1>3. PICK cut \in [(Len(shown) + 1)..(Len(posted) + 1) -> Nat] : Cuts(cut)
  BY DEF ClientInv, CutInv
<1> PICK left, o, n : left = Left /\ o = Len(shown) /\ n = Len(posted)
  OBVIOUS
<1>4. link = "up" /\ link' = link /\ shown' = shown /\ Memory' = Memory
      /\ posted' = Append(posted, message) /\ wire' = wire \o message
  BY MemoryKept DEF Post
<1>5. /\ Held' = Held /\ Left' = left + Len(message) /\ left \in Nat
      /\ \A i \in 1..Len(wire) : wire'[i] = wire[i]
      /\ \A i \in 1..Len(message) : wire'[Len(wire) + i] = message[i]
  <2>1. Held' = Held
    BY <1>4 DEF Held
  <2>2. /\ Len(wire') = Len(wire) + Len(message)
        /\ \A i \in 1..Len(wire) : wire'[i] = wire[i]
    BY <1>1, <1>4
  <2>3. ASSUME NEW i \in 1..Len(message)
        PROVE  wire'[Len(wire) + i] = message[i]
    BY <1>1, <1>4
  <2>4. QED
    BY <1>1, <2>1, <2>2, <2>3 DEF Left
<1>6. /\ \A i \in 1..left : Unshown(i)' = Unshown(i)
      /\ \A i \in 1..Len(message) : Unshown(left + i)' = message[i]
  <2>1. ASSUME NEW i \in 1..left
        PROVE  Unshown(i)' = Unshown(i)
    <3>1. CASE i <= Held
      BY <1>4, <1>5, <3>1 DEF Unshown
    <3>2. CASE ~(i <= Held)
      <4>1. i - Held \in 1..Len(wire)
        BY <1>1, <1>2, <3>2 DEF Left
      <4>2. wire'[i - Held] = wire[i - Held]
        BY <1>5, <4>1
      <4>3. QED
        BY <1>5, <3>2, <4>2 DEF Unshown
    <3>3. QED
      BY <3>1, <3>2
  <2>2. ASSUME NEW i \in 1..Len(message)
        PROVE  Unshown(left + i)' = message[i]
    <3>1. PICK p : p = left + i
      OBVIOUS
    <3>2. p - Held = Len(wire) + i /\ ~(p <= Held)
      BY <1>1, <1>2, <3>1 DEF Left
    <3>3. Unshown(p)' = wire'[Len(wire) + i]
      BY <1>5, <3>2 DEF Unshown
    <3>4. QED
      BY <1>5, <3>1, <3>3
  <2>3. QED
    BY <2>1, <2>2
<1>7. /\ cut \in [(o + 1)..(n + 1) -> Nat] /\ cut[o + 1] = 0 /\ cut[n + 1] = left
      /\ \A j \in (o + 1)..n :
           /\ cut[j + 1] = cut[j] + Len(posted[j])
           /\ \A i \in 1..Len(posted[j]) : cut[j] + i <= left => Unshown(cut[j] + i) = posted[j][i]
      /\ \A j, k \in (o + 1)..(n + 1) : j <= k => cut[j] <= cut[k]
  BY <1>3, <1>4 DEF Cuts
<1>8. /\ Len(posted') = n + 1 /\ posted'[n + 1] = message /\ \A j \in 1..n : posted'[j] = posted[j]
      /\ n \in Nat /\ o \in Nat /\ o <= n
  BY <1>1, <1>2, <1>4
<1>9. PICK more : more = [j \in (o + 1)..(n + 2) |-> IF j = n + 2 THEN left + Len(message) ELSE cut[j]]
  OBVIOUS
<1>10. /\ more[n + 2] = left + Len(message)
       /\ \A j \in (o + 1)..(n + 1) : more[j] = cut[j] /\ cut[j] \in Nat
  BY <1>7, <1>8, <1>9
<1>11. more \in [(o + 1)..(n + 2) -> Nat]
  <2>1. \A j \in (o + 1)..(n + 2) : j = n + 2 \/ j \in (o + 1)..(n + 1)
    BY <1>8
  <2>2. left + Len(message) \in Nat
    BY <1>1, <1>5
  <2>3. \A j \in (o + 1)..(n + 2) : more[j] \in Nat
    BY <1>10, <2>1, <2>2
  <2>4. QED
    BY <1>9, <2>3
<1>12. more[o + 1] = 0
  BY <1>7, <1>8, <1>10
<1>13. ASSUME NEW j \in (o + 1)..(n + 1)
       PROVE  /\ more[j + 1] = more[j] + Len(posted'[j])
              /\ \A i \in 1..Len(posted'[j]) : more[j] + i <= Left' => Unshown(more[j] + i)' = posted'[j][i]
  <2>1. CASE j = n + 1
    <3>1. more[j] = left /\ posted'[j] = message /\ more[j + 1] = left + Len(message)
      BY <1>7, <1>8, <1>10, <2>1
    <3>2. QED
      BY <1>6, <3>1
  <2>2. CASE j # n + 1
    <3>1. /\ j \in (o + 1)..n /\ j + 1 \in (o + 1)..(n + 1) /\ posted'[j] = posted[j]
          /\ j \in (o + 1)..(n + 1)
      BY <1>2, <1>8, <2>2
    <3>2. /\ cut[j + 1] = cut[j] + Len(posted[j]) /\ cut[j] \in Nat
          /\ \A i \in 1..Len(posted[j]) : cut[j] + i <= left => Unshown(cut[j] + i) = posted[j][i]
      BY <1>7, <1>10, <3>1
    <3>3. more[j] = cut[j] /\ more[j + 1] = cut[j + 1]
      BY <1>10, <3>1
    <3>4. posted[j] \in Output
      BY <1>1, <1>2, <1>8, <3>1
    <3>5. Len(posted[j]) \in Nat
      BY <3>4, OutputIs
    <3>6. cut[j + 1] <= left
      <4>1. n + 1 \in (o + 1)..(n + 1) /\ j + 1 <= n + 1
        BY <1>8, <3>1
      <4>2. QED
        BY <1>7, <3>1, <4>1
    <3>7. ASSUME NEW i \in 1..Len(posted[j])
          PROVE  Unshown(cut[j] + i)' = posted[j][i]
      <4>1. cut[j] + i \in 1..left
        <5>1. cut[j] \in Nat /\ i \in Nat /\ 1 <= i /\ i <= Len(posted[j])
          BY <3>2, <3>5
        <5>2. cut[j] + Len(posted[j]) <= left
          BY <3>2, <3>6
        <5>3. QED
          BY <1>5, <3>5, <5>1, <5>2, SMTT(30)
      <4>2. PICK p \in 1..left : p = cut[j] + i
        BY <4>1
      <4>3. Unshown(p) = posted[j][i]
        BY <3>2, <4>1, <4>2
      <4>4. Unshown(p)' = Unshown(p)
        BY <1>6
      <4>5. QED
        BY <4>2, <4>3, <4>4
    <3>8. QED
      BY <3>1, <3>2, <3>3, <3>7
  <2>3. QED
    BY <2>1, <2>2
<1>14. ASSUME NEW j \in (o + 1)..(n + 2), NEW k \in (o + 1)..(n + 2), j <= k
       PROVE  more[j] <= more[k]
  <2>1. CASE k = n + 2 /\ j = n + 2
    BY <1>1, <1>5, <1>10, <2>1
  <2>2. CASE k = n + 2 /\ j # n + 2
    <3>1. j \in (o + 1)..(n + 1) /\ n + 1 \in (o + 1)..(n + 1) /\ j <= n + 1
      BY <1>2, <1>8, <2>2
    <3>2. cut[j] <= cut[n + 1]
      BY <1>7, <3>1
    <3>3. QED
      BY <1>1, <1>5, <1>7, <1>10, <2>2, <3>1, <3>2
  <2>3. CASE k # n + 2
    <3>1. j \in (o + 1)..(n + 1) /\ k \in (o + 1)..(n + 1)
      BY <1>2, <1>8, <1>14, <2>3
    <3>2. cut[j] <= cut[k]
      BY <1>7, <1>14, <3>1
    <3>3. QED
      BY <1>10, <3>1, <3>2
  <2>4. QED
    BY <2>1, <2>2, <2>3
<1>15. Len(posted') + 1 = n + 2 /\ Len(posted') = n + 1
  BY <1>8
<1>16. Left' = more[n + 2]
  BY <1>5, <1>10
<1>17. Cuts(more)'
  <2>1. Len(shown') = o
    BY <1>4
  <2>2. Len(shown') + 1 = o + 1
    BY <2>1
  <2>3. /\ more[Len(shown') + 1] = 0
        /\ \A j \in (Len(shown') + 1)..Len(posted') :
             /\ more[j + 1] = more[j] + Len(posted'[j])
             /\ \A i \in 1..Len(posted'[j]) : more[j] + i <= Left' => Unshown(more[j] + i)' = posted'[j][i]
    BY <1>12, <1>13, <1>15, <2>2
  <2>4. \A j, k \in (Len(shown') + 1)..(Len(posted') + 1) : j <= k => more[j] <= more[k]
    BY <1>14, <1>15, <2>2
  <2>5. Left' <= more[Len(posted') + 1] /\ Left' = more[Len(posted') + 1]
    BY <1>1, <1>5, <1>15, <1>16
  <2>6. QED
    BY <2>3, <2>4, <2>5 DEF Cuts
<1>18. Len(shown') <= Len(posted') /\ more \in [(Len(shown') + 1)..(Len(posted') + 1) -> Nat]
  BY <1>4, <1>8, <1>11, <1>15
<1>19. QED
  BY <1>17, <1>18 DEF CutInv

\* The steps that move none of the server's bytes ...
Kept == UNCHANGED <<server_message, behind, wire, posted, shown, link>>

\* ... and those that end the connection.
Lost == link' # "up" /\ wire' \in {<<>>, wire} /\ UNCHANGED <<server_message, behind, posted, shown>>

LEMMA StepKinds ==
  ASSUME [Next]_vars
  PROVE  Kept \/ Lost \/ ReceiveBytes \/ HandleServerMessage \/ \E m \in Output : Post(m)
<1>1. CASE UNCHANGED vars
  BY <1>1 DEF Kept, vars, input, output
<1>2. CASE Select
  BY <1>2 DEF Kept, Select, output
<1>3. CASE ProcessInput
  BY <1>3 DEF Kept, ProcessInput, GetLetter, GetNewline, InputOverrun, InputDone, SendMessage, SendReset,
              SendPipe, EndAs, input, output
<1>4. CASE ReceiveMessages
  BY <1>4 DEF Kept, ReceiveMessages, NothingToReceive, ReceiveEnd, HandleExit, MessagesDone, EndAs, input, output
<1>5. CASE Outside
  <2>1. ASSUME NEW line \in Input, Type(line)
        PROVE  Kept
    BY <2>1 DEF Kept, Type, output
  <2>2. ASSUME NEW how \in {"fin", "rst"}, ServerEnds(how)
        PROVE  Lost
    BY <2>2 DEF Lost, ServerEnds
  <2>3. CASE ResetArrives
    BY <2>3 DEF Lost, ResetArrives
  <2>4. QED
    BY <1>5, <2>1, <2>2, <2>3 DEF Outside
<1>6. QED
  BY <1>1, <1>2, <1>3, <1>4, <1>5 DEF Next, Process

LEMMA CutStep ==
  ASSUME ClientInv, [Next]_vars
  PROVE  CutInv'
<1>1. /\ shown \in Seq(Seq(Byte)) /\ posted \in Seq(Output) /\ wire \in Seq(Byte)
      /\ Held \in Nat /\ Len(wire) \in Nat /\ Left \in Nat /\ CutInv
  <2>1. shown \in Seq(Seq(Byte)) /\ posted \in Seq(Output) /\ wire \in Seq(Byte) /\ Held \in Nat /\ CutInv
    BY HeldIs DEF ClientInv, TypeOK, HeldInv
  <2>2. QED
    BY <2>1 DEF Left
<1>2. CASE Kept
  <2>1. /\ shown' = shown /\ posted' = posted /\ wire' = wire /\ link' = link /\ Held' = Held
        /\ Memory' = Memory
    BY <1>2, MemoryKept DEF Kept, Held
  <2>2. Left' = Left /\ \A i \in 1..Left' : Unshown(i)' = Unshown(i)
    BY <2>1 DEF Left, Unshown
  <2>3. QED
    BY <1>1, <2>1, <2>2, CutKept
<1>3. CASE Lost
  <2>1. /\ shown' = shown /\ posted' = posted /\ wire' \in {<<>>, wire} /\ link' # "up" /\ Held' = Held
        /\ Memory' = Memory
    BY <1>3, MemoryKept DEF Lost, Held
  <2>2. CASE wire' = wire
    <3>1. Left' = Left /\ \A i \in 1..Left' : Unshown(i)' = Unshown(i)
      BY <2>1, <2>2 DEF Left, Unshown
    <3>2. QED
      BY <1>1, <2>1, <3>1, CutKept
  <2>3. CASE wire' = <<>>
    <3>1. Left' = Held /\ Left' <= Left /\ Left' \in Nat
      BY <1>1, <2>1, <2>3 DEF Left
    <3>2. ASSUME NEW i \in 1..Left'
          PROVE  Unshown(i)' = Unshown(i)
      BY <1>1, <2>1, <3>1 DEF Unshown
    <3>3. QED
      BY <1>1, <2>1, <3>1, <3>2, CutKept
  <2>4. QED
    BY <2>1, <2>2, <2>3
<1>4. CASE ReceiveBytes
  <2>1. Left' = Left /\ \A i \in 1..Left : Unshown(i)' = Unshown(i)
    BY <1>4, ReceiveFacts
  <2>2. shown' = shown /\ posted' = posted /\ link' = link
    BY <1>4 DEF ReceiveBytes
  <2>3. \A i \in 1..Left' : Unshown(i)' = Unshown(i)
    BY <2>1
  <2>4. QED
    BY <1>1, <2>1, <2>2, <2>3, CutKept
<1>5. CASE HandleServerMessage
  BY <1>5, CutShown
<1>6. ASSUME NEW m \in Output, Post(m)
      PROVE  CutInv'
  BY <1>6, CutPosted
<1>7. QED
  BY <1>2, <1>3, <1>4, <1>5, <1>6, StepKinds

\* What is shown is the message posted.
LEMMA ShownStep ==
  ASSUME ClientInv, [Next]_vars
  PROVE  ShownAsPosted'
<1>1. /\ shown \in Seq(Seq(Byte)) /\ posted \in Seq(Output) /\ ShownAsPosted
      /\ Len(shown) \in Nat /\ Len(posted) \in Nat
  BY DEF ClientInv, TypeOK
<1>2. CASE shown' = shown /\ posted' = posted
  BY <1>1, <1>2 DEF ShownAsPosted
<1>3. CASE HandleServerMessage
  <2>1. /\ shown' = Append(shown, Tail(Message)) /\ posted' = posted /\ Message[1] # Exit_Message
        /\ Message = posted[Len(shown) + 1] /\ Len(shown) < Len(posted)
    BY <1>3, FirstFound DEF HandleServerMessage
  <2>2. Len(shown') = Len(shown) + 1 /\ DOMAIN shown' = 1..(Len(shown) + 1)
    BY <1>1, <2>1
  <2>3. ASSUME NEW i \in DOMAIN shown'
        PROVE  shown'[i] = Tail(posted'[i]) /\ posted'[i][1] # Exit_Message
    <3>1. CASE i = Len(shown) + 1
      <4>1. shown'[i] = Tail(Message)
        BY <1>1, <2>1, <3>1
      <4>2. QED
        BY <2>1, <3>1, <4>1
    <3>2. CASE i # Len(shown) + 1
      <4>1. i \in DOMAIN shown
        BY <1>1, <2>2, <3>2
      <4>2. shown'[i] = shown[i]
        BY <1>1, <2>1, <4>1
      <4>3. QED
        BY <1>1, <2>1, <4>1, <4>2 DEF ShownAsPosted
    <3>3. QED
      BY <3>1, <3>2
  <2>4. QED
    BY <1>1, <2>1, <2>2, <2>3 DEF ShownAsPosted
<1>4. ASSUME NEW m \in Output, Post(m)
      PROVE  ShownAsPosted'
  <2>1. shown' = shown /\ posted' = Append(posted, m)
    BY <1>4 DEF Post
  <2>2. Len(posted') = Len(posted) + 1 /\ \A i \in 1..Len(posted) : posted'[i] = posted[i]
    BY <1>1, <2>1
  <2>3. DOMAIN shown = 1..Len(shown) /\ Len(shown) <= Len(posted)
    BY <1>1 DEF ShownAsPosted
  <2>4. ASSUME NEW i \in DOMAIN shown
        PROVE  posted'[i] = posted[i]
    <3>1. i \in 1..Len(posted)
      BY <1>1, <2>3
    <3>2. QED
      BY <2>2, <3>1
  <2>5. \A i \in DOMAIN shown : shown[i] = Tail(posted[i]) /\ posted[i][1] # Exit_Message
    BY <1>1 DEF ShownAsPosted
  <2>6. Len(shown') <= Len(posted')
    BY <1>1, <2>1, <2>2, <2>3
  <2>7. \A i \in DOMAIN shown' : shown'[i] = Tail(posted'[i]) /\ posted'[i][1] # Exit_Message
    BY <2>1, <2>4, <2>5
  <2>8. QED
    BY <2>6, <2>7 DEF ShownAsPosted
<1>5. QED
  BY <1>2, <1>3, <1>4, StepKinds DEF Kept, Lost, ReceiveBytes

-----------------------------------------------------------------------------
(* The buffer and its offset. *)

LEMMA HeldStep ==
  ASSUME ClientInv, [Next]_vars
  PROVE  HeldInv'
<1>1. HeldInv /\ Held \in Nat /\ Held <= Capacity
  BY HeldIs DEF ClientInv, HeldInv
<1>2. ASSUME UNCHANGED <<server_message, behind>>, server_offset' = server_offset,
             pc' \in {"select", "input", "send", "receive"} => pc \in {"select", "input", "send", "receive"}
      PROVE  HeldInv'
  BY <1>1, <1>2, MemoryKept DEF HeldInv, Held, Holds
<1>3. CASE UNCHANGED vars
  BY <1>2, <1>3 DEF vars, input, output
<1>4. CASE Select
  BY <1>2, <1>4 DEF Select, output
<1>5. CASE ProcessInput
  BY <1>2, <1>5 DEF ProcessInput, GetLetter, GetNewline, InputOverrun, InputDone, SendMessage, SendReset,
                    SendPipe, EndAs, input, output
<1>6. CASE NothingToReceive \/ ReceiveEnd \/ HandleExit
  BY <1>2, <1>6 DEF NothingToReceive, ReceiveEnd, HandleExit, EndAs, input, output
<1>7. CASE ReceiveBytes
  <2>1. /\ Holds(Memory', Held') /\ Held <= Held' /\ server_offset = Held
        /\ \A i \in 0..(Held - 1) : Memory'[i] = Memory[i]
    BY <1>7, ReceiveFacts
  <2>2. server_offset' = server_offset /\ pc' = "messages"
    BY <1>7 DEF ReceiveBytes
  <2>3. \A i \in 0..(server_offset' - 1) : Memory'[i] # Newline
    BY <1>1, <2>1, <2>2 DEF HeldInv
  <2>4. server_offset' <= Held'
    BY <2>1, <2>2
  <2>5. QED
    BY <2>1, <2>2, <2>3, <2>4 DEF HeldInv
<1>8. CASE HandleServerMessage
  <2>1. Holds(Memory', Held')
    BY <1>8, HandleFacts
  <2>2. server_offset' = 0 /\ pc' = "messages"
    BY <1>8 DEF HandleServerMessage
  <2>3. Held' \in Nat
    BY <2>1 DEF Holds
  <2>4. QED
    BY <2>1, <2>2, <2>3 DEF HeldInv
<1>9. CASE MessagesDone
  <2>1. /\ server_offset' = Held /\ Memory' = Memory /\ Held' = Held /\ LineEnd = -1
    BY <1>9, MemoryKept DEF MessagesDone, OffsetAfter, Held
  <2>2. Holds(Memory, Held) /\ server_offset \in 0..Held
    BY <1>1 DEF HeldInv, ClientInv, TypeOK
  <2>3. \A i \in server_offset..(Held - 1) : Memory[i] # Newline
    BY <2>1, <2>2, NoMessageEnd DEF LineEnd
  <2>4. \A i \in 0..(Held - 1) : Memory[i] # Newline
    <3> TAKE i \in 0..(Held - 1)
    <3>1. CASE i < server_offset
      BY <1>1, <2>2, <3>1 DEF HeldInv
    <3>2. CASE ~(i < server_offset)
      BY <1>1, <2>2, <2>3, <3>2
    <3>3. QED
      BY <3>1, <3>2
  <2>5. QED
    BY <1>1, <2>1, <2>2, <2>4 DEF HeldInv
<1>10. CASE Outside
  BY <1>2, <1>10 DEF Outside, Type, Post, ServerEnds, ResetArrives, input, output
<1>11. QED
  BY <1>3, <1>4, <1>5, <1>6, <1>7, <1>8, <1>9, <1>10 DEF Next, Process, ReceiveMessages

-----------------------------------------------------------------------------
(* The types of the variables and the bytes on their way. *)

LEMMA TypeStep ==
  ASSUME ClientInv, [Next]_vars
  PROVE  TypeOK'
<1>1. TypeOK /\ Capacity \in Nat
  BY CapacityAssumption DEF ClientInv
<1>2. CASE UNCHANGED vars
  BY <1>1, <1>2 DEF TypeOK, vars, input, output
<1>3. CASE Select
  BY <1>1, <1>3 DEF TypeOK, Select, Readable, output
<1>4. CASE GetLetter
  <2>1. Head(stdin) \in Byte /\ Tail(stdin) \in Seq(Byte) /\ input_offset \in 0..Capacity
    BY <1>1, <1>4 DEF TypeOK, GetLetter
  <2>2. input_message' \in Buffer
    BY <1>1, <1>4, <2>1 DEF TypeOK, GetLetter, Buffer
  <2>3. QED
    BY <1>1, <1>4, <2>1, <2>2 DEF TypeOK, GetLetter, output
<1>5. CASE GetNewline
  <2>1. Tail(stdin) \in Seq(Byte) /\ input_offset \in Nat /\ Newline \in Byte /\ Null \in Byte
    BY <1>1, <1>5 DEF TypeOK, GetNewline, Byte
  <2>2. input_message' \in Buffer
    BY <1>1, <1>5, <2>1 DEF TypeOK, GetNewline, LineStored, Buffer
  <2>3. QED
    BY <1>1, <1>5, <2>1, <2>2 DEF TypeOK, GetNewline, output
<1>6. CASE InputOverrun \/ SendReset \/ SendPipe \/ ReceiveEnd \/ HandleExit
  BY <1>1, <1>6 DEF TypeOK, InputOverrun, SendReset, SendPipe, ReceiveEnd, HandleExit, EndAs, Ended, input, output
<1>7. CASE InputDone \/ NothingToReceive
  BY <1>1, <1>7 DEF TypeOK, InputDone, NothingToReceive, input, output
<1>8. CASE SendMessage
  <2>1. PICK z : Holds(input_message, z)
    BY <1>8 DEF ClientInv, StringInv, SendMessage
  <2>2. Text(input_message) \in Seq(Byte)
    BY <1>1, <2>1, TextIs DEF TypeOK
  <2>3. QED
    BY <1>1, <1>8, <2>2 DEF TypeOK, SendMessage, output
<1>9. CASE ReceiveBytes
  <2>1. server_message' \in [0..(Capacity - 1) -> Byte] /\ behind' \in Byte /\ wire' \in Seq(Byte)
    BY <1>9, ReceiveFacts
  <2>2. QED
    BY <1>1, <1>9, <2>1 DEF TypeOK, ReceiveBytes, input
<1>10. CASE HandleServerMessage
  <2>1. server_message' \in [0..(Capacity - 1) -> Byte] /\ behind' \in Byte
    BY <1>10, HandleFacts
  <2>2. Message \in Output
    BY <1>1, <1>10, FirstFound DEF HandleServerMessage, TypeOK
  <2>3. Tail(Message) \in Seq(Byte)
    BY <2>2, OutputIs
  <2>4. QED
    BY <1>1, <1>10, <2>1, <2>3 DEF TypeOK, HandleServerMessage, input
<1>11. CASE MessagesDone
  <2>1. server_offset' \in 0..Capacity
    BY <1>11, HeldIs DEF MessagesDone, OffsetAfter, ClientInv, HeldInv, Held
  <2>2. QED
    BY <1>1, <1>11, <2>1 DEF TypeOK, MessagesDone, input
<1>12. ASSUME NEW line \in Input, Type(line)
       PROVE  TypeOK'
  <2>1. line \in Seq(Byte)
    BY InputIs
  <2>2. QED
    BY <1>1, <1>12, <2>1 DEF TypeOK, Type, output
<1>13. ASSUME NEW m \in Output, Post(m)
       PROVE  TypeOK'
  <2>1. m \in Seq(Byte)
    BY OutputIs
  <2>2. QED
    BY <1>1, <1>13, <2>1 DEF TypeOK, Post, input
<1>14. ASSUME NEW how \in {"fin", "rst"}, ServerEnds(how)
       PROVE  TypeOK'
  BY <1>1, <1>14 DEF TypeOK, ServerEnds, input
<1>15. CASE ResetArrives
  BY <1>1, <1>15 DEF TypeOK, ResetArrives, input
<1>16. QED
  BY <1>2, <1>3, <1>4, <1>5, <1>6, <1>7, <1>8, <1>9, <1>10, <1>11, <1>12, <1>13, <1>14, <1>15
  DEF Next, Process, ProcessInput, ReceiveMessages, Outside

LEMMA NoNull ==
  ASSUME NEW a \in Seq(Byte), NEW b \in Seq(Byte),
         \A i \in DOMAIN a : a[i] # Null, \A i \in DOMAIN b : b[i] # Null
  PROVE  \A i \in DOMAIN (a \o b) : (a \o b)[i] # Null
<1>1. Len(a) \in Nat /\ Len(b) \in Nat /\ DOMAIN (a \o b) = 1..(Len(a) + Len(b))
  OBVIOUS
<1>2. ASSUME NEW i \in 1..(Len(a) + Len(b))
      PROVE  (a \o b)[i] # Null
  <2>1. CASE i <= Len(a)
    <3>1. (a \o b)[i] = a[i] /\ i \in DOMAIN a
      BY <1>1, <2>1
    <3>2. QED
      BY <3>1
  <2>2. CASE ~(i <= Len(a))
    <3>1. (a \o b)[i] = b[i - Len(a)] /\ i - Len(a) \in DOMAIN b
      BY <1>1, <2>2
    <3>2. QED
      BY <3>1
  <2>3. QED
    BY <2>1, <2>2
<1>3. QED
  BY <1>1, <1>2

LEMMA BytesStep ==
  ASSUME ClientInv, [Next]_vars
  PROVE  BytesInv'
<1>1. wire \in Seq(Byte) /\ stdin \in Seq(Byte) /\ BytesInv
  BY DEF ClientInv, TypeOK
<1>2. \A i \in DOMAIN stdin' : stdin'[i] # Null
  <2>1. CASE stdin' = stdin
    BY <1>1, <2>1 DEF BytesInv
  <2>2. CASE stdin # <<>> /\ stdin' = Tail(stdin)
    <3>1. \A i \in DOMAIN stdin' : i + 1 \in DOMAIN stdin /\ stdin'[i] = stdin[i + 1]
      BY <1>1, <2>2
    <3>2. QED
      BY <1>1, <3>1 DEF BytesInv
  <2>3. ASSUME NEW line \in Input, Type(line)
        PROVE  \A i \in DOMAIN stdin' : stdin'[i] # Null
    <3>1. line \in Seq(Byte) /\ \A i \in DOMAIN line : line[i] # Null
      BY InputIs, LineIs
    <3>2. stdin' = stdin \o line
      BY <2>3 DEF Type
    <3>3. QED
      BY <1>1, <3>1, <3>2, NoNull DEF BytesInv
  <2>4. CASE UNCHANGED vars
    BY <2>1, <2>4 DEF vars, input
  <2>5. CASE Process
    BY <2>1, <2>2, <2>5
    DEF Process, Select, ProcessInput, GetLetter, GetNewline, InputOverrun, InputDone, SendMessage, SendReset,
        SendPipe, ReceiveMessages, NothingToReceive, ReceiveBytes, ReceiveEnd, HandleServerMessage,
        HandleExit, MessagesDone, EndAs, input
  <2>6. CASE Outside
    BY <2>1, <2>3, <2>6 DEF Outside, Post, ServerEnds, ResetArrives, input
  <2>7. QED
    BY <2>4, <2>5, <2>6 DEF Next
<1>3. \A i \in DOMAIN wire' : wire'[i] # Null
  <2>1. CASE wire' \in {<<>>, wire}
    BY <1>1, <2>1 DEF BytesInv
  <2>2. CASE ReceiveBytes
    BY <2>2, ReceiveFacts
  <2>3. ASSUME NEW m \in Output, Post(m)
        PROVE  \A i \in DOMAIN wire' : wire'[i] # Null
    <3>1. m \in Seq(Byte) /\ \A i \in DOMAIN m : m[i] # Null
      BY OutputIs, LineIs
    <3>2. wire' = wire \o m
      BY <2>3 DEF Post
    <3>3. QED
      BY <1>1, <3>1, <3>2, NoNull DEF BytesInv
  <2>4. QED
    BY <2>1, <2>2, <2>3, StepKinds DEF Kept, Lost, HandleServerMessage
<1>4. QED
  BY <1>2, <1>3 DEF BytesInv

-----------------------------------------------------------------------------
(* What process_input reads and sends. *)

\* Writing behind a string leaves it where it is.
LEMMA HoldsBehind ==
  ASSUME NEW a \in Buffer, NEW b \in Buffer, NEW z, Holds(a, z),
         \A i \in 0..z : b[i] = a[i]
  PROVE  Holds(b, z)
BY CapacityAssumption DEF Holds

LEMMA StringStep ==
  ASSUME ClientInv, [Next]_vars
  PROVE  StringInv'
<1>1. /\ StringInv /\ input_message \in Buffer /\ input_offset \in Nat /\ input_offset <= Capacity + 1
      /\ Capacity \in Nat /\ stdin \in Seq(Byte) /\ BytesInv
      /\ input_message' \in Buffer
  BY CapacityAssumption, TypeStep DEF ClientInv, TypeOK, StringInv
<1>2. CASE input_message' = input_message /\ input_offset' = input_offset
           /\ (pc' \in {"input", "send"} => pc' = pc \/ (pc = "send" /\ pc' = "input"))
  BY <1>1, <1>2 DEF StringInv
<1>3. CASE Select
  BY <1>1, <1>3 DEF StringInv, Select
<1>4. CASE GetLetter
  <2>1. /\ Head(stdin) # Null /\ pc = "input" /\ pc' = "input" /\ input_offset' = input_offset + 1
        /\ input_offset \in 0..Capacity
        /\ input_message' = [input_message EXCEPT ![input_offset] = Head(stdin)]
    BY <1>1, <1>4 DEF BytesInv, GetLetter
  <2>2. /\ input_message'[input_offset] # Null
        /\ \A i \in 0..(input_offset - 1) : input_message'[i] = input_message[i]
    BY <1>1, <2>1 DEF Buffer
  <2>3. CASE \A i \in 0..(input_offset - 1) : input_message[i] # Null
    <3>1. \A i \in 0..(input_offset' - 1) : input_message'[i] # Null
      BY <1>1, <2>1, <2>2, <2>3
    <3>2. QED
      BY <1>1, <2>1, <3>1 DEF StringInv
  <2>4. ASSUME NEW z \in 0..(input_offset - 1), Holds(input_message, z)
        PROVE  StringInv'
    <3>1. \A i \in 0..z : input_message'[i] = input_message[i]
      BY <1>1, <2>2
    <3>2. Holds(input_message', z)
      BY <1>1, <2>4, <3>1, HoldsBehind
    <3>3. z \in 0..(input_offset' - 1)
      BY <1>1, <2>1
    <3>4. QED
      BY <1>1, <2>1, <3>2, <3>3 DEF StringInv
  <2>5. QED
    BY <1>1, <2>1, <2>3, <2>4 DEF StringInv
<1>5. CASE GetNewline
  <2>1. /\ pc = "input" /\ pc' = "send" /\ input_offset' = input_offset + 2
        /\ input_offset + 1 \in 0..Capacity
        /\ input_message' = [input_message EXCEPT ![input_offset] = Newline, ![input_offset + 1] = Null]
    BY <1>1, <1>5 DEF GetNewline, LineStored
  <2>2. /\ input_message'[input_offset] = Newline /\ input_message'[input_offset + 1] = Null
        /\ \A i \in 0..(input_offset - 1) : input_message'[i] = input_message[i]
    BY <1>1, <2>1 DEF Buffer
  <2>3. CASE \A i \in 0..(input_offset - 1) : input_message[i] # Null
    <3>1. \A i \in 0..input_offset : input_message'[i] # Null
      BY <1>1, <2>2, <2>3, BytesAssumption
    <3>2. Holds(input_message', input_offset + 1)
      <4>1. 0..((input_offset + 1) - 1) = 0..input_offset
        BY <1>1
      <4>2. QED
        BY <2>1, <2>2, <3>1, <4>1 DEF Holds
    <3>3. input_offset + 1 \in 0..(input_offset' - 1)
      BY <1>1, <2>1
    <3>4. QED
      BY <1>1, <2>1, <3>2, <3>3 DEF StringInv
  <2>4. ASSUME NEW z \in 0..(input_offset - 1), Holds(input_message, z)
        PROVE  StringInv'
    <3>1. \A i \in 0..z : input_message'[i] = input_message[i]
      BY <1>1, <2>2
    <3>2. Holds(input_message', z)
      BY <1>1, <2>4, <3>1, HoldsBehind
    <3>3. z \in 0..(input_offset' - 1)
      BY <1>1, <2>1
    <3>4. QED
      BY <1>1, <2>1, <3>2, <3>3 DEF StringInv
  <2>5. QED
    BY <1>1, <2>1, <2>3, <2>4 DEF StringInv
<1>6. CASE UNCHANGED vars
  BY <1>2, <1>6 DEF vars, input
<1>7. CASE InputOverrun \/ InputDone \/ SendMessage \/ SendReset \/ SendPipe
  BY <1>2, <1>7 DEF InputOverrun, InputDone, SendMessage, SendReset, SendPipe, EndAs, input
<1>8. CASE ReceiveMessages
  BY <1>2, <1>8
  DEF ReceiveMessages, NothingToReceive, ReceiveBytes, ReceiveEnd, HandleServerMessage, HandleExit,
      MessagesDone, EndAs, input
<1>9. CASE Outside
  BY <1>2, <1>9 DEF Outside, Type, Post, ServerEnds, ResetArrives, input
<1>10. QED
  BY <1>3, <1>4, <1>5, <1>6, <1>7, <1>8, <1>9 DEF Next, Process, ProcessInput

\* On a terminal one line at a time is read and sent.
LEMMA TerminalStep ==
  ASSUME ClientInv, [Next]_vars, ~piped'
  PROVE  TerminalInv'
<1>1. piped' = piped
  BY DEF Next, Process, Select, ProcessInput, GetLetter, GetNewline, InputOverrun, InputDone, SendMessage,
         SendReset, SendPipe, ReceiveMessages, NothingToReceive, ReceiveBytes, ReceiveEnd,
         HandleServerMessage, HandleExit, MessagesDone, EndAs, Outside, Type, Post, ServerEnds,
         ResetArrives, vars, input
<1>2. /\ TerminalInv /\ ~piped
      /\ typed \in Seq(Input) /\ sent \in Seq(Seq(Byte)) /\ stdin \in Seq(Byte)
      /\ input_message \in Buffer /\ input_offset \in Nat /\ Capacity \in Nat
      /\ Len(typed) \in Nat /\ Len(sent) \in Nat
      /\ input_message' \in Buffer
  <2>1. TypeOK /\ TypeOK' /\ TerminalInv /\ ~piped
    BY <1>1, TypeStep DEF ClientInv
  <2>2. Capacity \in Nat
    BY CapacityAssumption
  <2>3. input_message' \in Buffer
    BY <2>1 DEF TypeOK
  <2>4. /\ typed \in Seq(Input) /\ sent \in Seq(Seq(Byte)) /\ stdin \in Seq(Byte)
        /\ input_message \in Buffer /\ input_offset \in Nat
    BY <2>1 DEF TypeOK
  <2>5. QED
    BY <2>1, <2>2, <2>3, <2>4
<1>3. PICK line, offset : line = typed[Len(typed)] /\ offset = input_offset
  OBVIOUS
<1>4. ASSUME Len(typed) # 0
      PROVE  /\ line \in Seq(Byte) /\ Len(line) \in Nat \ {0} /\ line[Len(line)] = Newline
             /\ \A i \in 1..Len(line) : line[i] # Null /\ (line[i] = Newline <=> i = Len(line))
             /\ Len(line) <= Capacity
  <2>1. line \in Input
    BY <1>2, <1>3, <1>4
  <2>2. QED
    BY <2>1, InputIs, LineIs
<1>5. ASSUME NEW read, Reading(line, read)
      PROVE  Len(typed) # 0
  BY <1>2, <1>5 DEF Reading
<1>6. CASE /\ stdin' = stdin /\ sent' = sent /\ typed' = typed
           /\ \/ pc' \in Ended
              \/ pc \in {"receive", "messages"} /\ pc' \in {"select", "receive", "messages"}
  <2>1. CASE pc' \in Ended
    BY <1>2, <1>6, <2>1 DEF TerminalInv, Ended
  <2>2. CASE pc \in {"receive", "messages"} /\ pc' \in {"select", "receive", "messages"}
    BY <1>2, <1>6, <2>2 DEF TerminalInv, AllSent
  <2>3. QED
    BY <1>6, <2>1, <2>2
<1>7. CASE /\ UNCHANGED <<stdin, sent, typed, pc, input_message, input_offset>>
  BY <1>2, <1>7 DEF TerminalInv, AllSent, Reading, Holds
<1>8. ASSUME NEW new \in Input, Type(new)
      PROVE  TerminalInv'
  <2>1. /\ pc = "select" /\ pc' = "select" /\ stdin = <<>> /\ stdin' = <<>> \o new
        /\ typed' = Append(typed, new) /\ sent' = sent
    BY <1>2, <1>8 DEF Type
  <2>2. ~Reading(line, 0)
    <3>1. SUFFICES ASSUME Reading(line, 0)
                   PROVE  FALSE
      OBVIOUS
    <3>2. stdin = SubSeq(line, 1, Len(line)) /\ line \in Seq(Byte) /\ Len(line) \in Nat \ {0}
      BY <1>4, <1>5, <3>1 DEF Reading
    <3>3. Len(SubSeq(line, 1, Len(line))) = Len(line)
      BY <3>2
    <3>4. QED
      BY <2>1, <3>2, <3>3
  <2>3. AllSent
    BY <1>2, <1>3, <2>1, <2>2 DEF TerminalInv
  <2>4. new \in Seq(Byte) /\ stdin' = new /\ new = SubSeq(new, 1, Len(new))
    BY <2>1, InputIs
  <2>5. /\ Len(typed') = Len(typed) + 1 /\ typed'[Len(typed')] = new
        /\ \A i \in 1..Len(typed) : typed'[i] = typed[i]
    BY <1>2, <2>1
  <2>6. \A i \in DOMAIN sent' : sent'[i] = typed'[i]
    BY <1>2, <2>1, <2>3, <2>5 DEF TerminalInv, AllSent
  <2>7. Reading(new, 0)'
    BY <1>2, <2>1, <2>3, <2>4, <2>5 DEF Reading, AllSent
  <2>8. Len(sent') <= Len(typed')
    BY <1>2, <2>1, <2>3, <2>5 DEF AllSent
  <2>9. Reading(typed[Len(typed)], 0)'
    BY <2>5, <2>7 DEF Reading
  <2>10. QED
    BY <2>1, <2>6, <2>8, <2>9 DEF TerminalInv
<1>9. CASE Select
  <2>1. /\ pc = "select" /\ stdin' = stdin /\ sent' = sent /\ typed' = typed /\ input_offset' = 0
        /\ input_message' = input_message
        /\ pc' = IF stdin # <<>> THEN "input" ELSE "receive"
    BY <1>9 DEF Select, Readable
  <2>2. CASE AllSent
    BY <1>2, <2>1, <2>2 DEF TerminalInv, AllSent
  <2>3. CASE Reading(line, 0)
    <3>1. /\ Len(typed) # 0 /\ line \in Seq(Byte) /\ 0 < Len(line) /\ Len(line) \in Nat
      BY <1>4, <1>5, <2>3
    <3>2. stdin = SubSeq(line, 1, Len(line))
      BY <2>3 DEF Reading
    <3>3. Len(stdin) # 0
      BY <3>1, <3>2
    <3>4. pc' = "input"
      BY <1>2, <2>1, <3>3
    <3>5. Reading(typed[Len(typed)], input_offset)' /\ input_offset' < Len(typed'[Len(typed')])
      BY <1>3, <2>1, <2>3, <3>1 DEF Reading
    <3>6. QED
      BY <1>2, <2>1, <3>4, <3>5 DEF TerminalInv
  <2>4. QED
    BY <1>2, <1>3, <2>1, <2>2, <2>3 DEF TerminalInv
<1>10. ASSUME pc = "input", stdin # <<>>
       PROVE  /\ Reading(line, offset) /\ offset < Len(line) /\ Len(typed) # 0
              /\ Head(stdin) = line[offset + 1] /\ Tail(stdin) = SubSeq(line, offset + 2, Len(line))
  <2>1. Reading(line, offset) /\ offset < Len(line)
    BY <1>2, <1>3, <1>10 DEF TerminalInv, AllSent
  <2>2. Len(typed) # 0 /\ line \in Seq(Byte) /\ Len(line) \in Nat /\ offset \in Nat
    BY <1>2, <1>3, <1>4, <1>5, <2>1
  <2>3. stdin = SubSeq(line, offset + 1, Len(line))
    BY <2>1 DEF Reading
  <2>4. Head(stdin) = line[offset + 1]
    BY <2>1, <2>2, <2>3
  <2>5. Tail(stdin) = SubSeq(line, offset + 2, Len(line))
    <3>1. /\ Tail(stdin) \in Seq(Byte) /\ Len(Tail(stdin)) = Len(line) - offset - 1
          /\ \A i \in 1..(Len(line) - offset - 1) : Tail(stdin)[i] = line[i + offset + 1]
      BY <1>2, <1>10, <2>1, <2>2, <2>3
    <3>2. /\ SubSeq(line, offset + 2, Len(line)) \in Seq(Byte)
          /\ Len(SubSeq(line, offset + 2, Len(line))) = Len(line) - offset - 1
          /\ \A i \in 1..(Len(line) - offset - 1) : SubSeq(line, offset + 2, Len(line))[i] = line[i + offset + 1]
      BY <2>1, <2>2
    <3>3. QED
      BY <3>1, <3>2, SeqEqual
  <2>6. QED
    BY <2>1, <2>2, <2>4, <2>5
<1>11. CASE GetLetter
  <2>1. /\ Reading(line, offset) /\ offset < Len(line) /\ Len(typed) # 0
        /\ Head(stdin) = line[offset + 1] /\ Tail(stdin) = SubSeq(line, offset + 2, Len(line))
    BY <1>10, <1>11 DEF GetLetter
  <2>2. /\ pc' = "input" /\ stdin' = Tail(stdin) /\ input_offset' = offset + 1 /\ Head(stdin) # Newline
        /\ sent' = sent /\ typed' = typed /\ offset \in 0..Capacity
        /\ input_message' = [input_message EXCEPT ![offset] = Head(stdin)]
    BY <1>2, <1>3, <1>11 DEF GetLetter
  <2>3. offset + 1 < Len(line)
    BY <1>2, <1>3, <1>4, <2>1, <2>2
  <2>4. /\ input_message'[offset] = line[offset + 1]
        /\ \A i \in 0..(offset - 1) : input_message'[i] = input_message[i]
    <3>1. PICK size : input_message \in [0..size -> Byte] /\ offset \in 0..size /\ size \in Nat
      BY <1>2, <2>2 DEF Buffer
    <3>2. input_message'[offset] = line[offset + 1]
      BY <2>1, <2>2, <3>1
    <3>3. ASSUME NEW i \in 0..(offset - 1)
          PROVE  input_message'[i] = input_message[i]
      <4>1. i \in 0..size /\ i # offset
        BY <3>1
      <4>2. QED
        BY <2>2, <3>1, <4>1
    <3>4. QED
      BY <3>2, <3>3
  <2>5. \A i \in 1..(offset + 1) : input_message'[i - 1] = line[i]
    <3> TAKE i \in 1..(offset + 1)
    <3>1. CASE i = offset + 1
      BY <2>2, <2>4, <3>1
    <3>2. CASE i # offset + 1
      <4>1. i \in 1..offset /\ i - 1 \in 0..(offset - 1)
        BY <2>2, <3>2
      <4>2. QED
        BY <2>1, <2>4, <4>1 DEF Reading
    <3>3. QED
      BY <3>1, <3>2
  <2>6. Reading(line, offset + 1)'
    <3>1. (offset + 1) + 1 = offset + 2
      BY <2>2
    <3>2. stdin' = SubSeq(line, (offset + 1) + 1, Len(line))
      BY <2>1, <2>2, <3>1
    <3>3. QED
      BY <2>1, <2>2, <2>5, <3>2 DEF Reading
  <2>7. Reading(typed[Len(typed)], input_offset)' /\ input_offset' < Len(typed'[Len(typed')])
    BY <1>3, <2>2, <2>3, <2>6 DEF Reading
  <2>8. QED
    BY <1>2, <2>2, <2>7 DEF TerminalInv
<1>12. CASE GetNewline
  <2>1. /\ Reading(line, offset) /\ offset < Len(line) /\ Len(typed) # 0
        /\ Head(stdin) = line[offset + 1] /\ Tail(stdin) = SubSeq(line, offset + 2, Len(line))
    BY <1>10, <1>12 DEF GetNewline
  <2>2. /\ pc' = "send" /\ stdin' = Tail(stdin) /\ Head(stdin) = Newline
        /\ sent' = sent /\ typed' = typed /\ offset \in Nat /\ offset + 1 \in 0..Capacity
        /\ input_message' = [input_message EXCEPT ![offset] = Newline, ![offset + 1] = Null]
    BY <1>2, <1>3, <1>12 DEF GetNewline, LineStored
  <2>3. offset + 1 = Len(line) /\ line[Len(line)] = Newline
    BY <1>2, <1>3, <1>4, <2>1, <2>2
  <2>4. /\ input_message'[offset] = line[offset + 1] /\ input_message'[Len(line)] = Null
        /\ \A i \in 0..(offset - 1) : input_message'[i] = input_message[i]
    BY <1>2, <2>1, <2>2, <2>3 DEF Buffer
  <2>5. \A i \in 1..Len(line) : input_message'[i - 1] = line[i]
    <3> TAKE i \in 1..Len(line)
    <3>1. CASE i = offset + 1
      BY <2>2, <2>4, <3>1
    <3>2. CASE i # offset + 1
      <4>1. i \in 1..offset /\ i - 1 \in 0..(offset - 1)
        BY <2>2, <2>3, <3>2
      <4>2. QED
        BY <2>1, <2>4, <4>1 DEF Reading
    <3>3. QED
      BY <3>1, <3>2
  <2>6. stdin' = SubSeq(line, Len(line) + 1, Len(line))
    <3>1. offset + 2 = Len(line) + 1
      BY <2>2, <2>3
    <3>2. QED
      BY <2>1, <2>2, <3>1
  <2>7. Reading(line, Len(line))'
    BY <2>1, <2>2, <2>5, <2>6 DEF Reading
  <2>8. Holds(input_message', Len(line))
    <3>1. Len(line) \in 0..Capacity
      BY <2>2, <2>3
    <3>2. ASSUME NEW i \in 0..(Len(line) - 1)
          PROVE  input_message'[i] # Null
      <4>1. i + 1 \in 1..Len(line) /\ (i + 1) - 1 = i
        BY <3>1
      <4>2. QED
        BY <1>4, <2>1, <2>5, <4>1
    <3>3. QED
      BY <2>4, <3>1, <3>2 DEF Holds
  <2>9. line = typed'[Len(typed')]
    BY <1>3, <2>2
  <2>10. QED
    BY <1>2, <2>2, <2>7, <2>8, <2>9 DEF TerminalInv, Reading
<1>13. CASE SendMessage
  <2>1. /\ pc = "send" /\ pc' = "input" /\ stdin' = stdin /\ typed' = typed
        /\ sent' = Append(sent, Text(input_message))
    BY <1>13 DEF SendMessage
  <2>2. Reading(line, Len(line)) /\ Holds(input_message, Len(line))
    BY <1>2, <1>3, <2>1 DEF TerminalInv
  <2>3. line \in Seq(Byte) /\ Len(line) \in Nat
    BY <1>4, <1>5, <2>2
  <2>4. Text(input_message) = line
    <3>1. PICK text : text = Text(input_message)
      OBVIOUS
    <3>2. /\ text \in Seq(Byte) /\ Len(text) = Len(line)
          /\ \A i \in 1..Len(line) : text[i] = input_message[i - 1]
      BY <1>2, <2>2, <3>1, TextIs
    <3>3. \A i \in 1..Len(line) : text[i] = line[i]
      BY <2>2, <3>2 DEF Reading
    <3>4. QED
      BY <2>3, <3>1, <3>2, <3>3, SeqEqual
  <2>5. stdin = <<>> /\ Len(typed) = Len(sent) + 1
    <3>1. stdin = SubSeq(line, Len(line) + 1, Len(line)) /\ Len(typed) = Len(sent) + 1
      BY <2>2 DEF Reading
    <3>2. Len(stdin) = 0
      BY <2>3, <3>1
    <3>3. QED
      BY <1>2, <3>1, <3>2
  <2>6. /\ Len(sent') = Len(sent) + 1 /\ DOMAIN sent' = 1..(Len(sent) + 1)
        /\ sent'[Len(sent) + 1] = line /\ \A i \in 1..Len(sent) : sent'[i] = sent[i]
    BY <1>2, <2>1, <2>3, <2>4
  <2>7. \A i \in DOMAIN sent' : sent'[i] = typed'[i]
    <3> TAKE i \in DOMAIN sent'
    <3>1. CASE i = Len(sent) + 1
      BY <1>3, <2>1, <2>5, <2>6, <3>1
    <3>2. CASE i # Len(sent) + 1
      <4>1. i \in 1..Len(sent) /\ DOMAIN sent = 1..Len(sent)
        BY <1>2, <2>6, <3>2
      <4>2. QED
        BY <1>2, <2>1, <2>6, <4>1 DEF TerminalInv
    <3>3. QED
      BY <3>1, <3>2
  <2>8. AllSent' /\ Len(sent') <= Len(typed')
    BY <1>2, <2>1, <2>5, <2>6 DEF AllSent
  <2>9. QED
    BY <2>1, <2>7, <2>8 DEF TerminalInv
<1>14. CASE InputDone
  <2>1. /\ pc = "input" /\ pc' = "receive" /\ stdin = <<>>
        /\ stdin' = stdin /\ typed' = typed /\ sent' = sent
    BY <1>2, <1>14 DEF InputDone, input
  <2>2. AllSent
    <3>1. SUFFICES ASSUME Reading(line, offset), offset < Len(line)
                   PROVE  FALSE
      BY <1>2, <1>3, <2>1 DEF TerminalInv
    <3>2. line \in Seq(Byte) /\ Len(line) \in Nat /\ offset \in Nat
      BY <1>2, <1>3, <1>4, <1>5, <3>1
    <3>3. stdin = SubSeq(line, offset + 1, Len(line))
      BY <3>1 DEF Reading
    <3>4. Len(stdin) = Len(line) - offset
      BY <3>1, <3>2, <3>3
    <3>5. QED
      BY <2>1, <3>1, <3>2, <3>4
  <2>3. QED
    BY <1>2, <2>1, <2>2 DEF TerminalInv, AllSent
<1>15. CASE UNCHANGED vars
  BY <1>7, <1>15 DEF vars, input
<1>16. CASE InputOverrun \/ SendReset \/ SendPipe \/ ReceiveMessages
  <2>1. stdin' = stdin /\ sent' = sent /\ typed' = typed
    BY <1>16
    DEF InputOverrun, SendReset, SendPipe, ReceiveMessages, NothingToReceive, ReceiveBytes, ReceiveEnd,
        HandleServerMessage, HandleExit, MessagesDone, EndAs, input
  <2>2. CASE InputOverrun \/ SendReset \/ SendPipe \/ ReceiveEnd \/ HandleExit
    <3>1. pc' \in Ended
      BY <2>2 DEF InputOverrun, SendReset, SendPipe, ReceiveEnd, HandleExit, EndAs, Ended
    <3>2. QED
      BY <1>6, <2>1, <3>1
  <2>3. CASE NothingToReceive \/ ReceiveBytes \/ HandleServerMessage \/ MessagesDone
    BY <1>6, <2>1, <2>3 DEF NothingToReceive, ReceiveBytes, HandleServerMessage, MessagesDone
  <2>4. QED
    BY <1>16, <2>2, <2>3 DEF ReceiveMessages
<1>17. CASE Outside
  BY <1>7, <1>8, <1>17 DEF Outside, Post, ServerEnds, ResetArrives, input
<1>18. QED
  BY <1>9, <1>11, <1>12, <1>13, <1>14, <1>15, <1>16, <1>17 DEF Next, Process, ProcessInput

-----------------------------------------------------------------------------
(* The results. *)

LEMMA ClientInit ==
  ASSUME Init
  PROVE  ClientInv
<1>1. Capacity \in Nat /\ 0 \in 0..Capacity /\ Null \in Byte
  BY CapacityAssumption DEF Byte
<1>2. TypeOK
  BY <1>1, BeyondAssumption DEF Init, TypeOK, Buffer
<1>3. Holds(Memory, 0) /\ Held = 0
  <2>1. Holds(Memory, 0)
    BY <1>1, CapacityAssumption DEF Init, Holds, Memory
  <2>2. QED
    BY <2>1, HeldIs DEF Held
<1>4. HeldInv
  BY <1>3 DEF HeldInv, Init
<1>5. CutInv
  <2>1. Len(shown) = 0 /\ Len(posted) = 0 /\ Len(wire) = 0 /\ Left = 0
    BY <1>3 DEF Init, Left
  <2>2. PICK cut \in [(Len(shown) + 1)..(Len(posted) + 1) -> Nat] : cut[1] = 0
    <3>1. [j \in (Len(shown) + 1)..(Len(posted) + 1) |-> 0] \in [(Len(shown) + 1)..(Len(posted) + 1) -> Nat]
      OBVIOUS
    <3>2. [j \in (Len(shown) + 1)..(Len(posted) + 1) |-> 0][1] = 0
      BY <2>1
    <3>3. QED
      BY <3>1, <3>2
  <2>3. Cuts(cut)
    BY <2>1, <2>2 DEF Cuts
  <2>4. QED
    BY <2>1, <2>3 DEF CutInv
<1>6. BytesInv /\ StringInv /\ TerminalInv /\ ShownAsPosted
  BY <1>1 DEF Init, BytesInv, StringInv, TerminalInv, AllSent, ShownAsPosted
<1>7. QED
  BY <1>2, <1>4, <1>5, <1>6 DEF ClientInv

\* ClientInv holds in every reachable state.
THEOREM ClientHolds == Spec => []ClientInv
<1>1. Init => ClientInv
  BY ClientInit
<1>2. ClientInv /\ [Next]_vars => ClientInv'
  <2> SUFFICES ASSUME ClientInv, [Next]_vars
               PROVE  ClientInv'
    OBVIOUS
  <2>1. TypeOK' /\ BytesInv' /\ StringInv' /\ (~piped' => TerminalInv')
    BY TypeStep, BytesStep, StringStep, TerminalStep
  <2>2. HeldInv' /\ CutInv' /\ ShownAsPosted'
    BY HeldStep, CutStep, ShownStep
  <2>3. QED
    BY <2>1, <2>2 DEF ClientInv
<1>3. QED
  BY <1>1, <1>2, PTL DEF Spec

\* The variables have their types: server_message keeps its size, server_offset
\* is an index of it or its size, whatever the server sends and wherever the
\* reads cut it (receive_messages).
THEOREM ClientTypes == Spec => []TypeOK
<1>1. ClientInv => TypeOK
  BY DEF ClientInv
<1>2. QED
  BY <1>1, ClientHolds, PTL

\* On a terminal every call of send_message sends one line, as it was typed and
\* in the order of typing (process_input).
THEOREM LinesAreSent == Spec => []SentAsTyped
<1>1. ClientInv => SentAsTyped
  <2> SUFFICES ASSUME ClientInv, ~piped
               PROVE  IsPrefix(sent, typed)
    BY DEF SentAsTyped
  <2>1. /\ sent \in Seq(Seq(Byte)) /\ typed \in Seq(Input) /\ Len(sent) <= Len(typed)
        /\ \A i \in DOMAIN sent : sent[i] = typed[i]
    BY DEF ClientInv, TypeOK, TerminalInv
  <2>2. /\ SubSeq(sent, 1, Len(sent)) = SubSeq(typed, 1, Len(sent))
    BY <2>1
  <2>3. QED
    BY <2>1, <2>2 DEF IsPrefix
<1>2. QED
  BY <1>1, ClientHolds, PTL

\* What handle_server_message prints is the posted messages without their
\* types, in their order, and never one that is an answer to exit.
THEOREM MessagesAreShown == Spec => []ShownAsPosted
<1>1. ClientInv => ShownAsPosted
  BY DEF ClientInv
<1>2. QED
  BY <1>1, ClientHolds, PTL

\* A message behind the first is moved to the front and leaves the byte behind
\* the array alone.
LEMMA BehindKept ==
  ASSUME ClientInv, HandleServerMessage
  PROVE  behind' = behind
<1> DEFINE end == LineEnd + 1
<1>1. /\ Memory \in Buffer /\ Holds(Memory, Held) /\ Capacity \in Nat \ {0}
      /\ Held \in Nat /\ Held <= Capacity
  BY MemoryIs, HeldIs, CapacityAssumption DEF ClientInv, HeldInv
<1>2. end \in 1..Held
  <2>1. /\ Len(shown) < Len(posted) /\ end = Len(posted[Len(shown) + 1]) /\ end <= Held
    BY FirstFound DEF HandleServerMessage
  <2>2. posted \in Seq(Output) /\ Len(shown) \in Nat
    BY DEF ClientInv, TypeOK
  <2>3. posted[Len(shown) + 1] \in Output
    BY <2>1, <2>2
  <2>4. QED
    BY <1>1, <2>1, <2>3, OutputIs
<1>3. Hold(Remaining(Memory, end))
  BY DEF HandleServerMessage
<1> HIDE DEF end
<1>4. StringEnd(Memory, end) = Held
  BY <1>1, <1>2, StringEndIs DEF Holds
<1>5. Remaining(Memory, end)[Capacity] = Memory[Capacity]
  BY <1>1, <1>2, <1>4 DEF Remaining
<1>6. QED
  BY <1>1, <1>3, <1>5 DEF Hold, Memory

\* Nothing the server sends is written behind server_message: only the null that
\* follows a read goes there, and only if the read has filled the array
\* (receive_messages).
THEOREM WritesAreContained == Spec => WritesContained
<1>1. ASSUME ClientInv, [Next]_vars, behind' # behind
      PROVE  behind' = Null /\ Len(wire) - Len(wire') = Capacity - server_offset
  <2>1. ReceiveBytes
    BY <1>1, StepKinds, BehindKept DEF Kept, Lost, Post
  <2>2. /\ wire \in Seq(Byte) /\ Len(wire) \in Nat /\ server_offset \in 0..Capacity
        /\ Capacity \in Nat \ {0}
    BY <1>1, CapacityAssumption DEF ClientInv, TypeOK
  <2>3. PICK n \in 1..Min({Room, Len(wire)}) :
          /\ Hold(Stored(Memory, server_offset, SubSeq(wire, 1, n)))
          /\ wire' = SubSeq(wire, n + 1, Len(wire))
    BY <2>1 DEF ReceiveBytes
  <2>4. Min({Room, Len(wire)}) = IF Room <= Len(wire) THEN Room ELSE Len(wire)
    BY <2>2, MinOfTwo DEF Room
  <2>5. n \in Nat /\ 1 <= n /\ n <= Capacity - server_offset /\ n <= Len(wire)
    BY <2>2, <2>3, <2>4 DEF Room
  <2>6. PICK bytes : bytes = SubSeq(wire, 1, n)
    OBVIOUS
  <2>7. Len(bytes) = n
    BY <2>2, <2>5, <2>6
  <2>8. behind' = Stored(Memory, server_offset, bytes)[Capacity]
    BY <2>3, <2>6 DEF Hold
  <2>9. /\ Capacity \notin server_offset..(server_offset + Len(bytes) - 1)
        /\ Memory[Capacity] = behind
    BY <2>2, <2>5, <2>7 DEF Memory
  <2>10. behind' = IF Capacity = server_offset + Len(bytes) THEN Null ELSE behind
    BY <2>2, <2>8, <2>9 DEF Stored
  <2>11. Len(wire) - Len(wire') = n
    BY <2>2, <2>3, <2>5
  <2>12. QED
    BY <1>1, <2>2, <2>7, <2>10, <2>11
<1>2. QED
  BY <1>1, ClientHolds, PTL DEF Spec, WritesContained

==============================================================================
