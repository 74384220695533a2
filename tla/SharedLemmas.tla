---------------------------- MODULE SharedLemmas ----------------------------
(***************************************************************************)
(* Lemmas that the proofs of several components rest on: induction up to a *)
(* number, loops (the recursive functions of the models), what the         *)
(* operations of LineBuffer do to the string in a buffer, and what those   *)
(* of Transitions do to the queue of what waits.                           *)
(***************************************************************************)
EXTENDS LineBuffer, Transitions, SequenceTheorems, FiniteSetTheorems, WellFoundedInduction, TLAPS

-----------------------------------------------------------------------------
(* Numbers *)

\* A set of numbers has a least one.
LEMMA LeastNumber ==
  ASSUME NEW S \in SUBSET Nat, S # {}
  PROVE  \E n \in S : \A m \in S : n <= m
<1> DEFINE R == OpToRel(<, Nat)
<1>1. PICK x \in S : \A y \in S : ~(<<y, x>> \in R)
  BY NatLessThanWellFounded, WFMin, Zenon
<1>2. \A u, y \in Nat : <<u, y>> \in R <=> u < y
  BY DEF OpToRel
<1> HIDE DEF R
<1>3. \A y \in S : ~(y < x)
  BY <1>1, <1>2
<1>4. QED
  BY <1>3

\* Induction up to n: what holds of 0 and of the successor of each number it
\* holds of.
LEMMA UpTo ==
  ASSUME NEW n \in Nat, NEW K, 0 \in K, \A k \in 0..(n - 1) : k \in K => k + 1 \in K
  PROVE  0..n \subseteq K
<1>1. PICK bad : bad = {k \in 0..n : k \notin K}
  OBVIOUS
<1>2. SUFFICES ASSUME bad # {}
               PROVE  FALSE
  BY <1>1
<1>3. bad \in SUBSET Nat
  BY <1>1
<1>4. PICK m \in bad : \A k \in bad : m <= k
  BY <1>2, <1>3, LeastNumber
<1>5. m \in 0..n /\ m # 0 /\ m \notin K
  BY <1>1
<1>6. m - 1 \in 0..(n - 1) /\ m - 1 \in 0..n /\ (m - 1) + 1 = m /\ ~(m <= m - 1)
  BY <1>5
<1>7. m - 1 \in K
  BY <1>1, <1>4, <1>6
<1>8. QED
  BY <1>5, <1>6, <1>7

LEMMA MinIs ==
  ASSUME NEW S \in SUBSET Int, NEW m \in S, \A x \in S : m <= x
  PROVE  Min(S) = m
<1>1. /\ m \in S /\ \A y \in S : m =< y
      /\ \A x \in S : (\A y \in S : x =< y) => x = m
  OBVIOUS
<1>2. QED
  BY <1>1 DEF Min

LEMMA MinOfTwo ==
  ASSUME NEW a \in Int, NEW b \in Int
  PROVE  Min({a, b}) = IF a <= b THEN a ELSE b
<1>1. CASE a <= b
  BY <1>1, MinIs
<1>2. CASE b < a
  <2>1. Min({a, b}) = b
    BY <1>2, MinIs
  <2>2. QED
    BY <1>2, <2>1
<1>3. QED
  BY <1>1, <1>2

-----------------------------------------------------------------------------
(* Loops *)

\* A loop that takes a step for each number has a run.
LoopRun(f, n, S, base, step) ==
  f \in [0..n -> S] /\ f[0] = base /\ \A i \in 1..n : f[i] = step[<<i, f[i - 1]>>]

LEMMA LoopRuns ==
  ASSUME NEW n \in Nat, NEW S, NEW base \in S, NEW step \in [(1..n) \X S -> S]
  PROVE  \E f : LoopRun(f, n, S, base, step)
<1> DEFINE Runs(k, f) == f[0] = base /\ \A i \in 1..k : f[i] = step[<<i, f[i - 1]>>]
           K == {k \in 0..n : \E f \in [0..k -> S] : Runs(k, f)}
<1>1. 0 \in K
  <2> DEFINE f == [i \in 0..0 |-> base]
  <2>1. f \in [0..0 -> S] /\ Runs(0, f) /\ 0 \in 0..n
    OBVIOUS
  <2>2. \E h \in [0..0 -> S] : Runs(0, h)
    BY <2>1, Zenon
  <2>3. QED
    BY <2>1, <2>2
<1>2. ASSUME NEW k \in 0..(n - 1), k \in K
      PROVE  k + 1 \in K
  <2>1. PICK f \in [0..k -> S] : Runs(k, f)
    BY <1>2
  <2> DEFINE g == [i \in 0..(k + 1) |-> IF i = k + 1 THEN step[<<k + 1, f[k]>>] ELSE f[i]]
  <2>2. k \in Nat /\ k + 1 \in 1..n /\ k + 1 \in 0..n
    OBVIOUS
  <2>3. f[k] \in S
    BY <2>2
  <2>4. step[<<k + 1, f[k]>>] \in S
    BY <2>2, <2>3
  <2>5. g \in [0..(k + 1) -> S]
    BY <2>2, <2>4
  <2>6. g[k + 1] = step[<<k + 1, f[k]>>] /\ \A i \in 0..k : g[i] = f[i]
    BY <2>2
  <2> HIDE DEF g
  <2>7. Runs(k + 1, g)
    <3>1. g[0] = base
      BY <2>1, <2>2, <2>6
    <3>2. ASSUME NEW i \in 1..(k + 1)
          PROVE  g[i] = step[<<i, g[i - 1]>>]
      <4>1. CASE i = k + 1
        <5>1. i - 1 = k /\ g[k] = f[k]
          BY <2>2, <2>6, <4>1
        <5>2. QED
          BY <2>6, <4>1, <5>1
      <4>2. CASE i # k + 1
        <5>1. i \in 1..k /\ i \in 0..k /\ i - 1 \in 0..k
          BY <2>2, <4>2
        <5>2. QED
          BY <2>1, <2>6, <5>1
      <4>3. QED
        BY <4>1, <4>2
    <3>3. QED
      BY <3>1, <3>2
  <2>8. QED
    BY <2>2, <2>5, <2>7
<1> HIDE DEF K
<1>3. 0..n \subseteq K
  BY <1>1, <1>2, UpTo
<1>4. PICK f \in [0..n -> S] : Runs(n, f)
  BY <1>3 DEF K
<1>5. QED
  BY <1>4 DEF LoopRun

-----------------------------------------------------------------------------
(* Line buffers *)

\* The string that starts in the middle of a string ends where that one does.
LEMMA StringEndIs ==
  ASSUME NEW buffer, NEW z, Holds(buffer, z), NEW from \in 0..z
  PROVE  StringEnd(buffer, from) = z
<1> DEFINE S == {i \in from..Capacity : buffer[i] = Null}
<1>1. Capacity \in Nat /\ z \in 0..Capacity
  BY CapacityAssumption DEF Holds
<1>2. z \in S /\ S \in SUBSET Int
  BY <1>1 DEF Holds
<1>3. ASSUME NEW x \in S
      PROVE  z <= x
  <2>1. x \in Int /\ 0 <= x /\ buffer[x] = Null
    BY <1>1
  <2>2. ~(x \in 0..(z - 1))
    BY <2>1 DEF Holds
  <2>3. QED
    BY <1>1, <2>1, <2>2
<1> HIDE DEF S
<1>4. Min(S) = z
  BY <1>2, <1>3, MinIs
<1>5. QED
  BY <1>4 DEF StringEnd, S

\* The bytes of the string.
LEMMA TextIs ==
  ASSUME NEW buffer \in Buffer, NEW z, Holds(buffer, z)
  PROVE  /\ Text(buffer) \in Seq(Byte) /\ Len(Text(buffer)) = z
         /\ \A i \in 1..z : Text(buffer)[i] = buffer[i - 1]
<1>1. StringEnd(buffer, 0) = z /\ z \in Nat /\ z <= Capacity /\ Capacity \in Nat
  BY StringEndIs, CapacityAssumption DEF Holds
<1>2. Text(buffer) = [i \in 1..z |-> buffer[i - 1]]
  BY <1>1 DEF Text
<1>3. \A i \in 1..z : buffer[i - 1] \in Byte
  BY <1>1 DEF Buffer
<1>4. QED
  BY <1>1, <1>2, <1>3

\* read appends to the string.
LEMMA StoredIs ==
  ASSUME NEW buffer \in Buffer, NEW z, Holds(buffer, z),
         NEW bytes \in Seq(Byte), z + Len(bytes) <= Capacity,
         \A i \in DOMAIN bytes : bytes[i] # Null
  PROVE  LET result == Stored(buffer, z, bytes) IN
         /\ result \in Buffer
         /\ Holds(result, z + Len(bytes))
         /\ \A i \in 0..(z - 1) : result[i] = buffer[i]
         /\ \A i \in 1..Len(bytes) : result[z + i - 1] = bytes[i]
<1> DEFINE result == Stored(buffer, z, bytes)
<1>1. z \in Nat /\ z <= Capacity /\ Capacity \in Nat /\ Len(bytes) \in Nat
  BY CapacityAssumption DEF Holds
<1>2. /\ \A i \in 0..Capacity :
           result[i] = IF i \in z..(z + Len(bytes) - 1) THEN bytes[i - z + 1]
                       ELSE IF i = z + Len(bytes) THEN Null
                       ELSE buffer[i]
      /\ DOMAIN result = 0..Capacity
      /\ result = [i \in 0..Capacity |-> result[i]]
  BY DEF Stored
<1> HIDE DEF result
<1>3. \A i \in z..(z + Len(bytes) - 1) : i - z + 1 \in DOMAIN bytes /\ bytes[i - z + 1] \in Byte
  BY <1>1
<1>4. \A i \in 0..Capacity : result[i] \in Byte
  BY <1>2, <1>3 DEF Buffer, Byte
<1>5. result \in Buffer
  BY <1>2, <1>4 DEF Buffer
<1>6. \A i \in 0..(z - 1) : result[i] = buffer[i]
  BY <1>1, <1>2
<1>7. \A i \in 1..Len(bytes) : result[z + i - 1] = bytes[i]
  <2> TAKE i \in 1..Len(bytes)
  <2>1. z + i - 1 \in z..(z + Len(bytes) - 1) /\ z + i - 1 \in 0..Capacity /\ (z + i - 1) - z + 1 = i
    BY <1>1
  <2>2. QED
    BY <1>2, <2>1
<1>8. result[z + Len(bytes)] = Null
  BY <1>1, <1>2
<1>9. ASSUME NEW i \in 0..(z + Len(bytes) - 1)
      PROVE  result[i] # Null
  <2>1. CASE i < z
    BY <1>1, <1>6, <2>1 DEF Holds
  <2>2. CASE i >= z
    BY <1>1, <1>2, <1>3, <2>2
  <2>3. QED
    BY <1>1, <2>1, <2>2
<1>10. QED
  BY <1>1, <1>5, <1>6, <1>7, <1>8, <1>9 DEF Holds, result

\* Taking a message out of the buffer moves the rest of the string to its start.
LEMMA RemainingIs ==
  ASSUME NEW buffer \in Buffer, NEW z, Holds(buffer, z), NEW end \in 0..z
  PROVE  LET result == Remaining(buffer, end) IN
         /\ result \in Buffer
         /\ Holds(result, z - end)
         /\ \A i \in 0..(z - end - 1) : result[i] = buffer[end + i]
<1> DEFINE result == Remaining(buffer, end)
<1>1. z \in Nat /\ z <= Capacity /\ Capacity \in Nat /\ end \in Nat /\ end <= z
  BY CapacityAssumption DEF Holds
<1>2. StringEnd(buffer, end) = z
  BY StringEndIs
<1>3. /\ \A i \in 0..Capacity : result[i] = IF i <= z - end THEN buffer[end + i] ELSE buffer[i]
      /\ result = [i \in 0..Capacity |-> result[i]]
  BY <1>2 DEF Remaining
<1> HIDE DEF result
<1>4. \A i \in 0..(z - end) : end + i \in 0..Capacity /\ result[i] = buffer[end + i]
  BY <1>1, <1>3
<1>5. \A i \in 0..Capacity : result[i] \in Byte
  BY <1>1, <1>3 DEF Buffer
<1>6. result \in Buffer
  BY <1>3, <1>5 DEF Buffer
<1>7. result[z - end] = Null
  BY <1>1, <1>4 DEF Holds
<1>8. \A i \in 0..(z - end - 1) : result[i] # Null
  BY <1>1, <1>4 DEF Holds
<1>9. QED
  BY <1>1, <1>4, <1>6, <1>7, <1>8 DEF Holds, result

\* The search for a newline, begun in the middle of the string.
LEMMA NewlinesAre ==
  ASSUME NEW buffer, NEW z, Holds(buffer, z), NEW start \in 0..z
  PROVE  NewlinesFrom(buffer, start) = {i \in start..(z - 1) : buffer[i] = Newline}
BY StringEndIs DEF NewlinesFrom

LEMMA NoMessageEnd ==
  ASSUME NEW buffer, NEW z, Holds(buffer, z), NEW start \in 0..z
  PROVE  FindMessageEnd(buffer, start) = -1 <=> \A i \in start..(z - 1) : buffer[i] # Newline
<1> DEFINE S == NewlinesFrom(buffer, start)
<1>1. S = {i \in start..(z - 1) : buffer[i] = Newline}
  BY NewlinesAre
<1>2. S = {} <=> \A i \in start..(z - 1) : buffer[i] # Newline
  BY <1>1
<1>3. ASSUME S # {}
      PROVE  Min(S) # -1
  <2>1. S \in SUBSET Nat
    BY <1>1
  <2>2. \E m \in S : \A x \in S : m <= x
    BY <1>3, <2>1, LeastNumber
  <2>3. QED
    BY <2>1, <2>2, MinIs
<1> HIDE DEF S
<1>4. FindMessageEnd(buffer, start) = IF S = {} THEN -1 ELSE Min(S)
  BY DEF FindMessageEnd, S
<1>5. QED
  BY <1>2, <1>3, <1>4

LEMMA MessageEndIs ==
  ASSUME NEW buffer, NEW z, Holds(buffer, z), NEW start \in 0..z,
         NEW e \in start..(z - 1), buffer[e] = Newline,
         \A i \in start..(e - 1) : buffer[i] # Newline
  PROVE  FindMessageEnd(buffer, start) = e
<1> DEFINE S == NewlinesFrom(buffer, start)
<1>1. S = {i \in start..(z - 1) : buffer[i] = Newline} /\ z \in Nat /\ start \in Nat
  BY NewlinesAre, CapacityAssumption DEF Holds
<1>2. e \in S /\ S \in SUBSET Int
  BY <1>1
<1>3. ASSUME NEW x \in S
      PROVE  e <= x
  <2>1. x \in start..(z - 1) /\ buffer[x] = Newline
    BY <1>1
  <2>2. ~(x \in start..(e - 1))
    BY <2>1
  <2>3. QED
    BY <1>1, <2>1, <2>2
<1> HIDE DEF S
<1>4. Min(S) = e /\ S # {}
  BY <1>2, <1>3, MinIs
<1>5. QED
  BY <1>4 DEF FindMessageEnd, S

\* The message is the string's first bytes.
LEMMA FirstMessageIs ==
  ASSUME NEW buffer \in Buffer, NEW z, Holds(buffer, z), NEW end \in 1..z
  PROVE  /\ FirstMessage(buffer, end) \in Seq(Byte) /\ Len(FirstMessage(buffer, end)) = end
         /\ \A i \in 1..end : FirstMessage(buffer, end)[i] = buffer[i - 1]
<1>1. z \in Nat /\ z <= Capacity /\ Capacity \in Nat /\ end \in Nat
  BY CapacityAssumption DEF Holds
<1>2. StringEnd(buffer, 0) = z
  BY <1>1, StringEndIs
<1>3. Min({end, z}) = end
  BY <1>1, MinOfTwo
<1>4. FirstMessage(buffer, end) = [i \in 1..end |-> buffer[i - 1]]
  BY <1>2, <1>3 DEF FirstMessage
<1>5. \A i \in 1..end : buffer[i - 1] \in Byte
  BY <1>1 DEF Buffer
<1>6. QED
  BY <1>1, <1>4, <1>5

-----------------------------------------------------------------------------
(* Whatever the buffer holds, as long as its last byte is null: what ends   *)
(* at a null byte ends inside the buffer.                                  *)

NullEnded(buffer) == buffer \in Buffer /\ buffer[Capacity] = Null

LEMMA StringEndInside ==
  ASSUME NEW buffer, NullEnded(buffer), NEW from \in 0..Capacity
  PROVE  StringEnd(buffer, from) \in from..Capacity
<1> DEFINE S == {i \in from..Capacity : buffer[i] = Null}
<1>1. S \in SUBSET Nat /\ S # {}
  BY CapacityAssumption DEF NullEnded
<1>2. PICK n \in S : \A m \in S : n <= m
  BY <1>1, LeastNumber
<1>3. n \in from..Capacity /\ S \in SUBSET Int
  BY <1>1
<1> HIDE DEF S
<1>4. Min(S) = n
  BY <1>2, <1>3, MinIs
<1>5. QED
  BY <1>3, <1>4 DEF StringEnd, S

LEMMA StoredInside ==
  ASSUME NEW buffer, NullEnded(buffer), NEW offset \in 0..Capacity,
         NEW bytes \in Seq(Byte), offset + Len(bytes) <= Capacity
  PROVE  NullEnded(Stored(buffer, offset, bytes))
<1>1. Capacity \in Nat /\ Len(bytes) \in Nat /\ buffer \in [0..Capacity -> Byte] /\ buffer[Capacity] = Null
  BY CapacityAssumption DEF NullEnded, Buffer
<1>2. \A i \in offset..(offset + Len(bytes) - 1) : bytes[i - offset + 1] \in Byte
  <2> TAKE i \in offset..(offset + Len(bytes) - 1)
  <2>1. i - offset + 1 \in 1..Len(bytes)
    BY <1>1
  <2>2. QED
    BY <2>1
<1>3. Stored(buffer, offset, bytes) \in Buffer
  BY <1>1, <1>2 DEF Stored, Buffer, Byte
<1>4. Stored(buffer, offset, bytes)[Capacity] = Null
  BY <1>1 DEF Stored
<1>5. QED
  BY <1>3, <1>4 DEF NullEnded

LEMMA MessageEndInside ==
  ASSUME NEW buffer, NullEnded(buffer), NEW start \in 0..Capacity, FindMessageEnd(buffer, start) # -1
  PROVE  FindMessageEnd(buffer, start) \in start..(Capacity - 1)
<1> DEFINE S == NewlinesFrom(buffer, start)
<1>1. Capacity \in Nat /\ StringEnd(buffer, start) \in start..Capacity
  BY StringEndInside, CapacityAssumption
<1>2. S \in SUBSET (start..(Capacity - 1))
  BY <1>1 DEF NewlinesFrom
<1> HIDE DEF S
<1>3. S # {} /\ FindMessageEnd(buffer, start) = Min(S)
  BY DEF FindMessageEnd, S
<1>4. S \in SUBSET Nat
  BY <1>1, <1>2
<1>5. PICK n \in S : \A m \in S : n <= m
  BY <1>3, <1>4, LeastNumber
<1>6. Min(S) = n
  BY <1>4, <1>5, MinIs
<1>7. QED
  BY <1>2, <1>3, <1>6

LEMMA RemainingInside ==
  ASSUME NEW buffer, NullEnded(buffer), NEW end \in 1..Capacity
  PROVE  NullEnded(Remaining(buffer, end))
<1>1. Capacity \in Nat /\ buffer \in [0..Capacity -> Byte] /\ buffer[Capacity] = Null
  BY CapacityAssumption DEF NullEnded, Buffer
<1>2. PICK z \in end..Capacity : z = StringEnd(buffer, end)
  BY <1>1, StringEndInside
<1>3. Remaining(buffer, end) = [i \in 0..Capacity |-> IF i <= z - end THEN buffer[end + i] ELSE buffer[i]]
  BY <1>2 DEF Remaining
<1>4. \A i \in 0..Capacity : i <= z - end => end + i \in 0..Capacity
  BY <1>1, <1>2
<1>5. Remaining(buffer, end) \in Buffer
  BY <1>1, <1>3, <1>4 DEF Buffer
<1>6. Remaining(buffer, end)[Capacity] = Null
  BY <1>1, <1>2, <1>3
<1>7. QED
  BY <1>5, <1>6 DEF NullEnded

LEMMA FirstMessageInside ==
  ASSUME NEW buffer, NullEnded(buffer), NEW end \in 0..Capacity
  PROVE  FirstMessage(buffer, end) \in Seq(Byte)
<1>1. Capacity \in Nat /\ buffer \in [0..Capacity -> Byte]
  BY CapacityAssumption DEF NullEnded, Buffer
<1>2. PICK z \in 0..Capacity : z = StringEnd(buffer, 0)
  BY <1>1, StringEndInside
<1>3. PICK n \in 0..Capacity : n = Min({end, z})
  BY <1>1, MinOfTwo
<1>4. FirstMessage(buffer, end) = [i \in 1..n |-> buffer[i - 1]]
  BY <1>2, <1>3 DEF FirstMessage
<1>5. \A i \in 1..n : buffer[i - 1] \in Byte
  BY <1>1
<1>6. QED
  BY <1>1, <1>4, <1>5

-----------------------------------------------------------------------------
(* Bytes that are lines put together *)

\* A line has its newline at its end, and no null byte.
LEMMA LineIs ==
  ASSUME NEW line \in Seq(Byte), IsLine(line)
  PROVE  /\ Len(line) \in Nat \ {0} /\ line[Len(line)] = Newline
         /\ \A i \in 1..Len(line) : line[i] # Null /\ (line[i] = Newline <=> i = Len(line))
<1>1. Len(line) \in Nat /\ DOMAIN line = 1..Len(line) /\ line # <<>>
  BY DEF IsLine
<1>2. Len(line) # 0
  BY <1>1
<1>3. \A i \in 1..Len(line) : IF i = Len(line) THEN line[i] = Newline ELSE line[i] \in Letter
  BY <1>1 DEF IsLine
<1>4. \A i \in 1..Len(line) : line[i] # Null /\ (line[i] = Newline <=> i = Len(line))
  <2> TAKE i \in 1..Len(line)
  <2>1. CASE i = Len(line)
    BY <1>3, <2>1, BytesAssumption
  <2>2. CASE i # Len(line)
    BY <1>3, <2>2, LetterAssumption
  <2>3. QED
    BY <2>1, <2>2
<1>5. Len(line) \in Nat \ {0} /\ Len(line) \in 1..Len(line)
  BY <1>1, <1>2
<1>6. line[Len(line)] = Newline
  BY <1>3, <1>5
<1>7. QED
  BY <1>4, <1>5, <1>6

\* The lines begin behind these places in the bytes.
JoinedAt(bytes, lines, cut) ==
  /\ cut \in [1..Len(lines) + 1 -> Nat]
  /\ cut[1] = 0 /\ cut[Len(lines) + 1] = Len(bytes)
  /\ \A j \in 1..Len(lines) :
       /\ cut[j + 1] = cut[j] + Len(lines[j])
       /\ \A i \in 1..Len(lines[j]) : bytes[cut[j] + i] = lines[j][i]
  /\ \A j, k \in 1..Len(lines) + 1 : j <= k => cut[j] <= cut[k]

Joined(bytes, lines) == \E cut : JoinedAt(bytes, lines, cut)

LEMMA JoinedEmpty ==
  ASSUME NEW bytes \in Seq(Byte)
  PROVE  Joined(bytes, <<>>) <=> bytes = <<>>
<1>1. ASSUME Joined(bytes, <<>>)
      PROVE  bytes = <<>>
  <2>1. PICK cut : JoinedAt(bytes, <<>>, cut)
    BY <1>1 DEF Joined
  <2>2. Len(bytes) = 0
    BY <2>1 DEF JoinedAt
  <2>3. QED
    BY <2>2
<1>2. ASSUME bytes = <<>>
      PROVE  Joined(bytes, <<>>)
  <2> DEFINE cut == [j \in 1..1 |-> 0]
  <2>1. JoinedAt(<<>>, <<>>, cut)
    BY DEF JoinedAt
  <2>2. QED
    BY <1>2, <2>1 DEF Joined
<1>3. QED
  BY <1>1, <1>2

\* The first line is at the beginning.
LEMMA JoinedFirst ==
  ASSUME NEW bytes \in Seq(Byte), NEW lines \in Seq(Seq(Byte)), Joined(bytes, lines), lines # <<>>
  PROVE  /\ Len(lines[1]) \in Nat /\ Len(lines[1]) <= Len(bytes)
         /\ \A i \in 1..Len(lines[1]) : bytes[i] = lines[1][i]
<1>1. PICK cut : JoinedAt(bytes, lines, cut)
  BY DEF Joined
<1>2. Len(lines) \in Nat /\ Len(lines) # 0 /\ lines[1] \in Seq(Byte) /\ Len(lines[1]) \in Nat /\ Len(bytes) \in Nat
  OBVIOUS
<1>3. /\ cut[1] = 0 /\ cut[2] = cut[1] + Len(lines[1])
      /\ \A i \in 1..Len(lines[1]) : bytes[cut[1] + i] = lines[1][i]
  <2>1. 1 \in 1..Len(lines) /\ 1 + 1 = 2
    BY <1>2
  <2>2. QED
    BY <1>1, <2>1 DEF JoinedAt
<1>4. cut[2] <= Len(bytes)
  <2>1. 2 \in 1..Len(lines) + 1 /\ Len(lines) + 1 \in 1..Len(lines) + 1 /\ 2 <= Len(lines) + 1
    BY <1>2
  <2>2. cut[2] <= cut[Len(lines) + 1]
    BY <1>1, <2>1 DEF JoinedAt
  <2>3. QED
    BY <1>1, <2>2 DEF JoinedAt
<1>5. \A i \in 1..Len(lines[1]) : 0 + i = i
  BY <1>2
<1>6. QED
  BY <1>2, <1>3, <1>4, <1>5

\* What is behind the first line are the other lines.
LEMMA JoinedRest ==
  ASSUME NEW bytes \in Seq(Byte), NEW lines \in Seq(Seq(Byte)), Joined(bytes, lines), lines # <<>>
  PROVE  Joined(SubSeq(bytes, Len(lines[1]) + 1, Len(bytes)), Tail(lines))
<1>1. PICK cut : JoinedAt(bytes, lines, cut)
  BY DEF Joined
<1>2. PICK size, n, total : size = Len(lines[1]) /\ n = Len(lines) /\ total = Len(bytes)
  OBVIOUS
<1>3. /\ n \in Nat \ {0} /\ size \in Nat /\ total \in Nat /\ size <= total
      /\ \A j \in 1..n : lines[j] \in Seq(Byte) /\ Len(lines[j]) \in Nat
  <2>1. n \in Nat \ {0} /\ total \in Nat /\ \A j \in 1..n : lines[j] \in Seq(Byte)
    BY <1>2
  <2>2. QED
    BY <1>2, <2>1, JoinedFirst
<1>4. /\ cut \in [1..n + 1 -> Nat] /\ cut[1] = 0 /\ cut[n + 1] = total
      /\ \A j \in 1..n : /\ cut[j + 1] = cut[j] + Len(lines[j])
                         /\ \A i \in 1..Len(lines[j]) : bytes[cut[j] + i] = lines[j][i]
      /\ \A j, k \in 1..n + 1 : j <= k => cut[j] <= cut[k]
  BY <1>1, <1>2 DEF JoinedAt
<1>5. cut[2] = size
  <2>1. 1 \in 1..n /\ 1 + 1 = 2
    BY <1>3
  <2>2. cut[1 + 1] = cut[1] + Len(lines[1])
    BY <1>4, <2>1
  <2>3. QED
    BY <1>2, <1>3, <1>4, <2>1, <2>2
<1>6. PICK rest, b : rest = [j \in 1..n |-> cut[j + 1] - size] /\ b = SubSeq(bytes, size + 1, total)
  OBVIOUS
<1>7. \A j \in 1..n : /\ rest[j] = cut[j + 1] - size /\ rest[j] \in Nat
                      /\ cut[j + 1] \in Nat /\ size <= cut[j + 1] /\ cut[j + 1] <= total
  <2> TAKE j \in 1..n
  <2>1. 2 \in 1..n + 1 /\ j + 1 \in 1..n + 1 /\ n + 1 \in 1..n + 1 /\ 2 <= j + 1 /\ j + 1 <= n + 1
    BY <1>3
  <2>2. cut[2] <= cut[j + 1] /\ cut[j + 1] <= cut[n + 1] /\ cut[j + 1] \in Nat
    BY <1>4, <2>1
  <2>3. size <= cut[j + 1] /\ cut[j + 1] <= total
    BY <1>4, <1>5, <2>2
  <2>4. rest[j] = cut[j + 1] - size
    BY <1>6
  <2>5. rest[j] \in Nat
    BY <1>3, <2>2, <2>3, <2>4
  <2>6. QED
    BY <2>2, <2>3, <2>4, <2>5
<1>8. /\ b \in Seq(Byte) /\ Len(b) = total - size
      /\ \A i \in 1..total - size : b[i] = bytes[i + size]
  <2>1. PICK from \in 1..total + 1 : from = size + 1
    BY <1>3
  <2>2. \A i \in from..total : bytes[i] \in Byte
    BY <1>2, <1>3, <2>1
  <2>3. /\ SubSeq(bytes, from, total) \in Seq(Byte)
        /\ Len(SubSeq(bytes, from, total)) = IF from <= total THEN total - from + 1 ELSE 0
        /\ \A i \in 1..total - from + 1 : SubSeq(bytes, from, total)[i] = bytes[from + i - 1]
    BY <1>3, <2>2, SubSeqProperties
  <2>4. \A i \in 1..total - size : i \in 1..total - from + 1 /\ from + i - 1 = i + size
    BY <1>3, <2>1
  <2>5. b = SubSeq(bytes, from, total)
    BY <1>6, <2>1
  <2>6. Len(b) = total - size
    BY <1>3, <2>1, <2>3, <2>5
  <2>7. QED
    BY <2>3, <2>4, <2>5, <2>6
<1>9. Len(Tail(lines)) = n - 1 /\ \A j \in 1..n - 1 : Tail(lines)[j] = lines[j + 1]
  BY <1>2, <1>3
<1>10. JoinedAt(b, Tail(lines), rest)
  <2>1. rest \in [1..(n - 1) + 1 -> Nat] /\ rest[1] = 0 /\ rest[(n - 1) + 1] = Len(b)
    <3>1. (n - 1) + 1 = n /\ 1 \in 1..n /\ n \in 1..n /\ 1 + 1 = 2
      BY <1>3
    <3>2. rest[1] = 0
      BY <1>3, <1>5, <1>7, <3>1
    <3>3. QED
      BY <1>4, <1>6, <1>7, <1>8, <3>1, <3>2
  <2>2. ASSUME NEW j \in 1..n - 1
        PROVE  /\ rest[j + 1] = rest[j] + Len(lines[j + 1])
               /\ \A i \in 1..Len(lines[j + 1]) : b[rest[j] + i] = lines[j + 1][i]
    <3>1. j \in 1..n /\ j + 1 \in 1..n
      BY <1>3
    <3>2. /\ cut[(j + 1) + 1] = cut[j + 1] + Len(lines[j + 1]) /\ Len(lines[j + 1]) \in Nat
          /\ \A i \in 1..Len(lines[j + 1]) : bytes[cut[j + 1] + i] = lines[j + 1][i]
      BY <1>3, <1>4, <3>1
    <3>3. rest[j + 1] = cut[(j + 1) + 1] - size /\ rest[j] = cut[j + 1] - size
          /\ cut[j + 1] \in Nat /\ size <= cut[j + 1] /\ cut[(j + 1) + 1] <= total
      BY <1>7, <3>1
    <3>4. rest[j + 1] = rest[j] + Len(lines[j + 1])
      BY <1>3, <3>2, <3>3
    <3>5. ASSUME NEW i \in 1..Len(lines[j + 1])
          PROVE  b[rest[j] + i] = lines[j + 1][i]
      <4>1. PICK c, l : c = cut[j + 1] /\ l = Len(lines[j + 1])
        OBVIOUS
      <4>2. c \in Nat /\ l \in Nat /\ size <= c /\ c + l <= total /\ i \in 1..l /\ rest[j] = c - size
        BY <3>2, <3>3, <4>1
      <4>3. rest[j] + i \in 1..total - size /\ (rest[j] + i) + size = c + i
        BY <1>3, <4>2
      <4>4. b[rest[j] + i] = bytes[c + i]
        BY <1>8, <4>3
      <4>5. QED
        BY <3>2, <4>1, <4>4
    <3>6. QED
      BY <3>4, <3>5
  <2>3. \A j, k \in 1..(n - 1) + 1 : j <= k => rest[j] <= rest[k]
    <3> TAKE j, k \in 1..(n - 1) + 1
    <3> HAVE j <= k
    <3>1. j \in 1..n /\ k \in 1..n /\ j + 1 \in 1..n + 1 /\ k + 1 \in 1..n + 1 /\ j + 1 <= k + 1
      BY <1>3
    <3>2. cut[j + 1] <= cut[k + 1]
      BY <1>4, <3>1
    <3>3. QED
      BY <1>3, <1>7, <3>1, <3>2, SMTT(30)
  <2>4. QED
    BY <1>9, <2>1, <2>2, <2>3 DEF JoinedAt
<1>11. QED
  BY <1>2, <1>6, <1>10 DEF Joined

\* A line is written behind the others.
LEMMA JoinedMore ==
  ASSUME NEW bytes \in Seq(Byte), NEW lines \in Seq(Seq(Byte)), Joined(bytes, lines), NEW line \in Seq(Byte)
  PROVE  Joined(bytes \o line, Append(lines, line))
<1>1. PICK cut : JoinedAt(bytes, lines, cut)
  BY DEF Joined
<1>2. PICK size, n, total, b, all :
        size = Len(line) /\ n = Len(lines) /\ total = Len(bytes) /\ b = bytes \o line /\ all = Append(lines, line)
  OBVIOUS
<1>3. /\ n \in Nat /\ size \in Nat /\ total \in Nat
      /\ \A j \in 1..n : lines[j] \in Seq(Byte) /\ Len(lines[j]) \in Nat
  <2>1. n \in Nat /\ size \in Nat /\ total \in Nat /\ \A j \in 1..n : lines[j] \in Seq(Byte)
    BY <1>2
  <2>2. QED
    BY <2>1
<1>4. /\ cut \in [1..n + 1 -> Nat] /\ cut[1] = 0 /\ cut[n + 1] = total
      /\ \A j \in 1..n : /\ cut[j + 1] = cut[j] + Len(lines[j])
                         /\ \A i \in 1..Len(lines[j]) : bytes[cut[j] + i] = lines[j][i]
      /\ \A j, k \in 1..n + 1 : j <= k => cut[j] <= cut[k]
  BY <1>1, <1>2 DEF JoinedAt
<1>5. PICK more : more = [j \in 1..n + 2 |-> IF j = n + 2 THEN total + size ELSE cut[j]]
  OBVIOUS
<1>6. more[n + 2] = total + size /\ \A j \in 1..n + 1 : more[j] = cut[j] /\ more[j] \in Nat /\ more[j] <= total
  <2>1. more[n + 2] = total + size
    BY <1>3, <1>5
  <2>2. ASSUME NEW j \in 1..n + 1
        PROVE  more[j] = cut[j] /\ more[j] \in Nat /\ more[j] <= total
    <3>1. j \in 1..n + 2 /\ j # n + 2 /\ n + 1 \in 1..n + 1 /\ j <= n + 1
      BY <1>3
    <3>2. QED
      BY <1>4, <1>5, <3>1
  <2>3. QED
    BY <2>1, <2>2
<1>7. \A j \in 1..n + 2 : j = n + 2 \/ j \in 1..n + 1
  BY <1>3
<1>8. more \in [1..(n + 1) + 1 -> Nat] /\ more[1] = 0 /\ more[(n + 1) + 1] = total + size
  <2>1. (n + 1) + 1 = n + 2 /\ 1 \in 1..n + 1 /\ total + size \in Nat
    BY <1>3
  <2>2. \A j \in 1..n + 2 : more[j] \in Nat
    BY <1>6, <1>7, <2>1
  <2>3. QED
    BY <1>4, <1>5, <1>6, <2>1, <2>2
<1>9. /\ Len(b) = total + size
      /\ \A i \in 1..total : b[i] = bytes[i]
      /\ \A i \in 1..size : b[total + i] = line[i]
  <2>1. Len(b) = total + size /\ \A i \in 1..total : b[i] = bytes[i]
    BY <1>2, <1>3
  <2>2. ASSUME NEW i \in 1..size
        PROVE  b[total + i] = line[i]
    <3>1. total + i \in 1..total + size /\ ~(total + i <= total) /\ (total + i) - total = i
      BY <1>3
    <3>2. QED
      BY <1>2, <1>3, <3>1
  <2>3. QED
    BY <2>1, <2>2
<1>10. Len(all) = n + 1 /\ all[n + 1] = line /\ \A j \in 1..n : all[j] = lines[j]
  BY <1>2, <1>3
<1>11. ASSUME NEW j \in 1..n + 1
       PROVE  /\ more[j + 1] = more[j] + Len(all[j])
              /\ \A i \in 1..Len(all[j]) : b[more[j] + i] = all[j][i]
  <2>1. CASE j = n + 1
    <3>1. more[j] = total /\ all[j] = line /\ j + 1 = n + 2
      BY <1>3, <1>4, <1>6, <1>10, <2>1
    <3>2. QED
      BY <1>2, <1>6, <1>9, <3>1
  <2>2. CASE j # n + 1
    <3>1. j \in 1..n /\ j + 1 \in 1..n + 1 /\ all[j] = lines[j]
      BY <1>3, <1>10, <2>2
    <3>2. /\ cut[j + 1] = cut[j] + Len(lines[j]) /\ Len(lines[j]) \in Nat
          /\ \A i \in 1..Len(lines[j]) : bytes[cut[j] + i] = lines[j][i]
      BY <1>3, <1>4, <3>1
    <3>3. more[j] = cut[j] /\ more[j + 1] = cut[j + 1] /\ cut[j] \in Nat /\ cut[j + 1] <= total
      BY <1>4, <1>6, <3>1
    <3>4. ASSUME NEW i \in 1..Len(lines[j])
          PROVE  b[cut[j] + i] = lines[j][i]
      <4>1. cut[j] + i \in 1..total
        <5>1. PICK c, l : c = cut[j] /\ l = Len(lines[j])
          OBVIOUS
        <5>2. c \in Nat /\ l \in Nat /\ c + l <= total /\ i \in 1..l
          BY <3>2, <3>3, <5>1
        <5>3. c + i \in 1..total
          BY <1>3, <5>2
        <5>4. QED
          BY <5>1, <5>3
      <4>2. QED
        BY <1>9, <3>2, <4>1
    <3>5. QED
      BY <3>1, <3>2, <3>3, <3>4
  <2>3. QED
    BY <2>1, <2>2
<1>12. ASSUME NEW j \in 1..(n + 1) + 1, NEW k \in 1..(n + 1) + 1, j <= k
       PROVE  more[j] <= more[k]
  <2>1. (n + 1) + 1 = n + 2
    BY <1>3
  <2>2. CASE k = n + 2 /\ j # n + 2
    <3>1. j \in 1..n + 1
      BY <1>7, <2>1, <2>2
    <3>2. more[j] \in Nat /\ more[j] <= total /\ more[k] = total + size
      BY <1>6, <2>2, <3>1
    <3>3. QED
      BY <1>3, <3>2
  <2>3. CASE k = n + 2 /\ j = n + 2
    BY <1>3, <1>6, <2>3
  <2>4. CASE k # n + 2
    <3>1. k \in 1..n + 1 /\ j \in 1..n + 1
      BY <1>3, <1>12, <2>1, <2>4
    <3>2. cut[j] <= cut[k]
      BY <1>4, <1>12, <3>1
    <3>3. QED
      BY <1>6, <3>1, <3>2
  <2>5. QED
    BY <2>2, <2>3, <2>4
<1>13. JoinedAt(b, all, more)
  BY <1>8, <1>9, <1>10, <1>11, <1>12 DEF JoinedAt
<1>14. QED
  BY <1>2, <1>13 DEF Joined

\* A read appends to the string in the buffer what it takes from the rest.
LEMMA StoredJoined ==
  ASSUME NEW buffer \in Buffer, NEW z, Holds(buffer, z), NEW w \in Seq(Byte),
         NEW n \in 1..Len(w), z + n <= Capacity, \A i \in 1..Len(w) : w[i] # Null
  PROVE  LET result == Stored(buffer, z, SubSeq(w, 1, n)) IN
         /\ result \in Buffer
         /\ Holds(result, z + n)
         /\ \A i \in 0..(z - 1) : result[i] = buffer[i]
         /\ Text(result) \o SubSeq(w, n + 1, Len(w)) = Text(buffer) \o w
<1>1. PICK bytes, rest, result :
        /\ bytes = SubSeq(w, 1, n) /\ rest = SubSeq(w, n + 1, Len(w))
        /\ result = Stored(buffer, z, bytes)
  OBVIOUS
<1>2. PICK total : total = Len(w)
  OBVIOUS
<1>3. z \in Nat /\ n \in Nat /\ total \in Nat /\ n <= total /\ Capacity \in Nat
  BY <1>2, CapacityAssumption DEF Holds
<1>4. /\ bytes \in Seq(Byte) /\ Len(bytes) = n
      /\ \A i \in 1..n : bytes[i] = w[i]
  <2>1. \A i \in 1..n : w[i] \in Byte
    BY <1>2, <1>3
  <2>2. /\ SubSeq(w, 1, n) \in Seq(Byte)
        /\ Len(SubSeq(w, 1, n)) = IF 1 <= n THEN n - 1 + 1 ELSE 0
        /\ \A i \in 1..n - 1 + 1 : SubSeq(w, 1, n)[i] = w[1 + i - 1]
    BY <1>3, <2>1, SubSeqProperties
  <2>3. n - 1 + 1 = n /\ 1 <= n /\ \A i \in 1..n : 1 + i - 1 = i
    BY <1>3
  <2>4. QED
    BY <1>1, <2>2, <2>3
<1>5. /\ rest \in Seq(Byte) /\ Len(rest) = total - n
      /\ \A i \in 1..total - n : rest[i] = w[n + i]
  <2>1. PICK from \in 1..total + 1 : from = n + 1
    BY <1>3
  <2>2. \A i \in from..total : w[i] \in Byte
    BY <1>2, <1>3, <2>1
  <2>3. /\ SubSeq(w, from, total) \in Seq(Byte)
        /\ Len(SubSeq(w, from, total)) = IF from <= total THEN total - from + 1 ELSE 0
        /\ \A i \in 1..total - from + 1 : SubSeq(w, from, total)[i] = w[from + i - 1]
    BY <1>3, <2>2, SubSeqProperties
  <2>4. \A i \in 1..total - n : i \in 1..total - from + 1 /\ from + i - 1 = n + i
    BY <1>3, <2>1
  <2>5. rest = SubSeq(w, from, total)
    BY <1>1, <1>2, <2>1
  <2>6. Len(rest) = total - n
    BY <1>3, <2>1, <2>3, <2>5
  <2>7. QED
    BY <2>3, <2>4, <2>5, <2>6
<1>6. \A i \in DOMAIN bytes : bytes[i] # Null
  BY <1>2, <1>3, <1>4
<1>7. /\ result \in Buffer
      /\ Holds(result, z + n)
      /\ \A i \in 0..(z - 1) : result[i] = buffer[i]
      /\ \A i \in 1..n : result[z + i - 1] = bytes[i]
  <2>1. z + Len(bytes) <= Capacity
    BY <1>4
  <2>2. LET stored == Stored(buffer, z, bytes) IN
        /\ stored \in Buffer
        /\ Holds(stored, z + Len(bytes))
        /\ \A i \in 0..(z - 1) : stored[i] = buffer[i]
        /\ \A i \in 1..Len(bytes) : stored[z + i - 1] = bytes[i]
    BY <1>4, <1>6, <2>1, StoredIs
  <2>3. QED
    BY <1>1, <1>4, <2>2
<1>8. PICK old, new : old = Text(buffer) /\ new = Text(result)
  OBVIOUS
<1>9. /\ old \in Seq(Byte) /\ Len(old) = z
      /\ \A i \in 1..z : old[i] = buffer[i - 1]
  BY <1>8, TextIs
<1>10. /\ new \in Seq(Byte) /\ Len(new) = z + n
       /\ \A i \in 1..z + n : new[i] = result[i - 1]
  BY <1>7, <1>8, TextIs
<1>11. /\ old \o w \in Seq(Byte) /\ Len(old \o w) = z + total
       /\ \A i \in 1..z + total : (old \o w)[i] = IF i <= z THEN old[i] ELSE w[i - z]
  BY <1>2, <1>9, ConcatProperties
<1>12. /\ new \o rest \in Seq(Byte) /\ Len(new \o rest) = (z + n) + (total - n)
       /\ \A i \in 1..(z + n) + (total - n) : (new \o rest)[i] = IF i <= z + n THEN new[i] ELSE rest[i - (z + n)]
  <2>1. /\ new \o rest \in Seq(Byte) /\ Len(new \o rest) = Len(new) + Len(rest)
        /\ \A i \in 1..Len(new) + Len(rest) :
             (new \o rest)[i] = IF i <= Len(new) THEN new[i] ELSE rest[i - Len(new)]
    BY <1>5, <1>10, ConcatProperties
  <2>2. Len(new) = z + n /\ Len(rest) = total - n
    BY <1>5, <1>10
  <2>3. QED
    BY <2>1, <2>2, Zenon
<1>13. (z + n) + (total - n) = z + total
  BY <1>3
<1>14. ASSUME NEW i \in 1..z + total
       PROVE  (new \o rest)[i] = (old \o w)[i]
  <2>1. CASE i <= z
    <3>1. i \in 1..z /\ i \in 1..z + n /\ i - 1 \in 0..(z - 1)
      BY <1>3, <2>1
    <3>2. new[i] = old[i]
      BY <1>7, <1>9, <1>10, <3>1
    <3>3. (old \o w)[i] = old[i]
      BY <1>11, <2>1
    <3>4. i <= z + n
      BY <1>3, <2>1
    <3>5. (new \o rest)[i] = new[i]
      BY <1>12, <1>13, <3>4
    <3>6. QED
      BY <3>2, <3>3, <3>5
  <2>2. CASE z < i /\ i <= z + n
    <3>1. i - z \in 1..n /\ z + (i - z) - 1 = i - 1 /\ i \in 1..z + n /\ ~(i <= z)
      BY <1>3, <2>2
    <3>2. new[i] = result[i - 1] /\ result[z + (i - z) - 1] = bytes[i - z] /\ bytes[i - z] = w[i - z]
      BY <1>4, <1>7, <1>10, <3>1
    <3>3. QED
      BY <1>11, <1>12, <1>13, <2>2, <3>1, <3>2
  <2>3. CASE z + n < i
    <3>1. i - (z + n) \in 1..total - n /\ n + (i - (z + n)) = i - z /\ ~(i <= z) /\ ~(i <= z + n)
      BY <1>3, <2>3
    <3>2. rest[i - (z + n)] = w[i - z]
      BY <1>5, <3>1
    <3>3. QED
      BY <1>11, <1>12, <1>13, <3>1, <3>2
  <2>4. i <= z \/ (z < i /\ i <= z + n) \/ z + n < i
    BY <1>3
  <2>5. QED
    BY <2>1, <2>2, <2>3, <2>4, Zenon
<1>15. new \o rest = old \o w
  <2>1. PICK one, two : one = new \o rest /\ two = old \o w
    OBVIOUS
  <2>2. one \in Seq(Byte) /\ two \in Seq(Byte) /\ Len(one) = z + total /\ Len(two) = z + total
    BY <1>11, <1>12, <1>13, <2>1, Zenon
  <2>3. \A i \in 1..z + total : one[i] = two[i]
    BY <1>14, <2>1, Zenon
  <2>4. one = two
    BY <2>2, <2>3, SeqEqual
  <2>5. QED
    BY <2>1, <2>4
<1>16. QED
  BY <1>1, <1>7, <1>8, <1>15

\* Lines begin in a buffer and go on behind it.  A newline that is found is the
\* first one, the message is the first line, and what is left are the others.
LEMMA FirstLineIs ==
  ASSUME NEW buffer \in Buffer, NEW z, Holds(buffer, z), NEW start \in 0..z,
         \A i \in 0..(start - 1) : buffer[i] # Newline,
         FindMessageEnd(buffer, start) # -1,
         NEW rest \in Seq(Byte), NEW lines \in Seq(Seq(Byte)),
         \A j \in 1..Len(lines) : IsLine(lines[j]),
         Joined(Text(buffer) \o rest, lines)
  PROVE  LET end == FindMessageEnd(buffer, start) + 1 IN
         /\ lines # <<>> /\ end \in 1..z
         /\ FirstMessage(buffer, end) = lines[1]
         /\ Remaining(buffer, end) \in Buffer
         /\ Holds(Remaining(buffer, end), z - end)
         /\ Joined(Text(Remaining(buffer, end)) \o rest, Tail(lines))
<1>1. z \in Nat /\ z <= Capacity /\ Capacity \in Nat /\ start \in Nat /\ start <= z
  BY CapacityAssumption DEF Holds
<1>2. PICK e \in start..(z - 1) :
        /\ e = FindMessageEnd(buffer, start) /\ buffer[e] = Newline
        /\ \A i \in start..(e - 1) : buffer[i] # Newline
  <2> DEFINE S == {i \in start..(z - 1) : buffer[i] = Newline}
  <2>1. S # {}
    BY NoMessageEnd
  <2>2. S \in SUBSET Nat
    BY <1>1
  <2>3. PICK e \in S : \A m \in S : e <= m
    BY <2>1, <2>2, LeastNumber
  <2>4. e \in start..(z - 1) /\ buffer[e] = Newline
    BY <2>3
  <2>5. ASSUME NEW i \in start..(e - 1), buffer[i] = Newline
        PROVE  FALSE
    <3>1. i \in S /\ i < e
      BY <1>1, <2>4, <2>5
    <3>2. QED
      BY <1>1, <2>3, <2>4, <3>1
  <2>6. FindMessageEnd(buffer, start) = e
    BY <2>4, <2>5, MessageEndIs
  <2>7. QED
    BY <2>4, <2>5, <2>6
<1>3. e \in Nat /\ e + 1 \in 1..z
  BY <1>1
<1>4. \A i \in 0..(e - 1) : buffer[i] # Newline
  <2> TAKE i \in 0..(e - 1)
  <2>1. i \in 0..(start - 1) \/ i \in start..(e - 1)
    BY <1>1, <1>3
  <2>2. QED
    BY <1>2, <2>1
<1>5. PICK text, bytes, total : text = Text(buffer) /\ bytes = text \o rest /\ total = Len(rest)
  OBVIOUS
<1>6. /\ text \in Seq(Byte) /\ Len(text) = z
      /\ \A i \in 1..z : text[i] = buffer[i - 1]
  BY <1>5, TextIs
<1>7. total \in Nat /\ bytes \in Seq(Byte) /\ Len(bytes) = z + total
  <2>1. Len(rest) \in Nat
    OBVIOUS
  <2>2. text \o rest \in Seq(Byte) /\ Len(text \o rest) = Len(text) + Len(rest)
    BY <1>6, ConcatProperties
  <2>3. QED
    BY <1>5, <1>6, <2>1, <2>2, Zenon
<1>8. \A i \in 1..z : bytes[i] = buffer[i - 1]
  <2> TAKE i \in 1..z
  <2>1. i <= z /\ i \in 1..Len(text) + Len(rest)
    BY <1>1, <1>5, <1>6, <1>7
  <2>2. bytes[i] = text[i]
    BY <1>5, <1>6, <2>1, ConcatProperties
  <2>3. QED
    BY <1>6, <2>2
<1>9. Joined(bytes, lines)
  BY <1>5
<1>10. lines # <<>>
  <2>1. SUFFICES ASSUME lines = <<>>
                 PROVE  FALSE
    OBVIOUS
  <2>2. bytes = <<>>
    BY <1>7, <1>9, <2>1, JoinedEmpty
  <2>3. Len(bytes) = 0
    BY <2>2, EmptySeq
  <2>4. z + total = 0 /\ total \in Nat
    BY <1>7, <2>3, Zenon
  <2>5. QED
    BY <1>1, <1>3, <2>4
<1>11. PICK line, size : line = lines[1] /\ size = Len(line)
  OBVIOUS
<1>12. size \in Nat /\ size <= z + total /\ \A i \in 1..size : bytes[i] = line[i]
  BY <1>7, <1>9, <1>10, <1>11, JoinedFirst
<1>13. line \in Seq(Byte) /\ IsLine(line)
  <2>1. 1 \in 1..Len(lines)
    BY <1>10
  <2>2. QED
    BY <1>11, <2>1
<1>14. size # 0 /\ line[size] = Newline /\ \A i \in 1..size : line[i] = Newline <=> i = size
  BY <1>11, <1>13, LineIs
<1>15. ~(e + 1 < size)
  <2>1. SUFFICES ASSUME e + 1 < size
                 PROVE  FALSE
    OBVIOUS
  <2>2. e + 1 \in 1..size /\ e + 1 \in 1..z /\ (e + 1) - 1 = e
    BY <1>3, <1>12, <2>1
  <2>3. line[e + 1] = buffer[e]
    BY <1>8, <1>12, <2>2
  <2>4. e + 1 = size
    BY <1>2, <1>14, <2>2, <2>3
  <2>5. QED
    BY <1>3, <1>12, <2>1, <2>4
<1>16. ~(size < e + 1)
  <2>1. SUFFICES ASSUME size < e + 1
                 PROVE  FALSE
    OBVIOUS
  <2>2. size \in 1..size /\ size \in 1..z /\ size - 1 \in 0..(e - 1)
    BY <1>1, <1>3, <1>12, <1>14, <2>1
  <2>3. buffer[size - 1] = line[size]
    BY <1>8, <1>12, <2>2
  <2>4. QED
    BY <1>4, <1>14, <2>2, <2>3
<1>17. PICK end \in 1..z : end = FindMessageEnd(buffer, start) + 1 /\ end = size
  BY <1>2, <1>3, <1>12, <1>15, <1>16
<1>18. FirstMessage(buffer, end) = line
  <2>1. PICK m : m = FirstMessage(buffer, end)
    OBVIOUS
  <2>2. m \in Seq(Byte) /\ Len(m) = end /\ \A i \in 1..end : m[i] = buffer[i - 1]
    BY <2>1, FirstMessageIs
  <2>3. ASSUME NEW i \in 1..end
        PROVE  m[i] = line[i]
    <3>1. i \in 1..z /\ i \in 1..size
      BY <1>1, <1>17
    <3>2. QED
      BY <1>8, <1>12, <2>2, <3>1
  <2>4. Len(m) = Len(line)
    BY <1>11, <1>17, <2>2
  <2>5. m = line
    BY <1>13, <2>2, <2>3, <2>4, SeqEqual
  <2>6. QED
    BY <2>1, <2>5
<1>19. PICK left : left = Remaining(buffer, end)
  OBVIOUS
<1>20. /\ left \in Buffer /\ Holds(left, z - end)
       /\ \A i \in 0..(z - end - 1) : left[i] = buffer[end + i]
  <2>1. end \in 0..z
    BY <1>1
  <2>2. QED
    BY <1>19, <2>1, RemainingIs
<1>21. PICK new, others : new = Text(left) /\ others = SubSeq(bytes, end + 1, z + total)
  OBVIOUS
<1>22. /\ new \in Seq(Byte) /\ Len(new) = z - end
       /\ \A i \in 1..z - end : new[i] = left[i - 1]
  BY <1>20, <1>21, TextIs
<1>23. /\ new \o rest \in Seq(Byte) /\ Len(new \o rest) = (z - end) + total
       /\ \A i \in 1..(z - end) + total : (new \o rest)[i] = IF i <= z - end THEN new[i] ELSE rest[i - (z - end)]
  <2>1. /\ new \o rest \in Seq(Byte) /\ Len(new \o rest) = Len(new) + Len(rest)
        /\ \A i \in 1..Len(new) + Len(rest) :
             (new \o rest)[i] = IF i <= Len(new) THEN new[i] ELSE rest[i - Len(new)]
    BY <1>22, ConcatProperties
  <2>2. QED
    BY <1>5, <1>22, <2>1, Zenon
<1>24. /\ others \in Seq(Byte) /\ Len(others) = (z - end) + total
       /\ \A i \in 1..(z - end) + total : others[i] = bytes[end + i]
  <2>1. PICK from, last : from = end + 1 /\ last = z + total
    OBVIOUS
  <2>2. from \in Int /\ last \in Int /\ \A i \in from..last : bytes[i] \in Byte
    BY <1>1, <1>7, <2>1
  <2>3. /\ SubSeq(bytes, from, last) \in Seq(Byte)
        /\ Len(SubSeq(bytes, from, last)) = IF from <= last THEN last - from + 1 ELSE 0
        /\ \A i \in 1..last - from + 1 : SubSeq(bytes, from, last)[i] = bytes[from + i - 1]
    BY <2>2, SubSeqProperties
  <2>4. last - from + 1 = (z - end) + total /\ \A i \in 1..(z - end) + total : from + i - 1 = end + i
    BY <1>1, <1>7, <2>1
  <2>5. Len(others) = (z - end) + total
    BY <1>1, <1>7, <1>21, <2>1, <2>3
  <2>6. QED
    BY <1>21, <2>1, <2>3, <2>4, <2>5
<1>25. ASSUME NEW i \in 1..(z - end) + total
       PROVE  (new \o rest)[i] = others[i]
  <2>1. CASE i <= z - end
    <3>1. i \in 1..z - end /\ i - 1 \in 0..(z - end - 1) /\ end + i \in 1..z /\ end + (i - 1) = (end + i) - 1
      BY <1>1, <2>1
    <3>2. new[i] = buffer[end + (i - 1)]
      BY <1>20, <1>22, <3>1
    <3>3. bytes[end + i] = buffer[(end + i) - 1]
      BY <1>8, <3>1
    <3>4. QED
      BY <1>23, <1>24, <2>1, <3>1, <3>2, <3>3
  <2>2. CASE ~(i <= z - end)
    <3>1. end + i \in 1..z + total /\ ~(end + i <= z) /\ (end + i) - z = i - (z - end)
      BY <1>1, <1>7, <2>2
    <3>2. bytes[end + i] = rest[(end + i) - z]
      <4>1. \A k \in 1..Len(text) + Len(rest) :
              (text \o rest)[k] = IF k <= Len(text) THEN text[k] ELSE rest[k - Len(text)]
        BY <1>6, ConcatProperties
      <4>2. \A k \in 1..z + total : bytes[k] = IF k <= z THEN text[k] ELSE rest[k - z]
        BY <1>5, <1>6, <4>1
      <4>3. QED
        BY <3>1, <4>2
    <3>3. QED
      BY <1>23, <1>24, <2>2, <3>1, <3>2
  <2>3. QED
    BY <2>1, <2>2
<1>26. new \o rest = others
  BY <1>23, <1>24, <1>25, SeqEqual, SMTT(30)
<1>27. Joined(others, Tail(lines))
  <2>1. Joined(SubSeq(bytes, Len(lines[1]) + 1, Len(bytes)), Tail(lines))
    BY <1>7, <1>9, <1>10, JoinedRest
  <2>2. Len(lines[1]) = end /\ Len(bytes) = z + total
    BY <1>7, <1>11, <1>17
  <2>3. QED
    BY <1>21, <2>1, <2>2
<1>28. QED
  BY <1>10, <1>11, <1>17, <1>18, <1>19, <1>20, <1>21, <1>26, <1>27

\* No line ends in the buffer, and there is no more, or the buffer is full:
\* then there is no line at all.
LEMMA NoLineIs ==
  ASSUME NEW buffer \in Buffer, NEW z, Holds(buffer, z),
         \A i \in 0..(z - 1) : buffer[i] # Newline,
         NEW rest \in Seq(Byte), rest = <<>> \/ z = Capacity,
         NEW lines \in Seq(Seq(Byte)),
         \A j \in 1..Len(lines) : IsLine(lines[j]) /\ Len(lines[j]) <= Capacity,
         Joined(Text(buffer) \o rest, lines)
  PROVE  lines = <<>> /\ z = 0 /\ rest = <<>>
<1>1. z \in Nat /\ z <= Capacity /\ Capacity \in Nat \ {0}
  BY CapacityAssumption DEF Holds
<1>2. PICK text, bytes, total : text = Text(buffer) /\ bytes = text \o rest /\ total = Len(rest)
  OBVIOUS
<1>3. /\ text \in Seq(Byte) /\ Len(text) = z
      /\ \A i \in 1..z : text[i] = buffer[i - 1]
  BY <1>2, TextIs
<1>4. total \in Nat /\ bytes \in Seq(Byte) /\ Len(bytes) = z + total
  <2>1. Len(rest) \in Nat
    OBVIOUS
  <2>2. text \o rest \in Seq(Byte) /\ Len(text \o rest) = Len(text) + Len(rest)
    BY <1>3, ConcatProperties
  <2>3. QED
    BY <1>2, <1>3, <2>1, <2>2, Zenon
<1>5. Joined(bytes, lines)
  BY <1>2
<1>6. lines = <<>>
  <2>1. SUFFICES ASSUME lines # <<>>
                 PROVE  FALSE
    OBVIOUS
  <2>2. PICK line, size : line = lines[1] /\ size = Len(line)
    OBVIOUS
  <2>3. size \in Nat /\ size <= z + total /\ \A i \in 1..size : bytes[i] = line[i]
    BY <1>4, <1>5, <2>1, <2>2, JoinedFirst
  <2>4. line \in Seq(Byte) /\ IsLine(line) /\ size <= Capacity
    <3>1. 1 \in 1..Len(lines)
      BY <2>1
    <3>2. QED
      BY <2>2, <3>1
  <2>5. size # 0 /\ line[size] = Newline
    BY <2>2, <2>4, LineIs
  <2>6. size <= z
    <3>1. CASE rest = <<>>
      <4>1. total = 0
        BY <1>2, <3>1
      <4>2. QED
        BY <1>1, <2>3, <4>1
    <3>2. CASE z = Capacity
      BY <2>4, <3>2
    <3>3. QED
      BY <3>1, <3>2
  <2>7. size \in 1..z /\ size \in 1..size /\ size - 1 \in 0..(z - 1) /\ size \in 1..z + total
    BY <1>1, <1>4, <2>3, <2>5, <2>6
  <2>8. bytes[size] = text[size]
    <3>1. \A k \in 1..Len(text) + Len(rest) :
            (text \o rest)[k] = IF k <= Len(text) THEN text[k] ELSE rest[k - Len(text)]
      BY <1>3, ConcatProperties
    <3>2. \A k \in 1..z + total : bytes[k] = IF k <= z THEN text[k] ELSE rest[k - z]
      BY <1>2, <1>3, <3>1
    <3>3. QED
      BY <2>6, <2>7, <3>2
  <2>9. buffer[size - 1] = Newline
    BY <1>3, <2>3, <2>5, <2>7, <2>8
  <2>10. QED
    BY <2>7, <2>9
<1>7. bytes = <<>>
  BY <1>4, <1>5, <1>6, JoinedEmpty
<1>8. z = 0 /\ total = 0
  <2>1. Len(bytes) = 0
    BY <1>7, EmptySeq
  <2>2. z + total = 0 /\ total \in Nat
    BY <1>4, <2>1, Zenon
  <2>3. QED
    BY <1>1, <2>2
<1>9. rest = <<>>
  <2>1. Len(rest) = 0
    BY <1>2, <1>8
  <2>2. QED
    BY <2>1, EmptySeq
<1>10. QED
  BY <1>6, <1>8, <1>9

-----------------------------------------------------------------------------
(* What waits for transitions *)

Waits(els, calls) == [el : els, call : calls, left : 0..2]

\* What ends first stands first.
Sorted(waiting) == \A i, j \in DOMAIN waiting : i <= j => waiting[i].left <= waiting[j].left

LEMMA SortedCut ==
  ASSUME NEW els, NEW calls, NEW waiting \in Seq(Waits(els, calls)), Sorted(waiting), NEW d \in Nat
  PROVE  \E k \in 0..Len(waiting) :
           \A i \in DOMAIN waiting : waiting[i].left <= d <=> i \in 1..k
<1> DEFINE n == Len(waiting)
<1>1. n \in Nat /\ DOMAIN waiting = 1..n
  OBVIOUS
<1>2. \A i \in 1..n : waiting[i].left \in Nat
  <2>1. \A w \in Waits(els, calls) : w.left \in Nat
    BY DEF Waits
  <2>2. QED
    BY <1>1, <2>1
<1>3. PICK later \in SUBSET Nat : later = {i \in 1..n : ~(waiting[i].left <= d)}
  <2>1. {i \in 1..n : ~(waiting[i].left <= d)} \in SUBSET Nat
    BY <1>1
  <2>2. QED
    BY <2>1, Zenon
<1>4. CASE later = {}
  <2>1. \A i \in DOMAIN waiting : waiting[i].left <= d <=> i \in 1..n
    BY <1>1, <1>3, <1>4
  <2>2. QED
    BY <1>1, <2>1
<1>5. CASE later # {}
  <2>1. PICK m \in later : \A i \in later : m <= i
    BY <1>5, LeastNumber
  <2>2. m \in 1..n /\ ~(waiting[m].left <= d) /\ m - 1 \in 0..n
    BY <1>1, <1>3, <2>1
  <2>3. ASSUME NEW i \in 1..n
        PROVE  waiting[i].left <= d <=> i \in 1..(m - 1)
    <3>1. CASE i <= m - 1
      BY <1>3, <2>1, <2>2, <3>1
    <3>2. CASE ~(i <= m - 1)
      <4>1. m <= i
        BY <1>1, <2>2, <3>2
      <4>2. waiting[m].left <= waiting[i].left
        BY <1>1, <2>2, <4>1 DEF Sorted
      <4>3. QED
        BY <1>2, <2>2, <3>2, <4>2
    <3>3. QED
      BY <3>1, <3>2
  <2>4. \A i \in DOMAIN waiting : waiting[i].left <= d <=> i \in 1..(m - 1)
    BY <1>1, <2>3
  <2>5. QED
    BY <1>1, <2>2, <2>4
<1>6. QED
  BY <1>4, <1>5

\* r is the queue q with w put in behind the first k.
Inserted(q, r, k, w) ==
  /\ k \in 0..Len(q) /\ Len(r) = Len(q) + 1
  /\ \A i \in 1..k : r[i] = q[i]
  /\ r[k + 1] = w
  /\ \A i \in (k + 1)..Len(q) : r[i + 1] = q[i]

LEMMA InsertIs ==
  ASSUME NEW S, NEW q \in Seq(S), NEW w \in S, NEW k \in 0..Len(q)
  PROVE  /\ InsertAt(q, k + 1, w) \in Seq(S)
         /\ Inserted(q, InsertAt(q, k + 1, w), k, w)
<1> DEFINE n == Len(q)
           a == SubSeq(q, 1, k)
           b == SubSeq(q, k + 1, n)
           r == (a \o <<w>>) \o b
<1>1. n \in Nat /\ k \in Nat /\ (k + 1) - 1 = k
  OBVIOUS
<1>2. a \in Seq(S) /\ Len(a) = k /\ \A i \in 1..k : a[i] = q[i]
  BY <1>1
<1>3. b \in Seq(S) /\ Len(b) = n - k /\ \A i \in 1..(n - k) : b[i] = q[k + i]
  BY <1>1
<1>4. InsertAt(q, k + 1, w) = r
  BY <1>1 DEF InsertAt
<1> HIDE DEF a, b
<1>5. /\ a \o <<w>> \in Seq(S) /\ Len(a \o <<w>>) = k + 1
      /\ \A i \in 1..k : (a \o <<w>>)[i] = q[i]
      /\ (a \o <<w>>)[k + 1] = w
  <2>1. a \o <<w>> = Append(a, w)
    BY <1>2
  <2>2. Append(a, w) \in Seq(S) /\ Len(Append(a, w)) = Len(a) + 1
    BY <1>2
  <2>3. Append(a, w)[Len(a) + 1] = w /\ \A i \in 1..Len(a) : Append(a, w)[i] = a[i]
    BY <1>2
  <2>4. QED
    BY <1>1, <1>2, <2>1, <2>2, <2>3
<1>6. PICK c : c = a \o <<w>>
  OBVIOUS
<1>7. /\ c \o b \in Seq(S) /\ Len(c \o b) = n + 1
      /\ \A i \in 1..(k + 1) : (c \o b)[i] = c[i]
      /\ \A i \in 1..(n - k) : (c \o b)[k + 1 + i] = b[i]
  BY <1>1, <1>3, <1>5, <1>6, SMTT(30)
<1>8. ASSUME NEW i \in (k + 1)..n
      PROVE  (c \o b)[i + 1] = q[i]
  <2>1. i - k \in 1..(n - k) /\ k + 1 + (i - k) = i + 1 /\ k + (i - k) = i
    BY <1>1
  <2>2. (c \o b)[k + 1 + (i - k)] = b[i - k] /\ b[i - k] = q[k + (i - k)]
    BY <1>3, <1>7, <2>1
  <2>3. QED
    BY <2>1, <2>2
<1>9. \A i \in 1..k : (c \o b)[i] = q[i]
  BY <1>1, <1>5, <1>6, <1>7
<1>10. (c \o b)[k + 1] = w
  BY <1>1, <1>5, <1>6, <1>7
<1>11. Inserted(q, c \o b, k, w)
  BY <1>7, <1>8, <1>9, <1>10 DEF Inserted
<1>12. QED
  BY <1>4, <1>6, <1>7, <1>11

\* Where the elements of q are in r.
Places(q, r, f, k) ==
  /\ f \in [1..Len(q) -> 1..Len(r)]
  /\ \A i \in 1..Len(q) : r[f[i]] = q[i] /\ f[i] # k + 1
  /\ \A i \in 1..Len(q) : f[i] < k + 1 <=> i <= k
  /\ \A i, j \in 1..Len(q) : i < j => f[i] < f[j]
  /\ \A j \in 1..Len(r) : j = k + 1 \/ \E i \in 1..Len(q) : f[i] = j

LEMMA InsertedPlaces ==
  ASSUME NEW S, NEW q \in Seq(S), NEW r, NEW k, NEW w, Inserted(q, r, k, w)
  PROVE  k \in Nat /\ k + 1 \in 1..Len(r) /\ r[k + 1] = w /\ \E f : Places(q, r, f, k)
<1> DEFINE f == [i \in 1..Len(q) |-> IF i <= k THEN i ELSE i + 1]
<1>1. PICK n \in Nat : n = Len(q)
  OBVIOUS
<1>2. /\ k \in 0..n /\ Len(r) = n + 1 /\ r[k + 1] = w
      /\ \A i \in 1..k : r[i] = q[i]
      /\ \A i \in (k + 1)..n : r[i + 1] = q[i]
  BY <1>1 DEF Inserted
<1>3. \A i \in 1..n : f[i] = IF i <= k THEN i ELSE i + 1
  BY <1>1
<1>4. f \in [1..n -> 1..(n + 1)]
  <2>1. \A i \in 1..n : f[i] \in 1..(n + 1)
    <3> HIDE DEF f
    <3>1. QED
      BY <1>2, <1>3
  <2>2. QED
    BY <1>1, <2>1
<1> HIDE DEF f
<1>5. \A i \in 1..n : r[f[i]] = q[i] /\ f[i] # k + 1 /\ (f[i] < k + 1 <=> i <= k)
  <2>1. ASSUME NEW i \in 1..n
        PROVE  r[f[i]] = q[i] /\ f[i] # k + 1 /\ (f[i] < k + 1 <=> i <= k)
    <3>1. CASE i <= k
      BY <1>2, <1>3, <3>1
    <3>2. CASE ~(i <= k)
      <4>1. i \in (k + 1)..n /\ f[i] = i + 1
        BY <1>2, <1>3, <3>2
      <4>2. QED
        BY <1>2, <3>2, <4>1
    <3>3. QED
      BY <3>1, <3>2
  <2>2. QED
    BY <2>1
<1>6. \A i, j \in 1..n : i < j => f[i] < f[j]
  BY <1>2, <1>3
<1>7. ASSUME NEW j \in 1..(n + 1)
      PROVE  j = k + 1 \/ \E i \in 1..n : f[i] = j
  <2>1. CASE j <= k
    <3>1. j \in 1..n /\ f[j] = j
      BY <1>2, <1>3, <2>1
    <3>2. QED
      BY <3>1
  <2>2. CASE ~(j <= k + 1)
    <3>1. PICK i \in 1..n : i = j - 1 /\ ~(i <= k)
      BY <1>2, <2>2
    <3>2. f[i] = j
      BY <1>2, <1>3, <3>1
    <3>3. QED
      BY <3>2
  <2>3. QED
    BY <1>2, <2>1, <2>2
<1>8. Places(q, r, f, k)
  BY <1>1, <1>2, <1>4, <1>5, <1>6, <1>7 DEF Places
<1>9. QED
  BY <1>2, <1>8

\* w stands behind all that ends no later, before the rest.
Awaited(q, r, k, w) ==
  /\ Inserted(q, r, k, w)
  /\ \A i \in 1..k : q[i].left <= w.left
  /\ \A i \in (k + 1)..Len(q) : ~(q[i].left <= w.left)

LEMMA AwaitIs ==
  ASSUME NEW els, NEW calls, NEW q \in Seq(Waits(els, calls)), Sorted(q),
         NEW el \in els, NEW call \in calls, NEW d \in 0..2,
         NEW r, r = Await(q, el, call, d)
  PROVE  /\ r \in Seq(Waits(els, calls)) /\ Sorted(r)
         /\ \E k : Awaited(q, r, k, Waiting(el, call, d))
<1> DEFINE n == Len(q)
           w == Waiting(el, call, d)
<1>1. n \in Nat /\ DOMAIN q = 1..n /\ d \in Nat
  OBVIOUS
<1>2. w \in Waits(els, calls) /\ w.left = d
  BY DEF Waits, Waiting
<1> HIDE DEF w
<1>3. PICK k \in 0..n : /\ \A i \in DOMAIN q : q[i].left <= d <=> i \in 1..k
                       /\ {i \in DOMAIN q : q[i].left <= d} = 1..k
  <2>1. q \in Seq(Waits(els, calls)) /\ Sorted(q) /\ d \in Nat
    BY <1>1
  <2>2. PICK k \in 0..n : \A i \in DOMAIN q : q[i].left <= d <=> i \in 1..k
    BY <2>1, SortedCut
  <2>3. 1..k \subseteq DOMAIN q
    BY <1>1
  <2>4. {i \in DOMAIN q : q[i].left <= d} = 1..k
    BY <2>2, <2>3
  <2>5. QED
    BY <2>2, <2>4
<1>4. Cardinality(1..k) = k
  <2>1. k \in Int /\ 1 \in Int
    BY <1>1
  <2>2. IsFiniteSet(1..k) /\ Cardinality(1..k) = IF 1 > k THEN 0 ELSE k - 1 + 1
    BY <2>1, FS_Interval, Zenon
  <2>3. QED
    BY <1>1, <2>2
<1>5. r = InsertAt(q, k + 1, w)
  BY <1>3, <1>4 DEF Await, w
<1>6. r \in Seq(Waits(els, calls)) /\ Inserted(q, r, k, w)
  BY <1>2, <1>5, InsertIs
<1>7. /\ \A i \in 1..k : q[i].left <= d
      /\ \A i \in (k + 1)..n : ~(q[i].left <= d)
  BY <1>1, <1>3
<1>8. Sorted(r)
  <2>1. \A i \in 1..n : q[i].left \in Nat
    <3>1. \A u \in Waits(els, calls) : u.left \in Nat
      BY DEF Waits
    <3>2. QED
      BY <1>1, <3>1
  <2>2. /\ \A i, j \in 1..n : i <= j => q[i].left <= q[j].left
        /\ DOMAIN r = 1..(n + 1) /\ k \in Nat /\ k <= n
    BY <1>1, <1>6 DEF Sorted, Inserted
  <2>3. ASSUME NEW i \in 1..(n + 1)
        PROVE  \/ i \in 1..k /\ r[i] = q[i]
               \/ i = k + 1 /\ r[i] = w
               \/ i - 1 \in (k + 1)..n /\ r[i] = q[i - 1]
    <3>1. CASE i \in 1..k
      BY <1>6, <3>1 DEF Inserted
    <3>2. CASE i = k + 1
      BY <1>6, <3>2 DEF Inserted
    <3>3. CASE ~(i <= k + 1)
      <4>1. i - 1 \in (k + 1)..n /\ (i - 1) + 1 = i
        BY <1>1, <2>2, <3>3
      <4>2. r[(i - 1) + 1] = q[i - 1]
        BY <1>6, <4>1 DEF Inserted
      <4>3. QED
        BY <4>1, <4>2
    <3>4. QED
      BY <1>1, <2>2, <3>1, <3>2, <3>3
  <2>4. ASSUME NEW i \in 1..(n + 1), NEW j \in 1..(n + 1), i <= j
        PROVE  r[i].left <= r[j].left
    <3>1. CASE i \in 1..k /\ r[i] = q[i]
      <4>1. CASE j \in 1..k /\ r[j] = q[j]
        BY <1>1, <2>2, <2>4, <3>1, <4>1
      <4>2. CASE j = k + 1 /\ r[j] = w
        BY <1>2, <1>7, <3>1, <4>2
      <4>3. CASE j - 1 \in (k + 1)..n /\ r[j] = q[j - 1]
        BY <1>1, <2>2, <3>1, <4>3
      <4>4. QED
        BY <2>3, <4>1, <4>2, <4>3
    <3>2. CASE i = k + 1 /\ r[i] = w
      <4>1. CASE j = k + 1 /\ r[j] = w
        BY <1>1, <1>2, <3>2, <4>1
      <4>2. CASE j - 1 \in (k + 1)..n /\ r[j] = q[j - 1]
        <5>1. j - 1 \in 1..n
          BY <1>1, <2>2, <4>2
        <5>2. QED
          BY <1>1, <1>2, <1>7, <2>1, <3>2, <4>2, <5>1
      <4>3. ~(j \in 1..k)
        BY <1>1, <2>2, <2>4, <3>2
      <4>4. QED
        BY <2>3, <4>1, <4>2, <4>3
    <3>3. CASE i - 1 \in (k + 1)..n /\ r[i] = q[i - 1]
      <4>1. ~(j \in 1..k) /\ j # k + 1
        BY <1>1, <2>2, <2>4, <3>3
      <4>2. j - 1 \in (k + 1)..n /\ r[j] = q[j - 1]
        BY <2>3, <4>1
      <4>3. i - 1 \in 1..n /\ j - 1 \in 1..n /\ i - 1 <= j - 1
        BY <1>1, <2>2, <2>4, <3>3, <4>2
      <4>4. QED
        BY <2>2, <3>3, <4>2, <4>3
    <3>4. QED
      BY <2>3, <3>1, <3>2, <3>3
  <2>5. QED
    BY <2>2, <2>4 DEF Sorted
<1>9. Awaited(q, r, k, w)
  BY <1>2, <1>6, <1>7 DEF Awaited
<1>10. QED
  BY <1>6, <1>8, <1>9 DEF w

\* rest is what f picks of the first k of q, in its order: all but el's.
Picked(q, rest, f, k, el) ==
  /\ f \in [1..Len(rest) -> 1..k]
  /\ \A i \in 1..Len(rest) : rest[i] = q[f[i]] /\ q[f[i]].el # el
  /\ \A i, j \in 1..Len(rest) : i < j => f[i] < f[j]
  /\ \A j \in 1..k : q[j].el # el => \E i \in 1..Len(rest) : f[i] = j

LEMMA PickedMore ==
  ASSUME NEW S, NEW q \in Seq(S), NEW rest \in Seq(S), NEW el, NEW k \in Nat, k + 1 \in 1..Len(q),
         NEW f, Picked(q, rest, f, k, el)
  PROVE  IF q[k + 1].el = el THEN Picked(q, rest, f, k + 1, el)
         ELSE \E g : Picked(q, Append(rest, q[k + 1]), g, k + 1, el)
<1> DEFINE n == Len(rest)
           more == Append(rest, q[k + 1])
           g == [i \in 1..(n + 1) |-> IF i = n + 1 THEN k + 1 ELSE f[i]]
<1>1. n \in Nat /\ \A i \in 1..n : i \in 1..(n + 1) /\ i # n + 1
  OBVIOUS
<1>2. /\ f \in [1..n -> 1..k]
      /\ \A i \in 1..n : rest[i] = q[f[i]] /\ q[f[i]].el # el
      /\ \A i, j \in 1..n : i < j => f[i] < f[j]
      /\ \A j \in 1..k : q[j].el # el => \E i \in 1..n : f[i] = j
  BY DEF Picked
<1>3. CASE q[k + 1].el = el
  <2>1. f \in [1..n -> 1..(k + 1)]
    BY <1>2
  <2>2. \A j \in 1..(k + 1) : q[j].el # el => \E i \in 1..n : f[i] = j
    <3>1. \A j \in 1..(k + 1) : j \in 1..k \/ j = k + 1
      OBVIOUS
    <3>2. QED
      BY <1>2, <1>3, <3>1
  <2>3. QED
    BY <1>2, <1>3, <2>1, <2>2 DEF Picked
<1>4. CASE q[k + 1].el # el
  <2>1. /\ Len(more) = n + 1 /\ more[n + 1] = q[k + 1]
        /\ \A i \in 1..n : more[i] = rest[i]
    OBVIOUS
  <2>2. \A i \in 1..n : g[i] = f[i] /\ f[i] \in 1..k
    BY <1>1, <1>2
  <2>3. g[n + 1] = k + 1 /\ n + 1 \in 1..(n + 1)
    BY <1>1
  <2>4. \A i \in 1..(n + 1) : i \in 1..n \/ i = n + 1
    BY <1>1
  <2>5. g \in [1..(n + 1) -> 1..(k + 1)]
    <3>1. \A i \in 1..(n + 1) : g[i] \in 1..(k + 1)
      <4> HIDE DEF g
      <4>1. \A i \in 1..n : g[i] \in 1..(k + 1)
        BY <2>2
      <4>2. g[n + 1] \in 1..(k + 1)
        BY <2>3
      <4>3. QED
        BY <2>4, <4>1, <4>2
    <3>2. QED
      BY <3>1
  <2> HIDE DEF g, more
  <2>6. \A i \in 1..(n + 1) : more[i] = q[g[i]] /\ q[g[i]].el # el
    BY <1>2, <1>4, <2>1, <2>2, <2>3, <2>4
  <2>7. \A i, j \in 1..(n + 1) : i < j => g[i] < g[j]
    <3>1. ASSUME NEW i \in 1..(n + 1), NEW j \in 1..(n + 1), i < j
          PROVE  g[i] < g[j]
      <4>1. i \in 1..n
        BY <1>1, <3>1
      <4>2. CASE j \in 1..n
        BY <1>2, <2>2, <3>1, <4>1, <4>2
      <4>3. CASE j = n + 1
        BY <2>2, <2>3, <4>1, <4>3
      <4>4. QED
        BY <2>4, <4>2, <4>3
    <3>2. QED
      BY <3>1
  <2>8. \A j \in 1..(k + 1) : q[j].el # el => \E i \in 1..(n + 1) : g[i] = j
    <3>1. ASSUME NEW j \in 1..(k + 1), q[j].el # el
          PROVE  \E i \in 1..(n + 1) : g[i] = j
      <4>1. CASE j \in 1..k
        <5>1. PICK i \in 1..n : f[i] = j
          BY <1>2, <3>1, <4>1
        <5>2. QED
          BY <1>1, <2>2, <5>1
      <4>2. CASE j = k + 1
        BY <2>3, <4>2
      <4>3. QED
        BY <4>1, <4>2
    <3>2. QED
      BY <3>1
  <2>9. Picked(q, more, g, k + 1, el)
    BY <2>1, <2>5, <2>6, <2>7, <2>8 DEF Picked
  <2>10. QED
    BY <1>4, <2>9 DEF more
<1>5. QED
  BY <1>3, <1>4

LEMMA WithoutIs ==
  ASSUME NEW els, NEW calls, NEW q \in Seq(Waits(els, calls)), Sorted(q), NEW el,
         NEW rest, rest = WithoutElement(q, el)
  PROVE  /\ rest \in Seq(Waits(els, calls)) /\ Sorted(rest)
         /\ \E f : Picked(q, rest, f, Len(q), el)
<1> DEFINE W == Waits(els, calls)
           loop(f) == [i \in 0..Len(q) |->
             IF i = 0 THEN <<>>
             ELSE IF q[i].el = el THEN f[i - 1] ELSE Append(f[i - 1], q[i])]
<1>1. Len(q) \in Nat /\ DOMAIN q = 1..Len(q)
  OBVIOUS
<1>2. \A i \in 1..Len(q) : q[i] \in W
  OBVIOUS
<1> HIDE DEF W
<1>3. \E f : f = loop(f)
  <2>1. PICK step \in [(1..Len(q)) \X Seq(W) -> Seq(W)] :
          \A i \in 1..Len(q), r \in Seq(W) :
            step[<<i, r>>] = IF q[i].el = el THEN r ELSE Append(r, q[i])
    <3> DEFINE g == [x \in (1..Len(q)) \X Seq(W) |->
                      IF q[x[1]].el = el THEN x[2] ELSE Append(x[2], q[x[1]])]
    <3>1. g \in [(1..Len(q)) \X Seq(W) -> Seq(W)]
      BY <1>2
    <3>2. \A i \in 1..Len(q), r \in Seq(W) :
            g[<<i, r>>] = IF q[i].el = el THEN r ELSE Append(r, q[i])
      OBVIOUS
    <3>3. QED
      BY <3>1, <3>2
  <2>2. <<>> \in Seq(W) /\ step \in [(1..Len(q)) \X Seq(W) -> Seq(W)]
    BY <2>1
  <2>3. PICK f : LoopRun(f, Len(q), Seq(W), <<>>, step)
    BY <1>1, <2>2, LoopRuns, Zenon
  <2>4. /\ f \in [0..Len(q) -> Seq(W)] /\ f[0] = <<>>
        /\ \A i \in 1..Len(q) : f[i] = step[<<i, f[i - 1]>>]
    BY <2>3 DEF LoopRun
  <2>5. ASSUME NEW i \in 0..Len(q)
        PROVE  f[i] = IF i = 0 THEN <<>>
                      ELSE IF q[i].el = el THEN f[i - 1] ELSE Append(f[i - 1], q[i])
    <3>1. CASE i = 0
      BY <2>4, <3>1
    <3>2. CASE i # 0
      <4>1. i \in 1..Len(q) /\ i - 1 \in 0..Len(q)
        BY <1>1, <3>2
      <4>2. f[i - 1] \in Seq(W)
        BY <2>4, <4>1
      <4>3. QED
        BY <2>1, <2>4, <3>2, <4>1, <4>2
    <3>3. QED
      BY <3>1, <3>2
  <2>6. f = loop(f)
    BY <2>4, <2>5
  <2>7. QED
    BY <2>6
<1>4. PICK left : left = loop(left) /\ rest = left[Len(q)]
  <2>1. PICK left : left = CHOOSE f : f = loop(f)
    OBVIOUS
  <2>2. left = loop(left)
    BY <1>3, <2>1
  <2>3. rest = left[Len(q)]
    BY <2>1 DEF WithoutElement
  <2>4. QED
    BY <2>2, <2>3
<1>5. /\ left[0] = <<>>
      /\ \A i \in 1..Len(q) : left[i] = IF q[i].el = el THEN left[i - 1] ELSE Append(left[i - 1], q[i])
  <2>1. loop(left)[0] = <<>>
    BY <1>1
  <2>2. ASSUME NEW i \in 1..Len(q)
        PROVE  loop(left)[i] = IF q[i].el = el THEN left[i - 1] ELSE Append(left[i - 1], q[i])
    <3>1. i \in 0..Len(q) /\ i # 0
      BY <1>1
    <3>2. QED
      BY <3>1
  <2> HIDE DEF loop
  <2>3. QED
    BY <1>4, <2>1, <2>2
<1> HIDE DEF loop
<1> DEFINE K == {k \in 0..Len(q) : left[k] \in Seq(W) /\ \E f : Picked(q, left[k], f, k, el)}
<1>6. 0 \in K
  <2>1. Picked(q, <<>>, <<>>, 0, el)
    BY DEF Picked
  <2>2. <<>> \in Seq(W) /\ 0 \in 0..Len(q)
    BY <1>1
  <2>3. QED
    BY <1>5, <2>1, <2>2
<1>7. ASSUME NEW k \in 0..(Len(q) - 1), k \in K
      PROVE  k + 1 \in K
  <2>1. k \in Nat /\ k + 1 \in 1..Len(q) /\ k + 1 \in 0..Len(q) /\ (k + 1) - 1 = k
    BY <1>1
  <2>2. PICK r, f : r = left[k] /\ r \in Seq(W) /\ Picked(q, r, f, k, el)
    BY <1>7
  <2>3. left[k + 1] = IF q[k + 1].el = el THEN r ELSE Append(r, q[k + 1])
    BY <1>5, <2>1, <2>2
  <2>4. left[k + 1] \in Seq(W)
    BY <1>2, <2>1, <2>2, <2>3
  <2>5. q \in Seq(W)
    BY DEF W
  <2>6. IF q[k + 1].el = el THEN Picked(q, r, f, k + 1, el)
        ELSE \E g : Picked(q, Append(r, q[k + 1]), g, k + 1, el)
    BY <2>1, <2>2, <2>5, PickedMore
  <2>7. \E g : Picked(q, left[k + 1], g, k + 1, el)
    BY <2>3, <2>6
  <2>8. QED
    BY <2>1, <2>4, <2>7
<1> HIDE DEF K
<1>8. 0..Len(q) \subseteq K
  BY <1>1, <1>6, <1>7, UpTo
<1>9. rest \in Seq(W) /\ \E f : Picked(q, rest, f, Len(q), el)
  BY <1>1, <1>4, <1>8 DEF K
<1>10. Sorted(rest)
  <2>1. PICK f : Picked(q, rest, f, Len(q), el)
    BY <1>9
  <2>2. DOMAIN rest = 1..Len(rest) /\ Len(rest) \in Nat
    BY <1>9
  <2>3. ASSUME NEW i \in DOMAIN rest, NEW j \in DOMAIN rest, i <= j
        PROVE  rest[i].left <= rest[j].left
    <3>1. f[i] \in 1..Len(q) /\ f[j] \in 1..Len(q) /\ rest[i] = q[f[i]] /\ rest[j] = q[f[j]]
      BY <2>1, <2>2 DEF Picked
    <3>2. f[i] <= f[j]
      <4>1. CASE i < j
        BY <1>1, <2>1, <2>2, <3>1, <4>1 DEF Picked
      <4>2. CASE i = j
        BY <1>1, <3>1, <4>2
      <4>3. QED
        BY <2>2, <2>3, <4>1, <4>2
    <3>3. QED
      BY <1>1, <3>1, <3>2 DEF Sorted
  <2>4. QED
    BY <2>3 DEF Sorted
<1>11. QED
  BY <1>9, <1>10 DEF W

\* Time brings every end nearer, when none is due.
LEMMA PassesIs ==
  ASSUME NEW els, NEW calls, NEW q \in Seq(Waits(els, calls)), Sorted(q), q # <<>>, ~IsDue(q),
         NEW r, r = TimePasses(q)
  PROVE  /\ r \in Seq(Waits(els, calls)) /\ Sorted(r) /\ r # <<>> /\ Len(r) = Len(q)
         /\ \A i \in 1..Len(q) : r[i].el = q[i].el /\ r[i].call = q[i].call
<1> DEFINE W == Waits(els, calls)
<1>1. /\ Len(q) \in Nat /\ DOMAIN q = 1..Len(q) /\ 1 \in 1..Len(q)
      /\ Head(q) = q[1] /\ q[1].left # 0
  BY DEF IsDue
<1>2. \A i \in 1..Len(q) : q[i] \in W
  BY <1>1
<1>3. \A w \in W : w.left \in 0..2
  BY DEF Waits
<1>4. \A i \in 1..Len(q) : q[i].left \in 1..2
  <2>1. \A i \in 1..Len(q) : q[1].left <= q[i].left /\ q[i].left \in 0..2
    BY <1>1, <1>2, <1>3 DEF Sorted
  <2>2. q[1].left \in 0..2
    BY <1>1, <2>1
  <2>3. QED
    BY <1>1, <2>1, <2>2
<1>5. ASSUME NEW i \in 1..Len(q)
      PROVE  /\ r[i] \in W /\ r[i].left = q[i].left - 1
             /\ r[i].el = q[i].el /\ r[i].call = q[i].call
  <2>1. PICK w \in W : w = q[i]
    BY <1>2
  <2>2. PICK less \in 0..2 : less = w.left - 1
    BY <1>4, <2>1
  <2>3. r[i] = [w EXCEPT !.left = less]
    BY <1>1, <2>1, <2>2 DEF TimePasses
  <2>4. /\ [w EXCEPT !.left = less] \in W /\ [w EXCEPT !.left = less].left = less
        /\ [w EXCEPT !.left = less].el = w.el /\ [w EXCEPT !.left = less].call = w.call
    BY <2>1, <2>2 DEF Waits
  <2>5. QED
    BY <2>1, <2>2, <2>3, <2>4
<1> HIDE DEF W
<1>6. r \in Seq(W) /\ Len(r) = Len(q) /\ r # <<>>
  <2>1. r = [i \in 1..Len(q) |-> r[i]]
    BY <1>1 DEF TimePasses
  <2>2. r \in Seq(W)
    BY <1>1, <1>5, <2>1
  <2>3. Len(r) = Len(q)
    BY <1>1, <2>1, <2>2
  <2>4. QED
    BY <1>1, <2>2, <2>3
<1>7. Sorted(r)
  <2>1. DOMAIN r = 1..Len(q)
    BY <1>6
  <2>2. \A i, j \in 1..Len(q) : i <= j => q[i].left <= q[j].left
    BY <1>1 DEF Sorted
  <2>3. \A i \in 1..Len(q) : r[i].left = q[i].left - 1 /\ q[i].left \in 1..2
    BY <1>4, <1>5
  <2>4. QED
    BY <2>1, <2>2, <2>3 DEF Sorted
<1>8. QED
  BY <1>5, <1>6, <1>7 DEF W

=============================================================================
