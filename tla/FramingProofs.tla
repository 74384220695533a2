--------------------------- MODULE FramingProofs ----------------------------
(***************************************************************************)
(* MessageFraming for any number of connections and slots, any lines and   *)
(* any length of the buffers.  Part 1: whatever becomes of the offsets,    *)
(* nothing is read or written outside a buffer.  Parts 3 and 4: as long as *)
(* no client ends inside a line and no listing gives the sender's row to   *)
(* another connection, each connection is a queue of lines, and none of    *)
(* their bytes is lost.  Part 2 is about what a listing does to the rows;  *)
(* in two slots it is harmless (Part 5).                                   *)
(***************************************************************************)
EXTENDS MessageFraming, SharedLemmas

-----------------------------------------------------------------------------
(* Part 1: types *)

\* An offset may have outlived its buffer or moved to another row; but every
\* buffer ends with a null byte, so strings and searches end inside of it, and
\* an open slot has one.
BuffersInv ==
  \A s \in Slot : /\ messages[s] # None => NullEnded(messages[s])
                  /\ IsOpen(s) => messages[s] # None

TypeInv == TypeOK /\ BuffersInv

LEMMA SeqOfArray ==
  ASSUME NEW S, NEW f \in [Client -> Seq(S)], NEW c, NEW x \in S
  PROVE  [f EXCEPT ![c] = Append(@, x)] \in [Client -> Seq(S)]
<1>1. \A d \in Client : f[d] \in Seq(S) /\ Append(f[d], x) \in Seq(S)
  OBVIOUS
<1>2. QED
  BY <1>1

LEMMA SlotsAre == Slot \subseteq Nat \ {0} /\ 1 \in Slot /\ Capacity \in Nat
BY BoundsAssumption, CapacityAssumption DEF Slot

\* What Advanced does to the buffer and the offset of the slot served.
LEMMA AdvancedInside ==
  ASSUME TypeInv, HasMessage
  PROVE  /\ serving \in Slot /\ LineEnd + 1 \in 1..Capacity
         /\ NullEnded(Remaining(Served, LineEnd + 1))
         /\ Message \in Seq(Byte)
<1>1. serving \in Slot /\ NullEnded(Served) /\ offsets[serving] \in 0..Capacity /\ LineEnd # -1 /\ Capacity \in Nat
  BY CapacityAssumption DEF TypeInv, TypeOK, BuffersInv, HasMessage, Served
<1>2. PICK buffer, start : buffer = Served /\ start = offsets[serving]
  OBVIOUS
<1>3. NullEnded(buffer) /\ start \in 0..Capacity /\ FindMessageEnd(buffer, start) # -1
  BY <1>1, <1>2 DEF LineEnd
<1>4. FindMessageEnd(buffer, start) \in start..(Capacity - 1)
  BY <1>3, MessageEndInside
<1>5. PICK end \in 1..Capacity : end = FindMessageEnd(buffer, start) + 1
  BY <1>1, <1>3, <1>4
<1>6. NullEnded(Remaining(buffer, end))
  BY <1>3, RemainingInside
<1>7. FirstMessage(buffer, end) \in Seq(Byte)
  BY <1>1, <1>3, FirstMessageInside
<1>8. LineEnd + 1 = end
  BY <1>2, <1>5 DEF LineEnd
<1>9. QED
  BY <1>1, <1>2, <1>5, <1>6, <1>7, <1>8 DEF Message

\* Storing buffers that end with a null byte.
LEMMA MessagesKept ==
  ASSUME TypeInv, NEW s \in Slot, NEW b, NullEnded(b)
  PROVE  LET result == [messages EXCEPT ![s] = b] IN
         /\ result \in [Slot -> Buffer \cup {None}]
         /\ \A t \in Slot : /\ result[t] # None => NullEnded(result[t])
                            /\ IsOpen(t) \/ t = s => result[t] # None
<1>1. b # None /\ b \in Buffer
  BY ClientAssumption DEF NullEnded
<1>2. QED
  BY <1>1 DEF TypeInv, TypeOK, BuffersInv

LEMMA TypeStep ==
  ASSUME TypeInv, [Next]_vars
  PROVE  TypeInv'
<1>1. TypeOK /\ BuffersInv
  BY DEF TypeInv
<1>2. CASE UNCHANGED vars
  BY <1>1, <1>2 DEF TypeInv, TypeOK, BuffersInv, IsOpen, vars, table
<1>3. CASE EstablishConnection
  <2>1. PICK c \in Client, s \in Slot :
          /\ peer' = [peer EXCEPT ![c] = "up"]
          /\ sockets' = [sockets EXCEPT ![s] = c]
          /\ users' = [users EXCEPT ![s] = None]
          /\ \E b \in Malloced(offsets[s]) : messages' = [messages EXCEPT ![s] = b]
    BY <1>3 DEF EstablishConnection
  <2>2. PICK b \in Malloced(offsets[s]) : messages' = [messages EXCEPT ![s] = b]
    BY <2>1
  <2>3. NullEnded(b)
    BY <1>1, <2>2, CapacityAssumption DEF NullEnded, Malloced, TypeOK
  <2>4. /\ messages' \in [Slot -> Buffer \cup {None}]
        /\ \A t \in Slot : /\ messages'[t] # None => NullEnded(messages'[t])
                           /\ IsOpen(t) \/ t = s => messages'[t] # None
    BY <2>2, <2>3, MessagesKept
  <2>5. \A t \in Slot : IsOpen(t)' => IsOpen(t) \/ t = s
    BY <1>1, <2>1 DEF IsOpen, TypeOK
  <2>6. BuffersInv'
    BY <2>4, <2>5 DEF BuffersInv
  <2>7. TypeOK'
    BY <1>1, <1>3, <2>1, <2>4 DEF TypeOK, EstablishConnection
  <2>8. QED
    BY <2>6, <2>7 DEF TypeInv
<1>4. ASSUME NEW c \in Client, NEW line \in Line, Write(c, line)
      PROVE  TypeInv'
  <2>1. line \in Seq(Byte)
    BY LineAssumption
  <2>2. wire' \in [Client -> Seq(Byte)] /\ lines' \in [Client -> Seq(Line)]
    BY <1>1, <1>4, <2>1 DEF Write, TypeOK
  <2>3. QED
    BY <1>1, <1>4, <2>2 DEF TypeInv, TypeOK, BuffersInv, IsOpen, Write, table
<1>5. ASSUME NEW c \in Client, NEW part \in Fragment \cup {<<>>}, Hangup(c, part)
      PROVE  TypeInv'
  <2>1. part \in Seq(Byte)
    <3>1. part \in Seq(Letter)
      <4>1. <<>> \in Seq(Letter)
        OBVIOUS
      <4>2. QED
        BY <4>1, FragmentAssumption
    <3>2. part = [i \in 1..Len(part) |-> part[i]] /\ Len(part) \in Nat /\ \A i \in 1..Len(part) : part[i] \in Byte
      BY <3>1 DEF Byte
    <3>3. QED
      BY <3>2
  <2>2. wire' \in [Client -> Seq(Byte)]
    BY <1>1, <1>5, <2>1 DEF Hangup, TypeOK
  <2>3. QED
    BY <1>1, <1>5, <2>2 DEF TypeInv, TypeOK, BuffersInv, IsOpen, Hangup, table
<1>6. ASSUME NEW s \in Slot, ReceiveBytes(s)
      PROVE  TypeInv'
  <2>1. PICK c, offset, w : c = sockets[s] /\ offset = offsets[s] /\ w = wire[c]
    OBVIOUS
  <2>2. /\ c \in Client /\ offset \in 0..Capacity /\ w \in Seq(Byte) /\ Capacity \in Nat /\ Len(w) \in Nat
        /\ NullEnded(messages[s])
    BY <1>1, <1>6, <2>1, CapacityAssumption DEF ReceiveBytes, IsOpen, TypeOK, BuffersInv
  <2>3. PICK n \in 1..Min({Capacity - offset, Len(w)}) :
          /\ messages' = [messages EXCEPT ![s] = Stored(@, offset, SubSeq(w, 1, n))]
          /\ wire' = [wire EXCEPT ![c] = SubSeq(@, n + 1, Len(@))]
    BY <1>6, <2>1 DEF ReceiveBytes, Room
  <2>4. n \in Nat /\ 1 <= n /\ n <= Capacity - offset /\ n <= Len(w)
    BY <2>2, <2>3, MinOfTwo
  <2>5. SubSeq(w, 1, n) \in Seq(Byte) /\ Len(SubSeq(w, 1, n)) = n
    BY <2>2, <2>4
  <2>6. PICK b : b = Stored(messages[s], offset, SubSeq(w, 1, n))
    OBVIOUS
  <2>7. NullEnded(b)
    <3>1. PICK old, bytes : old = messages[s] /\ bytes = SubSeq(w, 1, n)
      OBVIOUS
    <3>2. offset + Len(bytes) <= Capacity /\ bytes \in Seq(Byte) /\ NullEnded(old)
      BY <2>2, <2>4, <2>5, <3>1
    <3>3. NullEnded(Stored(old, offset, bytes))
      BY <2>2, <3>2, StoredInside
    <3>4. QED
      BY <2>6, <3>1, <3>3
  <2>8. messages' = [messages EXCEPT ![s] = b]
    BY <2>3, <2>6
  <2>9. /\ messages' \in [Slot -> Buffer \cup {None}]
        /\ \A t \in Slot : /\ messages'[t] # None => NullEnded(messages'[t])
                           /\ IsOpen(t) => messages'[t] # None
    BY <2>7, <2>8, MessagesKept
  <2>10. wire' \in [Client -> Seq(Byte)]
    <3>1. SubSeq(w, n + 1, Len(w)) \in Seq(Byte)
      BY <2>2, <2>4
    <3>2. QED
      BY <1>1, <2>1, <2>3, <3>1 DEF TypeOK
  <2>11. BuffersInv'
    BY <1>6, <2>9 DEF BuffersInv, IsOpen, ReceiveBytes
  <2>12. TypeOK'
    BY <1>1, <1>6, <2>9, <2>10 DEF TypeOK, ReceiveBytes
  <2>13. QED
    BY <2>11, <2>12 DEF TypeInv
<1>7. ASSUME NEW s \in Slot, ReceiveEnd(s)
      PROVE  TypeInv'
  <2>1. BuffersInv'
    BY <1>1, <1>7 DEF ReceiveEnd, BuffersInv, IsOpen, TypeOK
  <2>2. wire' \in [Client -> Seq(Byte)] /\ messages' \in [Slot -> Buffer \cup {None}]
    <3>1. <<>> \in Seq(Byte)
      OBVIOUS
    <3>2. QED
      BY <1>1, <1>7, <3>1 DEF ReceiveEnd, TypeOK
  <2>3. peer' \in [Client -> {"idle", "up", "fin", "gone"}] /\ sockets' \in [Slot -> Client \cup {None}]
    BY <1>1, <1>7 DEF ReceiveEnd, TypeOK
  <2>4. TypeOK'
    BY <1>1, <1>7, <2>2, <2>3 DEF ReceiveEnd, TypeOK
  <2>5. QED
    BY <2>1, <2>4 DEF TypeInv
<1>8. ASSUME HasMessage, Advanced(serving), Handle,
             UNCHANGED <<sockets, serving, peer, wire, lines>>, users' \in [Slot -> Client \cup {None}],
             pc' = NextStep
      PROVE  TypeInv'
  <2>1. PICK b : b = Remaining(Served, LineEnd + 1)
    OBVIOUS
  <2>2. serving \in Slot /\ NullEnded(b) /\ Message \in Seq(Byte)
    BY <1>8, <2>1, AdvancedInside
  <2>3. /\ messages' \in [Slot -> Buffer \cup {None}]
        /\ \A t \in Slot : /\ messages'[t] # None => NullEnded(messages'[t])
                           /\ IsOpen(t) => messages'[t] # None
    <3>1. messages' = [messages EXCEPT ![serving] = b]
      BY <1>8, <2>1 DEF Advanced
    <3>2. QED
      BY <2>2, <3>1, MessagesKept
  <2>4. offsets' \in [Slot -> 0..Capacity]
    BY <1>1, <1>8, CapacityAssumption DEF Advanced, TypeOK
  <2>5. handled' \in [Client -> Seq(Seq(Byte))]
    BY <1>1, <1>8, <2>2, SeqOfArray DEF Handle, TypeOK
  <2>6. BuffersInv'
    BY <1>8, <2>3 DEF BuffersInv, IsOpen
  <2>7. TypeOK'
    BY <1>1, <1>8, <2>3, <2>4, <2>5 DEF TypeOK, NextStep
  <2>8. QED
    BY <2>6, <2>7 DEF TypeInv
<1>9. CASE Join
  <2>1. users' \in [Slot -> Client \cup {None}]
    BY <1>1, <1>9 DEF Join, TypeOK
  <2>2. QED
    BY <1>8, <1>9, <2>1 DEF Join
<1>10. CASE HandleMessage
  BY <1>1, <1>8, <1>10 DEF HandleMessage, TypeOK
<1>11. CASE SortUsers
  <2>1. PICK b : b = Remaining(Served, LineEnd + 1)
    OBVIOUS
  <2>2. serving \in Slot /\ NullEnded(b) /\ Message \in Seq(Byte)
    BY <1>11, <2>1, AdvancedInside DEF SortUsers
  <2>3. PICK rows : rows = [messages EXCEPT ![serving] = b]
    OBVIOUS
  <2>4. /\ rows \in [Slot -> Buffer \cup {None}]
        /\ \A t \in Slot : /\ rows[t] # None => NullEnded(rows[t])
                           /\ IsOpen(t) => rows[t] # None
    BY <2>2, <2>3, MessagesKept
  <2>5. PICK q \in [Slot -> Slot] :
          /\ MoveRows(q, rows)
          /\ offsets' = [[s \in Slot |-> offsets[q[s]]] EXCEPT ![serving] = 0]
    BY <1>11, <2>1, <2>3 DEF SortUsers, Arrangements
  <2>6. \A s \in Slot : q[s] \in Slot
    OBVIOUS
  <2>7. /\ sockets' \in [Slot -> Client \cup {None}] /\ users' \in [Slot -> Client \cup {None}]
        /\ messages' \in [Slot -> Buffer \cup {None}]
    BY <1>1, <2>4, <2>5, <2>6 DEF MoveRows, TypeOK
  <2>8. offsets' \in [Slot -> 0..Capacity]
    BY <1>1, <2>5, <2>6, CapacityAssumption DEF TypeOK
  <2>9. handled' \in [Client -> Seq(Seq(Byte))]
    BY <1>1, <1>11, <2>2, SeqOfArray DEF SortUsers, Handle, TypeOK
  <2>10. BuffersInv'
    <3>1. \A s \in Slot : messages'[s] = rows[q[s]] /\ sockets'[s] = sockets[q[s]]
      BY <2>5 DEF MoveRows
    <3>2. QED
      BY <2>4, <2>6, <3>1 DEF BuffersInv, IsOpen
  <2>11. TypeOK'
    BY <1>1, <1>11, <2>7, <2>8, <2>9 DEF TypeOK, SortUsers, NextStep
  <2>12. QED
    BY <2>10, <2>11 DEF TypeInv
<1>12. CASE SortNullUser \/ BufferGone
  BY <1>1, <1>12 DEF SortNullUser, BufferGone, Crash, TypeInv, TypeOK, BuffersInv, IsOpen, table
<1>13. CASE ClientDone
  <2>1. serving \in Slot /\ NullEnded(Served)
    BY <1>1, <1>13 DEF ClientDone, TypeOK, BuffersInv, Served
  <2>2. StringEnd(Served, 0) \in 0..Capacity
    <3>1. PICK buffer : buffer = Served
      OBVIOUS
    <3>2. 0 \in 0..Capacity
      BY CapacityAssumption
    <3>3. StringEnd(buffer, 0) \in 0..Capacity
      BY <2>1, <3>1, <3>2, StringEndInside
    <3>4. QED
      BY <3>1, <3>3
  <2>3. BuffersInv'
    BY <1>1, <1>13 DEF ClientDone, BuffersInv, IsOpen
  <2>4. TypeOK'
    BY <1>1, <1>13, <2>2 DEF ClientDone, OffsetAfter, TypeOK
  <2>5. QED
    BY <2>3, <2>4 DEF TypeInv
<1>14. QED
  BY <1>2, <1>3, <1>4, <1>5, <1>6, <1>7, <1>9, <1>10, <1>11, <1>12, <1>13
  DEF Next, Parse, Receive, Clients

LEMMA TypeInit == Init => TypeInv
<1> SUFFICES ASSUME Init
             PROVE  TypeInv
  OBVIOUS
<1>1. TypeOK
  BY SlotsAre DEF Init, TypeOK
<1>2. BuffersInv
  BY DEF Init, BuffersInv, IsOpen
<1>3. QED
  BY <1>1, <1>2 DEF TypeInv

\* Whatever the clients write, wherever they stop, and whatever a listing does
\* to the rows under handle_client: every offset stays in its buffer, and the
\* reads, searches and copies end inside of it (server.c 197 to 239).
THEOREM FramingTypes == Spec => []TypeOK
<1>1. TypeInv /\ [Next]_vars => TypeInv'
  BY TypeStep
<1>2. TypeInv => TypeOK
  BY DEF TypeInv
<1>3. QED
  BY <1>1, <1>2, TypeInit, PTL DEF Spec

-----------------------------------------------------------------------------
(* Part 2: the rows of a listing *)

Injective(q) == \A s, t \in Slot : q[s] = q[t] => s = t

\* The first i rows are compacted: no row in use follows an empty one.
Compacted(q, i) == \A s \in 1..i, t \in Slot : t > s /\ IsOpen(q[t]) => IsOpen(q[s])

InUseAfter(q, s) == {t \in Slot : t > s /\ IsOpen(q[t])}

\* What the loop of remove_holes does at s.
CompactStep(q, s) ==
  IF IsOpen(q[s]) \/ InUseAfter(q, s) = {} THEN q
  ELSE [q EXCEPT ![s] = q[Min(InUseAfter(q, s))], ![Min(InUseAfter(q, s))] = q[s]]

LEMMA CompactStepIs ==
  ASSUME NEW q \in [Slot -> Slot], NEW s \in Slot
  PROVE  /\ CompactStep(q, s) \in [Slot -> Slot]
         /\ Injective(q) => Injective(CompactStep(q, s))
         /\ Compacted(q, s - 1) => Compacted(CompactStep(q, s), s)
<1>1. s \in Nat /\ s >= 1 /\ Slot \subseteq Nat
  BY SlotsAre
<1>2. CASE IsOpen(q[s]) \/ InUseAfter(q, s) = {}
  <2>1. CompactStep(q, s) = q
    BY <1>2 DEF CompactStep
  <2>2. ASSUME Compacted(q, s - 1), NEW r \in 1..s, NEW t \in Slot, t > r, IsOpen(q[t])
        PROVE  IsOpen(q[r])
    <3>1. CASE r = s
      BY <1>2, <2>2, <3>1 DEF InUseAfter
    <3>2. CASE r # s
      <4>1. r \in 1..(s - 1)
        BY <1>1, <3>2
      <4>2. QED
        BY <2>2, <4>1 DEF Compacted
    <3>3. QED
      BY <3>1, <3>2
  <2>3. QED
    BY <2>1, <2>2 DEF Compacted
<1>3. CASE ~IsOpen(q[s]) /\ InUseAfter(q, s) # {}
  <2>1. PICK u : u = Min(InUseAfter(q, s))
    OBVIOUS
  <2>2. u \in Slot /\ u > s /\ IsOpen(q[u])
    <3>1. InUseAfter(q, s) \in SUBSET Nat
      BY <1>1 DEF InUseAfter
    <3>2. PICK n \in InUseAfter(q, s) : \A m \in InUseAfter(q, s) : n <= m
      BY <1>3, <3>1, LeastNumber
    <3>3. Min(InUseAfter(q, s)) = n
      BY <3>1, <3>2, MinIs
    <3>4. QED
      BY <2>1, <3>2, <3>3 DEF InUseAfter
  <2>3. PICK r : r = CompactStep(q, s)
    OBVIOUS
  <2>4. r = [q EXCEPT ![s] = q[u], ![u] = q[s]]
    BY <1>3, <2>1, <2>3 DEF CompactStep
  <2>5. /\ r \in [Slot -> Slot] /\ r[s] = q[u] /\ r[u] = q[s] /\ s # u
        /\ \A t \in Slot : t # s /\ t # u => r[t] = q[t]
    BY <1>1, <2>2, <2>4
  <2>6. ASSUME Injective(q), NEW t \in Slot, NEW v \in Slot, r[t] = r[v]
        PROVE  t = v
    <3>1. PICK x \in Slot : r[t] = q[x] /\ x = IF t = s THEN u ELSE IF t = u THEN s ELSE t
      BY <2>2, <2>5
    <3>2. PICK y \in Slot : r[v] = q[y] /\ y = IF v = s THEN u ELSE IF v = u THEN s ELSE v
      BY <2>2, <2>5
    <3>3. x = y
      BY <2>6, <3>1, <3>2 DEF Injective
    <3>4. QED
      BY <2>5, <3>1, <3>2, <3>3
  <2>7. ASSUME Compacted(q, s - 1), NEW p \in 1..s, NEW t \in Slot, t > p, IsOpen(r[t])
        PROVE  IsOpen(r[p])
    <3>1. CASE p = s
      BY <2>2, <2>5, <3>1
    <3>2. CASE p # s
      <4>1. p \in 1..(s - 1) /\ p # u /\ p < s /\ p \in Slot
        <5>1. MaxClients \in Nat /\ s \in 1..MaxClients
          BY BoundsAssumption DEF Slot
        <5>2. p \in 1..MaxClients
          BY <5>1
        <5>3. p \in 1..(s - 1) /\ p # u /\ p < s
          BY <1>1, <2>2, <3>2
        <5>4. QED
          BY <5>2, <5>3 DEF Slot
      <4>2. r[p] = q[p]
        BY <2>5, <4>1
      <4>3. PICK x \in Slot : x > p /\ IsOpen(q[x])
        <5>1. CASE t = s
          <6>1. IsOpen(q[u]) /\ u > p
            BY <1>1, <2>2, <4>1
          <6>2. QED
            BY <2>2, <6>1
        <5>2. CASE t = u
          BY <1>3, <2>5, <2>7, <5>2
        <5>3. CASE t # s /\ t # u
          BY <2>5, <2>7, <5>3
        <5>4. QED
          BY <5>1, <5>2, <5>3
      <4>4. QED
        BY <2>7, <4>1, <4>2, <4>3 DEF Compacted
    <3>3. QED
      BY <3>1, <3>2
  <2>8. QED
    BY <2>3, <2>5, <2>6, <2>7 DEF Injective, Compacted
<1>4. QED
  BY <1>2, <1>3

\* remove_holes moves each row once, and leaves the rows in use in front.
LEMMA CompactionIs ==
  /\ Compaction \in [Slot -> Slot]
  /\ Injective(Compaction)
  /\ Compacted(Compaction, MaxClients)
  /\ (\A s \in Slot : IsOpen(s)) => \A s \in Slot : Compaction[s] = s
<1> DEFINE loop(g) == [s \in 0..MaxClients |->
             IF s = 0 THEN [t \in Slot |-> t] ELSE CompactStep(g[s - 1], s)]
<1>1. MaxClients \in Nat \ {0} /\ Slot = 1..MaxClients
  BY BoundsAssumption DEF Slot
<1>2. PICK T : T = [Slot -> Slot]
  OBVIOUS
<1>3. PICK base : base = [t \in Slot |-> t]
  OBVIOUS
<1>4. base \in T
  BY <1>2, <1>3
<1>5. PICK step \in [(1..MaxClients) \X T -> T] :
        \A s \in 1..MaxClients, q \in T : step[<<s, q>>] = CompactStep(q, s)
  <2> DEFINE h == [x \in (1..MaxClients) \X T |-> CompactStep(x[2], x[1])]
  <2>1. \A s \in 1..MaxClients, q \in T : CompactStep(q, s) \in T
    BY <1>1, <1>2, CompactStepIs
  <2>2. h \in [(1..MaxClients) \X T -> T]
    BY <2>1
  <2>3. \A s \in 1..MaxClients, q \in T : h[<<s, q>>] = CompactStep(q, s)
    OBVIOUS
  <2>4. QED
    BY <2>2, <2>3
<1>6. PICK f : LoopRun(f, MaxClients, T, base, step)
  BY <1>1, <1>4, <1>5, LoopRuns, Zenon
<1>7. /\ f \in [0..MaxClients -> T] /\ f[0] = base
      /\ \A s \in 1..MaxClients : f[s] = step[<<s, f[s - 1]>>]
  BY <1>6 DEF LoopRun
<1>8. \E g : g = loop(g)
  <2>1. PICK g : g = [s \in 0..MaxClients |-> f[s]]
    OBVIOUS
  <2>2. ASSUME NEW s \in 0..MaxClients
        PROVE  g[s] = IF s = 0 THEN [t \in Slot |-> t] ELSE CompactStep(g[s - 1], s)
    <3>1. CASE s = 0
      BY <1>3, <1>7, <2>1, <3>1
    <3>2. CASE s # 0
      <4>1. s \in 1..MaxClients /\ s - 1 \in 0..MaxClients
        BY <1>1, <3>2
      <4>2. f[s - 1] \in T /\ g[s - 1] = f[s - 1] /\ g[s] = f[s]
        BY <1>7, <2>1, <4>1
      <4>3. QED
        BY <1>5, <1>7, <3>2, <4>1, <4>2
    <3>3. QED
      BY <3>1, <3>2
  <2>3. g = loop(g)
    BY <2>1, <2>2
  <2>4. QED
    BY <2>3
<1>9. PICK g : g = loop(g) /\ Compaction = g[MaxClients]
  <2>1. PICK g : g = CHOOSE h : h = loop(h)
    OBVIOUS
  <2>2. g = loop(g)
    BY <1>8, <2>1
  <2>3. Compaction = g[MaxClients]
    BY <2>1 DEF Compaction, CompactStep, InUseAfter
  <2>4. QED
    BY <2>2, <2>3
<1>10. /\ g[0] = base
       /\ \A s \in 1..MaxClients : g[s] = CompactStep(g[s - 1], s)
  <2>1. \A s \in 0..MaxClients : g[s] = IF s = 0 THEN base ELSE CompactStep(g[s - 1], s)
    BY <1>3, <1>9
  <2> HIDE DEF loop
  <2>2. 0 \in 0..MaxClients /\ \A s \in 1..MaxClients : s \in 0..MaxClients /\ s # 0
    BY <1>1
  <2>3. QED
    BY <2>1, <2>2
<1> HIDE DEF loop
<1> DEFINE Full == \A s \in Slot : IsOpen(s)
           K == {s \in 0..MaxClients : /\ g[s] \in [Slot -> Slot] /\ Injective(g[s])
                                      /\ Compacted(g[s], s) /\ (Full => g[s] = base)}
<1>11. 0 \in K
  <2>1. Injective(base) /\ Compacted(base, 0)
    BY <1>3 DEF Injective, Compacted
  <2>2. QED
    BY <1>1, <1>2, <1>4, <1>10, <2>1, SMTT(30)
<1>12. ASSUME NEW s \in 0..(MaxClients - 1), s \in K
       PROVE  s + 1 \in K
  <2>1. s + 1 \in Slot /\ s + 1 \in 1..MaxClients /\ (s + 1) - 1 = s /\ s + 1 \in 0..MaxClients
    BY <1>1
  <2>2. PICK q, r, u : q = g[s] /\ r = g[s + 1] /\ u = s + 1
    OBVIOUS
  <2>3. r = CompactStep(q, u) /\ u \in Slot /\ u - 1 = s
    BY <1>10, <2>1, <2>2
  <2>4. q \in [Slot -> Slot] /\ Injective(q) /\ Compacted(q, u - 1) /\ (Full => q = base)
    BY <1>12, <2>2, <2>3
  <2>5. r \in [Slot -> Slot] /\ Injective(r) /\ Compacted(r, u)
    BY <2>3, <2>4, CompactStepIs
  <2>6. Full => r = base
    BY <1>3, <2>3, <2>4 DEF CompactStep
  <2>7. QED
    BY <2>1, <2>2, <2>5, <2>6
<1> HIDE DEF K
<1>13. 0..MaxClients \subseteq K
  BY <1>1, <1>11, <1>12, UpTo
<1>14. MaxClients \in K
  BY <1>1, <1>13
<1>15. QED
  BY <1>3, <1>9, <1>14 DEF K

\* No row behind the first as many as are in use is in use.
LEMMA HolesBehind ==
  ASSUME NEW s \in Slot, s > Cardinality(OpenSlots)
  PROVE  ~IsOpen(Compaction[s])
<1>1. /\ Compaction \in [Slot -> Slot] /\ Injective(Compaction) /\ Compacted(Compaction, MaxClients)
  BY CompactionIs
<1>2. IsFiniteSet(OpenSlots) /\ Cardinality(OpenSlots) \in Nat
  <2>1. IsFiniteSet(Slot)
    BY BoundsAssumption, FS_Interval DEF Slot
  <2>2. OpenSlots \in SUBSET Slot
    BY DEF OpenSlots
  <2>3. QED
    BY <2>1, <2>2, FS_Subset, FS_CardinalityType
<1>3. SUFFICES ASSUME IsOpen(Compaction[s])
               PROVE  FALSE
  OBVIOUS
<1>4. s \in Nat /\ MaxClients \in Nat /\ s <= MaxClients /\ 1..s \subseteq Slot
  BY BoundsAssumption DEF Slot
<1>5. \A t \in 1..s : IsOpen(Compaction[t]) /\ Compaction[t] \in OpenSlots
  <2>1. ASSUME NEW t \in 1..s
        PROVE  IsOpen(Compaction[t]) /\ Compaction[t] \in Slot
    <3>1. t \in Slot /\ t \in 1..MaxClients
      BY <1>4
    <3>2. CASE t = s
      BY <1>1, <1>3, <3>2
    <3>3. CASE t # s
      <4>1. s > t
        BY <1>4, <3>3
      <4>2. QED
        BY <1>1, <1>3, <3>1, <4>1 DEF Compacted
    <3>4. QED
      BY <3>2, <3>3
  <2>2. QED
    BY <2>1 DEF OpenSlots
<1>6. PICK f : f = [t \in 1..s |-> Compaction[t]]
  OBVIOUS
<1>7. f \in Injection(1..s, OpenSlots)
  <2>1. f \in [1..s -> OpenSlots]
    BY <1>5, <1>6
  <2>2. \A t, u \in 1..s : f[t] = f[u] => t = u
    BY <1>1, <1>4, <1>6 DEF Injective
  <2>3. QED
    BY <2>1, <2>2 DEF Injection, IsInjective
<1>8. Cardinality(1..s) <= Cardinality(OpenSlots)
  BY <1>2, <1>7, FS_Injection
<1>9. Cardinality(1..s) = s
  BY <1>4, FS_Interval, SlotsAre
<1>10. QED
  BY <1>2, <1>4, <1>8, <1>9

\* No listing puts a connection in two rows.
LEMMA ArrangementsAre ==
  ASSUME NEW q \in Arrangements
  PROVE  /\ q \in [Slot -> Slot]
         /\ \A s, t \in Slot : IsOpen(q[s]) /\ q[s] = q[t] => s = t
<1>1. PICK k : k = Cardinality(OpenSlots)
  OBVIOUS
<1>2. q \in [Slot -> Slot]
  BY DEF Arrangements
<1>3. \/ q = Compaction
      \/ /\ \A s \in Slot : s > k => q[s] = Compaction[s]
         /\ {q[s] : s \in 1..k} = OpenSlots
  BY <1>1 DEF Arrangements
<1>4. CASE q = Compaction
  BY <1>2, <1>4, CompactionIs DEF Injective
<1>5. CASE /\ \A s \in Slot : s > k => q[s] = Compaction[s]
           /\ {q[s] : s \in 1..k} = OpenSlots
  <2>1. IsFiniteSet(OpenSlots) /\ k \in Nat /\ k <= MaxClients /\ MaxClients \in Nat
    <3>1. IsFiniteSet(Slot) /\ Cardinality(Slot) = MaxClients /\ MaxClients \in Nat
      BY BoundsAssumption, FS_Interval DEF Slot
    <3>2. OpenSlots \in SUBSET Slot
      BY DEF OpenSlots
    <3>3. QED
      BY <1>1, <3>1, <3>2, FS_Subset, FS_CardinalityType
  <2>2. 1..k \subseteq Slot
    BY <2>1 DEF Slot
  <2>3. PICK f : f = [s \in 1..k |-> q[s]]
    OBVIOUS
  <2>4. f \in Surjection(1..k, OpenSlots)
    <3>1. f \in [1..k -> OpenSlots]
      BY <1>5, <2>3
    <3>2. \A t \in OpenSlots : \E s \in 1..k : f[s] = t
      BY <1>5, <2>3
    <3>3. QED
      BY <3>1, <3>2 DEF Surjection
  <2>5. IsFiniteSet(1..k) /\ Cardinality(1..k) = k
    <3>1. /\ IsFiniteSet(1..k)
          /\ Cardinality(1..k) = IF 1 > k THEN 0 ELSE k - 1 + 1
      BY <2>1, FS_Interval
    <3>2. QED
      BY <2>1, <3>1
  <2>6. f \in Injection(1..k, OpenSlots)
    BY <1>1, <2>4, <2>5, FS_SurjSameCardinalityImpliesInj
  <2>7. \A s, t \in 1..k : q[s] = q[t] => s = t
    BY <2>3, <2>6 DEF Injection, IsInjective
  <2>8. \A s \in Slot : IsOpen(q[s]) => s \in 1..k
    <3>1. ASSUME NEW s \in Slot, IsOpen(q[s])
          PROVE  s \in 1..k
      <4>1. ~(s > k)
        BY <1>1, <1>5, <3>1, HolesBehind
      <4>2. QED
        BY <2>1, <4>1 DEF Slot
    <3>2. QED
      BY <3>1
  <2>9. QED
    BY <1>2, <2>7, <2>8
<1>6. QED
  BY <1>3, <1>4, <1>5

-----------------------------------------------------------------------------
(* Part 3: lines *)

\* No client dies inside a line, which leaves the offset to the slot's next
\* connection.
WholeLines == Fragment = {}

\* No listing gives the row of its sender to another connection, whose buffer
\* handle_client would go on with, and whose offset it would set to zero in the
\* sender's place.  The row may be left empty.
InPlace == SortUsers => sockets'[serving] \in {sockets[serving], None}

\* Each connection has one slot, and an empty slot is as it was at first.
RowsInv ==
  /\ \A s, t \in Slot : IsOpen(s) /\ sockets[s] = sockets[t] => s = t
  /\ \A s \in Slot : IsOpen(s) => peer[sockets[s]] # "idle"
  /\ \A s \in Slot : ~IsOpen(s) => offsets[s] = 0
  /\ pc = "serve" => IsOpen(serving)

StreamsInv ==
  \A c \in Client :
    /\ Len(handled[c]) <= Len(lines[c])
    /\ \A i \in 1..Len(wire[c]) : wire[c][i] # Null
    /\ peer[c] = "idle" => wire[c] = <<>> /\ Unhandled(c) = <<>>

\* What the buffer holds was searched up to the offset, and together with what
\* was not read yet it is the lines that wait.
Collected(buffer, offset, z, rest, pending) ==
  /\ Holds(buffer, z) /\ offset \in 0..z
  /\ \A i \in 0..(offset - 1) : buffer[i] # Newline
  /\ Joined(Text(buffer) \o rest, pending)

BytesInv ==
  \A s \in Slot, c \in Client : sockets[s] = c =>
    \E z : /\ Collected(messages[s], offsets[s], z, wire[c], Unhandled(c))
           /\ offsets[s] = z \/ (pc = "serve" /\ serving = s)

LineInv == RowsInv /\ StreamsInv /\ BytesInv

\* The server has crashed, or cannot but crash: the row of the sender is empty.
Stopped == pc = "crashed" \/ (pc = "serve" /\ ~IsOpen(serving))

EmptyInv == \A s \in Slot : ~IsOpen(s) => messages[s] = None

\* What is left of BytesInv once it stopped: whatever the offsets are, the
\* bytes are all there.
KeptInv ==
  \A s \in Slot, c \in Client : sockets[s] = c =>
    \E z : /\ Holds(messages[s], z)
           /\ Joined(Text(messages[s]) \o wire[c], Unhandled(c))

FramingInv == TypeInv /\ EmptyInv /\ StreamsInv /\ KeptInv /\ (LineInv \/ Stopped)

LEMMA LineFacts ==
  ASSUME NEW line \in Line
  PROVE  line \in Seq(Byte) /\ IsLine(line) /\ Len(line) <= Capacity
BY LineAssumption

\* The elements of a sequence behind the first few.
LEMMA RestIs ==
  ASSUME NEW S, NEW seq \in Seq(S), NEW h \in 0..Len(seq)
  PROVE  /\ SubSeq(seq, h + 1, Len(seq)) \in Seq(S)
         /\ Len(SubSeq(seq, h + 1, Len(seq))) = Len(seq) - h
         /\ \A i \in 1..Len(seq) - h : SubSeq(seq, h + 1, Len(seq))[i] = seq[h + i]
<1>1. PICK n, from : n = Len(seq) /\ from = h + 1
  OBVIOUS
<1>2. n \in Nat /\ from \in 1..n + 1 /\ h \in 0..n
  BY <1>1
<1>3. \A i \in from..n : seq[i] \in S
  BY <1>1, <1>2
<1>4. /\ SubSeq(seq, from, n) \in Seq(S)
      /\ Len(SubSeq(seq, from, n)) = IF from <= n THEN n - from + 1 ELSE 0
      /\ \A i \in 1..n - from + 1 : SubSeq(seq, from, n)[i] = seq[from + i - 1]
  BY <1>2, <1>3, SubSeqProperties
<1>5. n - from + 1 = n - h /\ \A i \in 1..n - h : from + i - 1 = h + i
  BY <1>1, <1>2
<1>6. Len(SubSeq(seq, from, n)) = n - h
  BY <1>1, <1>2, <1>4
<1>7. QED
  BY <1>1, <1>4, <1>5, <1>6

LEMMA RestTail ==
  ASSUME NEW S, NEW seq \in Seq(S), NEW h \in 0..(Len(seq) - 1)
  PROVE  /\ SubSeq(seq, h + 1, Len(seq)) # <<>>
         /\ Tail(SubSeq(seq, h + 1, Len(seq))) = SubSeq(seq, (h + 1) + 1, Len(seq))
<1>1. h + 1 \in 1..Len(seq) /\ Len(seq) \in (h + 1)..Len(seq) /\ h \in 0..Len(seq) /\ Len(seq) - h # 0
  OBVIOUS
<1>2. Tail(SubSeq(seq, h + 1, Len(seq))) = SubSeq(seq, (h + 1) + 1, Len(seq))
  BY <1>1, HeadTailOfSubSeq
<1>3. Len(SubSeq(seq, h + 1, Len(seq))) # 0
  BY <1>1, RestIs
<1>4. SubSeq(seq, h + 1, Len(seq)) # <<>>
  BY <1>3, EmptySeq
<1>5. QED
  BY <1>2, <1>4

LEMMA RestMore ==
  ASSUME NEW S, NEW seq \in Seq(S), NEW h \in 0..Len(seq), NEW x \in S
  PROVE  SubSeq(Append(seq, x), h + 1, Len(Append(seq, x))) = Append(SubSeq(seq, h + 1, Len(seq)), x)
<1>1. PICK n, rest, more, all :
        /\ n = Len(seq) /\ rest = SubSeq(seq, h + 1, Len(seq)) /\ all = Append(seq, x)
        /\ more = SubSeq(all, h + 1, Len(all))
  OBVIOUS
<1>2. /\ n \in Nat /\ h \in 0..n /\ all \in Seq(S) /\ Len(all) = n + 1 /\ h \in 0..Len(all)
      /\ all[n + 1] = x /\ \A i \in 1..n : all[i] = seq[i]
  BY <1>1
<1>3. rest \in Seq(S) /\ Len(rest) = n - h /\ \A i \in 1..n - h : rest[i] = seq[h + i]
  BY <1>1, <1>2, RestIs
<1>4. more \in Seq(S) /\ Len(more) = (n + 1) - h /\ \A i \in 1..(n + 1) - h : more[i] = all[h + i]
  <2>1. /\ SubSeq(all, h + 1, Len(all)) \in Seq(S)
        /\ Len(SubSeq(all, h + 1, Len(all))) = Len(all) - h
        /\ \A i \in 1..Len(all) - h : SubSeq(all, h + 1, Len(all))[i] = all[h + i]
    BY <1>2, RestIs
  <2>2. QED
    BY <1>1, <1>2, <2>1, Zenon
<1>5. PICK k \in Nat : k = n - h
  BY <1>2
<1>6. /\ Append(rest, x) \in Seq(S) /\ Len(Append(rest, x)) = k + 1
      /\ Append(rest, x)[k + 1] = x /\ \A i \in 1..k : Append(rest, x)[i] = rest[i]
  <2>1. rest \in Seq(S) /\ Len(rest) = k
    BY <1>3, <1>5
  <2>2. QED
    BY <2>1, AppendProperties
<1>7. ASSUME NEW i \in 1..k + 1
      PROVE  more[i] = Append(rest, x)[i]
  <2>1. more[i] = all[h + i]
    BY <1>2, <1>4, <1>5
  <2>2. CASE i = k + 1
    BY <1>2, <1>5, <1>6, <2>1, <2>2
  <2>3. CASE i # k + 1
    <3>1. i \in 1..k /\ h + i \in 1..n /\ i \in 1..n - h
      BY <1>2, <1>5, <2>3
    <3>2. QED
      BY <1>2, <1>3, <1>6, <2>1, <3>1
  <2>4. QED
    BY <2>2, <2>3
<1>8. Len(more) = k + 1
  BY <1>2, <1>4, <1>5
<1>9. more = Append(rest, x)
  BY <1>4, <1>6, <1>7, <1>8, SeqEqual
<1>10. QED
  BY <1>1, <1>9

\* The lines of a client that were not handled.
LEMMA PendingIs ==
  ASSUME TypeOK, StreamsInv, NEW c \in Client
  PROVE  /\ Unhandled(c) \in Seq(Line) /\ Unhandled(c) \in Seq(Seq(Byte))
         /\ \A j \in 1..Len(Unhandled(c)) : IsLine(Unhandled(c)[j]) /\ Len(Unhandled(c)[j]) <= Capacity
<1>1. PICK seq, h : seq = lines[c] /\ h = Len(handled[c])
  OBVIOUS
<1>2. seq \in Seq(Line) /\ h \in 0..Len(seq)
  <2>1. lines[c] \in Seq(Line) /\ handled[c] \in Seq(Seq(Byte))
    BY DEF TypeOK
  <2>2. Len(lines[c]) \in Nat /\ Len(handled[c]) \in Nat /\ Len(handled[c]) <= Len(lines[c])
    BY <2>1 DEF StreamsInv
  <2>3. QED
    BY <1>1, <2>1, <2>2
<1>3. PICK pending : pending = Unhandled(c)
  OBVIOUS
<1>4. pending \in Seq(Line)
  BY <1>1, <1>2, <1>3, RestIs DEF Unhandled
<1>5. \A j \in 1..Len(pending) : pending[j] \in Line
  BY <1>4
<1>6. \A j \in 1..Len(pending) : pending[j] \in Seq(Byte) /\ IsLine(pending[j]) /\ Len(pending[j]) <= Capacity
  BY <1>5, LineFacts
<1>7. pending \in Seq(Seq(Byte))
  <2>1. Line \subseteq Seq(Byte)
    BY LineFacts
  <2>2. QED
    BY <1>4, <2>1
<1>8. QED
  BY <1>3, <1>4, <1>6, <1>7

\* The message handle_client finds is the first line that waits, and it leaves
\* the others.
LEMMA ServedIs ==
  ASSUME TypeInv, LineInv, HasMessage
  PROVE  \E c, z, end :
           /\ c \in Client /\ serving \in Slot /\ c = sockets[serving] /\ end = LineEnd + 1
           /\ Unhandled(c) # <<>> /\ Message = Unhandled(c)[1] /\ Message \in Line
           /\ Remaining(Served, end) \in Buffer
           /\ Holds(Remaining(Served, end), z)
           /\ Joined(Text(Remaining(Served, end)) \o wire[c], Tail(Unhandled(c)))
<1>1. TypeOK /\ BuffersInv /\ RowsInv /\ StreamsInv /\ BytesInv
  BY DEF TypeInv, LineInv
<1>2. serving \in Slot /\ IsOpen(serving) /\ sockets[serving] \in Client
  BY <1>1 DEF TypeOK, RowsInv, HasMessage, IsOpen
<1>3. PICK c, buffer, start, rest, pending :
        /\ c = sockets[serving] /\ buffer = Served /\ start = offsets[serving]
        /\ rest = wire[c] /\ pending = Unhandled(c)
  OBVIOUS
<1>4. c \in Client /\ buffer = messages[serving] /\ FindMessageEnd(buffer, start) # -1
  BY <1>2, <1>3 DEF Served, HasMessage, LineEnd
<1>5. PICK z : Collected(buffer, start, z, rest, pending)
  BY <1>1, <1>2, <1>3, <1>4 DEF BytesInv
<1>6. buffer \in Buffer /\ rest \in Seq(Byte)
  BY <1>1, <1>2, <1>3, <1>4 DEF TypeOK, BuffersInv, NullEnded
<1>7. /\ pending \in Seq(Line) /\ pending \in Seq(Seq(Byte))
      /\ \A j \in 1..Len(pending) : IsLine(pending[j])
  BY <1>1, <1>3, <1>4, PendingIs
<1>8. PICK end : end = FindMessageEnd(buffer, start) + 1
  OBVIOUS
<1>9. /\ pending # <<>> /\ end \in 1..z
      /\ FirstMessage(buffer, end) = pending[1]
      /\ Remaining(buffer, end) \in Buffer
      /\ Holds(Remaining(buffer, end), z - end)
      /\ Joined(Text(Remaining(buffer, end)) \o rest, Tail(pending))
  <2>1. /\ Holds(buffer, z) /\ start \in 0..z
        /\ \A i \in 0..(start - 1) : buffer[i] # Newline
        /\ Joined(Text(buffer) \o rest, pending)
    BY <1>5 DEF Collected
  <2>2. QED
    BY <1>4, <1>6, <1>7, <1>8, <2>1, FirstLineIs
<1>10. end = LineEnd + 1 /\ Message = FirstMessage(buffer, end)
  BY <1>3, <1>8 DEF LineEnd, Message
<1>11. pending[1] \in Line
  <2>1. 1 \in 1..Len(pending)
    BY <1>7, <1>9
  <2>2. QED
    BY <1>7, <2>1
<1>12. PICK left : left = z - end
  OBVIOUS
<1>13. QED
  BY <1>2, <1>3, <1>4, <1>9, <1>10, <1>11, <1>12

\* A search that finds no newline has gone through the whole string.
LEMMA SearchedIs ==
  ASSUME NEW buffer, NEW offset, NEW z, NEW rest, NEW pending,
         Collected(buffer, offset, z, rest, pending), FindMessageEnd(buffer, offset) = -1
  PROVE  Collected(buffer, z, z, rest, pending) /\ StringEnd(buffer, 0) = z
<1>1. /\ Holds(buffer, z) /\ offset \in 0..z
      /\ \A i \in 0..(offset - 1) : buffer[i] # Newline
      /\ Joined(Text(buffer) \o rest, pending)
  BY DEF Collected
<1>2. z \in Nat
  BY <1>1, CapacityAssumption DEF Holds
<1>3. \A i \in offset..(z - 1) : buffer[i] # Newline
  BY <1>1, NoMessageEnd
<1>4. \A i \in 0..(z - 1) : buffer[i] # Newline
  <2> TAKE i \in 0..(z - 1)
  <2>1. i \in 0..(offset - 1) \/ i \in offset..(z - 1)
    BY <1>1, <1>2
  <2>2. QED
    BY <1>1, <1>3, <2>1
<1>5. z \in 0..z /\ 0 \in 0..z
  BY <1>2
<1>6. StringEnd(buffer, 0) = z
  BY <1>1, <1>5, StringEndIs
<1>7. QED
  BY <1>1, <1>4, <1>5, <1>6 DEF Collected

\* A slot that a step has not touched.
LEMMA RowStays ==
  ASSUME BytesInv, NEW t \in Slot, NEW c \in Client, sockets[t] = c,
         messages'[t] = messages[t], offsets'[t] = offsets[t], wire'[c] = wire[c],
         Unhandled(c)' = Unhandled(c),
         pc = "serve" /\ serving = t => pc' = "serve" /\ serving' = t
  PROVE  \E z : /\ Collected(messages'[t], offsets'[t], z, wire'[c], Unhandled(c)')
                /\ offsets'[t] = z \/ (pc' = "serve" /\ serving' = t)
<1>1. PICK z : /\ Collected(messages[t], offsets[t], z, wire[c], Unhandled(c))
               /\ offsets[t] = z \/ (pc = "serve" /\ serving = t)
  BY DEF BytesInv
<1>2. Collected(messages'[t], offsets'[t], z, wire'[c], Unhandled(c)')
  BY <1>1
<1>3. offsets'[t] = z \/ (pc' = "serve" /\ serving' = t)
  BY <1>1
<1>4. QED
  BY <1>2, <1>3

LEMMA UnhandledSame ==
  ASSUME NEW c \in Client, lines'[c] = lines[c], handled'[c] = handled[c]
  PROVE  Unhandled(c)' = Unhandled(c)
BY DEF Unhandled

LEMMA EstablishLines ==
  ASSUME TypeInv, LineInv, EstablishConnection
  PROVE  LineInv'
<1>1. TypeOK /\ BuffersInv /\ RowsInv /\ StreamsInv /\ BytesInv
  BY DEF TypeInv, LineInv
<1>2. PICK d \in Client, s \in Slot :
        /\ peer[d] = "idle" /\ Vacant(s)
        /\ peer' = [peer EXCEPT ![d] = "up"]
        /\ sockets' = [sockets EXCEPT ![s] = d]
        /\ \E b \in Malloced(offsets[s]) : messages' = [messages EXCEPT ![s] = b]
  BY DEF EstablishConnection
<1>3. PICK b \in Malloced(offsets[s]) : messages' = [messages EXCEPT ![s] = b]
  BY <1>2
<1>4. UNCHANGED <<offsets, pc, serving, wire, lines, handled>> /\ pc = "select"
  BY DEF EstablishConnection
<1>5. offsets[s] = 0 /\ sockets[s] = None /\ d # None
  BY <1>1, <1>2, ClientAssumption DEF Vacant, RowsInv, IsOpen
<1>6. \A c \in Client : Unhandled(c)' = Unhandled(c) /\ wire'[c] = wire[c]
  BY <1>4, UnhandledSame
<1>7. \A t \in Slot : /\ t # s => sockets'[t] = sockets[t] /\ messages'[t] = messages[t]
                      /\ sockets'[s] = d /\ messages'[s] = b
  BY <1>1, <1>2, <1>3 DEF TypeOK
<1>8. \A t \in Slot : sockets[t] # d
  BY <1>1, <1>2, <1>5 DEF RowsInv, IsOpen
<1>9. RowsInv'
  <2>1. \A t, u \in Slot : sockets'[t] # None /\ sockets'[t] = sockets'[u] => t = u
    BY <1>1, <1>7, <1>8 DEF RowsInv, IsOpen
  <2>2. \A t \in Slot : sockets'[t] # None => peer'[sockets'[t]] # "idle"
    BY <1>1, <1>2, <1>7 DEF RowsInv, IsOpen, TypeOK
  <2>3. \A t \in Slot : sockets'[t] = None => offsets'[t] = 0
    BY <1>1, <1>4, <1>5, <1>7 DEF RowsInv, IsOpen
  <2>4. pc' # "serve"
    BY <1>4
  <2>5. QED
    BY <2>1, <2>2, <2>3, <2>4 DEF RowsInv, IsOpen
<1>10. StreamsInv'
  <2>1. \A c \in Client : peer'[c] = "idle" => peer[c] = "idle"
    BY <1>1, <1>2 DEF TypeOK
  <2>2. QED
    BY <1>1, <1>4, <1>6, <2>1 DEF StreamsInv
<1>11. ASSUME NEW t \in Slot, NEW c \in Client, sockets'[t] = c
       PROVE  \E z : /\ Collected(messages'[t], offsets'[t], z, wire'[c], Unhandled(c)')
                     /\ offsets'[t] = z \/ (pc' = "serve" /\ serving' = t)
  <2>1. CASE t = s
    <3>1. c = d /\ messages'[t] = b /\ offsets'[t] = 0
      BY <1>4, <1>5, <1>7, <1>11, <2>1
    <3>2. Unhandled(c)' = <<>> /\ wire'[c] = <<>>
      BY <1>1, <1>2, <1>6, <3>1 DEF StreamsInv
    <3>3. b \in Buffer /\ b[0] = Null /\ Capacity \in Nat
      BY <1>3, <1>5, CapacityAssumption DEF Malloced
    <3>4. Holds(b, 0)
      BY <3>3 DEF Holds
    <3>5. Text(b) = <<>>
      <4>1. Text(b) \in Seq(Byte) /\ Len(Text(b)) = 0
        BY <3>3, <3>4, TextIs
      <4>2. QED
        BY <4>1, EmptySeq
    <3>6. Joined(Text(b) \o <<>>, <<>>)
      <4>1. Joined(<<>>, <<>>)
        BY JoinedEmpty, EmptySeq
      <4>2. <<>> \o <<>> = <<>>
        BY ConcatEmptySeq, EmptySeq
      <4>3. QED
        BY <3>5, <4>1, <4>2
    <3>7. Collected(b, 0, 0, <<>>, <<>>)
      BY <3>4, <3>6 DEF Collected
    <3>8. QED
      BY <3>1, <3>2, <3>7
  <2>2. CASE t # s
    <3>1. sockets[t] = c /\ messages'[t] = messages[t] /\ offsets'[t] = offsets[t]
      BY <1>4, <1>7, <1>11, <2>2
    <3>2. QED
      BY <1>1, <1>4, <1>6, <3>1, RowStays
  <2>3. QED
    BY <2>1, <2>2
<1>12. BytesInv'
  BY <1>11 DEF BytesInv
<1>13. QED
  BY <1>9, <1>10, <1>12 DEF LineInv

LEMMA WriteLines ==
  ASSUME TypeInv, LineInv, NEW d \in Client, NEW line \in Line, Write(d, line)
  PROVE  /\ LineInv'
         /\ Unhandled(d)' = Append(Unhandled(d), line)
         /\ \A c \in Client : c # d => Unhandled(c)' = Unhandled(c)
         /\ handled' = handled
<1>1. TypeOK /\ BuffersInv /\ RowsInv /\ StreamsInv /\ BytesInv
  BY DEF TypeInv, LineInv
<1>2. /\ pc = "select" /\ peer[d] = "up"
      /\ wire' = [wire EXCEPT ![d] = @ \o line]
      /\ lines' = [lines EXCEPT ![d] = Append(@, line)]
      /\ UNCHANGED <<sockets, messages, offsets, users, pc, serving, peer, handled>>
  BY DEF Write, table
<1>3. PICK w, seq, h : w = wire[d] /\ seq = lines[d] /\ h = Len(handled[d])
  OBVIOUS
<1>4. /\ w \in Seq(Byte) /\ seq \in Seq(Line) /\ h \in 0..Len(seq) /\ Len(seq) \in Nat
      /\ line \in Seq(Byte) /\ IsLine(line)
  <2>1. w \in Seq(Byte) /\ seq \in Seq(Line) /\ handled[d] \in Seq(Seq(Byte))
    BY <1>1, <1>3 DEF TypeOK
  <2>2. h \in Nat /\ Len(seq) \in Nat /\ h <= Len(seq)
    BY <1>1, <1>3, <2>1 DEF StreamsInv
  <2>3. QED
    BY <2>1, <2>2, LineFacts
<1>5. /\ wire'[d] = w \o line /\ lines'[d] = Append(seq, line)
      /\ \A c \in Client : c # d => wire'[c] = wire[c] /\ lines'[c] = lines[c]
  BY <1>1, <1>2, <1>3 DEF TypeOK
<1>6. Unhandled(d)' = Append(Unhandled(d), line)
  <2>1. SubSeq(Append(seq, line), h + 1, Len(Append(seq, line))) = Append(SubSeq(seq, h + 1, Len(seq)), line)
    BY <1>4, RestMore
  <2>2. QED
    BY <1>2, <1>3, <1>5, <2>1 DEF Unhandled
<1>7. \A c \in Client : c # d => Unhandled(c)' = Unhandled(c)
  BY <1>2, <1>5 DEF Unhandled
<1>8. RowsInv'
  BY <1>1, <1>2 DEF RowsInv, IsOpen
<1>9. StreamsInv'
  <2>1. Len(handled'[d]) <= Len(lines'[d])
    <3>1. Len(Append(seq, line)) = Len(seq) + 1
      BY <1>4
    <3>2. QED
      BY <1>2, <1>3, <1>4, <1>5, <3>1
  <2>2. \A i \in 1..Len(wire'[d]) : wire'[d][i] # Null
    <3>1. Len(w) \in Nat /\ \A i \in 1..Len(w) : w[i] # Null
      BY <1>1, <1>3, <1>4 DEF StreamsInv
    <3>2. Len(line) \in Nat /\ \A i \in 1..Len(line) : line[i] # Null
      BY <1>4, LineIs
    <3>3. /\ Len(w \o line) = Len(w) + Len(line)
          /\ \A i \in 1..Len(w) + Len(line) : (w \o line)[i] = IF i <= Len(w) THEN w[i] ELSE line[i - Len(w)]
      BY <1>4, ConcatProperties
    <3>4. ASSUME NEW i \in 1..Len(w) + Len(line)
          PROVE  (w \o line)[i] # Null
      <4>1. CASE i <= Len(w)
        <5>1. i \in 1..Len(w)
          BY <3>1, <4>1
        <5>2. QED
          BY <3>1, <3>3, <4>1, <5>1
      <4>2. CASE ~(i <= Len(w))
        <5>1. i - Len(w) \in 1..Len(line)
          BY <3>1, <3>2, <4>2
        <5>2. QED
          BY <3>2, <3>3, <4>2, <5>1
      <4>3. QED
        BY <4>1, <4>2
    <3>5. QED
      BY <1>5, <3>3, <3>4
  <2>3. peer'[d] # "idle"
    BY <1>2
  <2>4. ASSUME NEW c \in Client, c # d
        PROVE  /\ Len(handled'[c]) <= Len(lines'[c])
               /\ \A i \in 1..Len(wire'[c]) : wire'[c][i] # Null
               /\ peer'[c] = "idle" => wire'[c] = <<>> /\ Unhandled(c)' = <<>>
    BY <1>1, <1>2, <1>5, <1>7, <2>4 DEF StreamsInv
  <2>5. QED
    BY <2>1, <2>2, <2>3, <2>4 DEF StreamsInv
<1>10. ASSUME NEW t \in Slot, NEW c \in Client, sockets'[t] = c
       PROVE  \E z : /\ Collected(messages'[t], offsets'[t], z, wire'[c], Unhandled(c)')
                     /\ offsets'[t] = z \/ (pc' = "serve" /\ serving' = t)
  <2>1. CASE c = d
    <3>1. PICK buffer, offset, pending : buffer = messages[t] /\ offset = offsets[t] /\ pending = Unhandled(d)
      OBVIOUS
    <3>2. PICK z : Collected(buffer, offset, z, w, pending) /\ offset = z
      BY <1>1, <1>2, <1>3, <1>10, <2>1, <3>1 DEF BytesInv
    <3>3. /\ Holds(buffer, z) /\ offset \in 0..z
          /\ \A i \in 0..(offset - 1) : buffer[i] # Newline
          /\ Joined(Text(buffer) \o w, pending)
      BY <3>2 DEF Collected
    <3>4. d # None /\ buffer \in Buffer /\ pending \in Seq(Seq(Byte))
      BY <1>1, <1>2, <1>10, <2>1, <3>1, PendingIs, ClientAssumption DEF BuffersInv, IsOpen, NullEnded
    <3>5. PICK text : text = Text(buffer)
      OBVIOUS
    <3>6. text \in Seq(Byte)
      BY <3>3, <3>4, <3>5, TextIs
    <3>7. text \o w \in Seq(Byte) /\ (text \o w) \o line = text \o (w \o line)
      <4>1. text \o w \in Seq(Byte)
        BY <1>4, <3>6, ConcatProperties
      <4>2. (text \o w) \o line = text \o (w \o line)
        BY <1>4, <3>6, ConcatAssociative
      <4>3. QED
        BY <4>1, <4>2
    <3>8. PICK bytes : bytes = text \o w
      OBVIOUS
    <3>9. Joined(bytes \o line, Append(pending, line))
      BY <1>4, <3>3, <3>4, <3>5, <3>7, <3>8, JoinedMore
    <3>10. Collected(buffer, offset, z, w \o line, Append(pending, line))
      BY <3>3, <3>5, <3>7, <3>8, <3>9 DEF Collected
    <3>11. QED
      BY <1>2, <1>5, <1>6, <2>1, <3>1, <3>2, <3>10
  <2>2. CASE c # d
    BY <1>1, <1>2, <1>5, <1>7, <1>10, <2>2, RowStays
  <2>3. QED
    BY <2>1, <2>2
<1>11. BytesInv'
  BY <1>10 DEF BytesInv
<1>12. QED
  BY <1>2, <1>6, <1>7, <1>8, <1>9, <1>11 DEF LineInv

LEMMA HangupLines ==
  ASSUME TypeInv, LineInv, NEW d \in Client, Hangup(d, <<>>)
  PROVE  LineInv'
<1>1. TypeOK /\ BuffersInv /\ RowsInv /\ StreamsInv /\ BytesInv
  BY DEF TypeInv, LineInv
<1>2. /\ pc = "select" /\ peer[d] = "up"
      /\ peer' = [peer EXCEPT ![d] = "fin"]
      /\ wire' = [wire EXCEPT ![d] = @ \o <<>>]
      /\ UNCHANGED <<sockets, messages, offsets, users, pc, serving, lines, handled>>
  BY DEF Hangup, table
<1>3. \A c \in Client : wire'[c] = wire[c] /\ Unhandled(c)' = Unhandled(c)
  <2>1. wire[d] \in Seq(Byte)
    BY <1>1 DEF TypeOK
  <2>2. wire[d] \o <<>> = wire[d]
    BY <2>1, ConcatEmptySeq
  <2>3. QED
    BY <1>1, <1>2, <2>2, UnhandledSame DEF TypeOK
<1>4. RowsInv'
  BY <1>1, <1>2 DEF RowsInv, IsOpen, TypeOK
<1>5. StreamsInv'
  <2>1. \A c \in Client : peer'[c] = "idle" => peer[c] = "idle"
    BY <1>1, <1>2 DEF TypeOK
  <2>2. QED
    BY <1>1, <1>2, <1>3, <2>1 DEF StreamsInv
<1>6. ASSUME NEW t \in Slot, NEW c \in Client, sockets'[t] = c
      PROVE  \E z : /\ Collected(messages'[t], offsets'[t], z, wire'[c], Unhandled(c)')
                    /\ offsets'[t] = z \/ (pc' = "serve" /\ serving' = t)
  BY <1>1, <1>2, <1>3, <1>6, RowStays
<1>7. BytesInv'
  BY <1>6 DEF BytesInv
<1>8. QED
  BY <1>4, <1>5, <1>7 DEF LineInv

LEMMA ReceiveBytesLines ==
  ASSUME TypeInv, LineInv, NEW s \in Slot, ReceiveBytes(s)
  PROVE  LineInv'
<1>1. TypeOK /\ BuffersInv /\ RowsInv /\ StreamsInv /\ BytesInv
  BY DEF TypeInv, LineInv
<1>2. /\ pc = "select" /\ IsOpen(s) /\ pc' = "serve" /\ serving' = s
      /\ UNCHANGED <<sockets, offsets, users, peer, lines, handled>>
  BY DEF ReceiveBytes
<1>3. PICK d, buffer, offset, w, pending :
        /\ d = sockets[s] /\ buffer = messages[s] /\ offset = offsets[s]
        /\ w = wire[d] /\ pending = Unhandled(d)
  OBVIOUS
<1>4. /\ d \in Client /\ offset \in 0..Capacity /\ w \in Seq(Byte) /\ Capacity \in Nat /\ Len(w) \in Nat
      /\ buffer \in Buffer
  BY <1>1, <1>2, <1>3, CapacityAssumption DEF IsOpen, TypeOK, BuffersInv, NullEnded
<1>5. PICK n \in 1..Min({Capacity - offset, Len(w)}) :
        /\ messages' = [messages EXCEPT ![s] = Stored(@, offset, SubSeq(w, 1, n))]
        /\ wire' = [wire EXCEPT ![d] = SubSeq(@, n + 1, Len(@))]
  BY <1>3 DEF ReceiveBytes, Room
<1>6. n \in Nat /\ 1 <= n /\ n <= Capacity - offset /\ n <= Len(w) /\ n \in 1..Len(w)
  BY <1>4, <1>5, MinOfTwo
<1>7. PICK new, left : new = Stored(buffer, offset, SubSeq(w, 1, n)) /\ left = SubSeq(w, n + 1, Len(w))
  OBVIOUS
<1>8. /\ messages'[s] = new /\ wire'[d] = left
      /\ \A t \in Slot : t # s => messages'[t] = messages[t]
      /\ \A c \in Client : c # d => wire'[c] = wire[c]
  BY <1>1, <1>3, <1>4, <1>5, <1>7 DEF TypeOK
<1>9. \A c \in Client : Unhandled(c)' = Unhandled(c)
  BY <1>2, UnhandledSame
<1>10. PICK z : Collected(buffer, offset, z, w, pending) /\ offset = z
  BY <1>1, <1>2, <1>3, <1>4 DEF BytesInv
<1>11. /\ Holds(buffer, z) /\ offset \in 0..z
       /\ \A i \in 0..(z - 1) : buffer[i] # Newline
       /\ Joined(Text(buffer) \o w, pending)
  BY <1>10 DEF Collected
<1>12. /\ new \in Buffer
       /\ Holds(new, z + n)
       /\ \A i \in 0..(z - 1) : new[i] = buffer[i]
       /\ Text(new) \o left = Text(buffer) \o w
  <2>1. \A i \in 1..Len(w) : w[i] # Null
    BY <1>1, <1>3, <1>4 DEF StreamsInv
  <2>2. z + n <= Capacity
    BY <1>4, <1>6, <1>10
  <2>3. LET result == Stored(buffer, z, SubSeq(w, 1, n)) IN
        /\ result \in Buffer
        /\ Holds(result, z + n)
        /\ \A i \in 0..(z - 1) : result[i] = buffer[i]
        /\ Text(result) \o SubSeq(w, n + 1, Len(w)) = Text(buffer) \o w
    BY <1>4, <1>6, <1>11, <2>1, <2>2, StoredJoined
  <2>4. QED
    BY <1>7, <1>10, <2>3
<1>13. PICK y : y = z + n
  OBVIOUS
<1>14. Collected(new, offset, y, left, pending)
  <2>1. offset \in 0..y
    BY <1>4, <1>6, <1>10, <1>13
  <2>2. \A i \in 0..(offset - 1) : new[i] # Newline
    BY <1>10, <1>11, <1>12
  <2>3. QED
    BY <1>11, <1>12, <1>13, <2>1, <2>2 DEF Collected
<1>15. RowsInv'
  BY <1>1, <1>2 DEF RowsInv, IsOpen
<1>16. StreamsInv'
  <2>1. ASSUME NEW i \in 1..Len(left)
        PROVE  left[i] # Null
    <3>1. n \in 0..Len(w)
      BY <1>4, <1>6
    <3>2. Len(left) = Len(w) - n /\ \A k \in 1..Len(w) - n : left[k] = w[n + k]
      BY <1>4, <1>7, <3>1, RestIs
    <3>3. n + i \in 1..Len(w)
      BY <1>4, <1>6, <3>2
    <3>4. QED
      BY <1>1, <1>3, <1>4, <3>2, <3>3 DEF StreamsInv
  <2>2. peer[d] # "idle"
    BY <1>1, <1>2, <1>3 DEF RowsInv
  <2>3. QED
    BY <1>1, <1>2, <1>8, <1>9, <2>1, <2>2 DEF StreamsInv
<1>17. ASSUME NEW t \in Slot, NEW c \in Client, sockets'[t] = c
       PROVE  \E x : /\ Collected(messages'[t], offsets'[t], x, wire'[c], Unhandled(c)')
                     /\ offsets'[t] = x \/ (pc' = "serve" /\ serving' = t)
  <2>1. CASE t = s
    BY <1>2, <1>3, <1>8, <1>9, <1>14, <1>17, <2>1
  <2>2. CASE t # s
    <3>1. c # d /\ sockets[t] = c
      BY <1>1, <1>2, <1>3, <1>17, <2>2 DEF RowsInv, IsOpen
    <3>2. QED
      BY <1>1, <1>2, <1>8, <1>9, <2>2, <3>1, RowStays
  <2>3. QED
    BY <2>1, <2>2
<1>18. BytesInv'
  BY <1>17 DEF BytesInv
<1>19. QED
  BY <1>15, <1>16, <1>18 DEF LineInv

\* A connection only ends when every line of it was handled, so it leaves the
\* slot's offset at zero.
LEMMA ReceiveEndLines ==
  ASSUME TypeInv, LineInv, NEW s \in Slot, ReceiveEnd(s)
  PROVE  LineInv'
<1>1. TypeOK /\ BuffersInv /\ RowsInv /\ StreamsInv /\ BytesInv
  BY DEF TypeInv, LineInv
<1>2. PICK d, buffer, offset, w, pending :
        /\ d = sockets[s] /\ buffer = messages[s] /\ offset = offsets[s]
        /\ w = wire[d] /\ pending = Unhandled(d)
  OBVIOUS
<1>3. /\ pc = "select" /\ IsOpen(s)
      /\ Room(s) = 0 \/ w = <<>>
      /\ peer' = [peer EXCEPT ![d] = "gone"]
      /\ wire' = [wire EXCEPT ![d] = <<>>]
      /\ sockets' = [sockets EXCEPT ![s] = None]
      /\ messages' = [messages EXCEPT ![s] = None]
      /\ UNCHANGED <<offsets, users, pc, serving, lines, handled>>
  BY <1>2 DEF ReceiveEnd, AtEnd
<1>4. /\ d \in Client /\ offset \in 0..Capacity /\ w \in Seq(Byte) /\ Capacity \in Nat
      /\ buffer \in Buffer
  BY <1>1, <1>2, <1>3, CapacityAssumption DEF IsOpen, TypeOK, BuffersInv, NullEnded
<1>5. PICK z : Collected(buffer, offset, z, w, pending) /\ offset = z
  BY <1>1, <1>2, <1>3, <1>4 DEF BytesInv
<1>6. /\ Holds(buffer, z)
      /\ \A i \in 0..(z - 1) : buffer[i] # Newline
      /\ Joined(Text(buffer) \o w, pending)
  BY <1>5 DEF Collected
<1>7. w = <<>> \/ z = Capacity
  BY <1>2, <1>3, <1>4, <1>5 DEF Room
<1>8. z = 0 /\ w = <<>>
  <2>1. /\ pending \in Seq(Seq(Byte))
        /\ \A j \in 1..Len(pending) : IsLine(pending[j]) /\ Len(pending[j]) <= Capacity
    BY <1>1, <1>2, <1>4, PendingIs
  <2>2. QED
    BY <1>4, <1>6, <1>7, <2>1, NoLineIs
<1>9. offsets[s] = 0
  BY <1>2, <1>5, <1>8
<1>10. /\ sockets'[s] = None
       /\ \A t \in Slot : t # s => sockets'[t] = sockets[t] /\ messages'[t] = messages[t]
       /\ \A c \in Client : wire'[c] = wire[c] /\ Unhandled(c)' = Unhandled(c)
  BY <1>1, <1>2, <1>3, <1>8, UnhandledSame DEF TypeOK
<1>11. RowsInv'
  <2>1. \A t, u \in Slot : sockets'[t] # None /\ sockets'[t] = sockets'[u] => t = u
    BY <1>1, <1>10 DEF RowsInv, IsOpen
  <2>2. \A t \in Slot : sockets'[t] # None => peer'[sockets'[t]] # "idle"
    BY <1>1, <1>3, <1>10 DEF RowsInv, IsOpen, TypeOK
  <2>3. \A t \in Slot : sockets'[t] = None => offsets'[t] = 0
    BY <1>1, <1>3, <1>9, <1>10 DEF RowsInv, IsOpen
  <2>4. pc' # "serve"
    BY <1>3
  <2>5. QED
    BY <2>1, <2>2, <2>3, <2>4 DEF RowsInv, IsOpen
<1>12. StreamsInv'
  <2>1. \A c \in Client : peer'[c] = "idle" => peer[c] = "idle"
    BY <1>1, <1>3 DEF TypeOK
  <2>2. QED
    BY <1>1, <1>3, <1>10, <2>1 DEF StreamsInv
<1>13. ASSUME NEW t \in Slot, NEW c \in Client, sockets'[t] = c
       PROVE  \E x : /\ Collected(messages'[t], offsets'[t], x, wire'[c], Unhandled(c)')
                     /\ offsets'[t] = x \/ (pc' = "serve" /\ serving' = t)
  <2>1. t # s
    BY <1>10, <1>13, ClientAssumption
  <2>2. sockets[t] = c
    BY <1>10, <1>13, <2>1
  <2>3. QED
    BY <1>1, <1>3, <1>10, <2>1, <2>2, RowStays
<1>14. BytesInv'
  BY <1>13 DEF BytesInv
<1>15. QED
  BY <1>11, <1>12, <1>14 DEF LineInv

\* A message that is handled is the first line that waits.
LEMMA HandleStreams ==
  ASSUME TypeInv, LineInv, HasMessage, Handle, UNCHANGED <<lines, wire, peer>>
  PROVE  /\ StreamsInv'
         /\ \E d, z, left :
              /\ d \in Client /\ serving \in Slot /\ d = sockets[serving]
              /\ Unhandled(d) # <<>>
              /\ handled' = [handled EXCEPT ![d] = Append(@, Unhandled(d)[1])]
              /\ Unhandled(d)' = Tail(Unhandled(d))
              /\ \A c \in Client : c # d => Unhandled(c)' = Unhandled(c)
              /\ left = Remaining(Served, LineEnd + 1) /\ left \in Buffer
              /\ Holds(left, z) /\ Joined(Text(left) \o wire'[d], Unhandled(d)')
<1>1. TypeOK /\ BuffersInv /\ RowsInv /\ StreamsInv /\ BytesInv
  BY DEF TypeInv, LineInv
<1>2. PICK d, z, end :
        /\ d \in Client /\ serving \in Slot /\ d = sockets[serving] /\ end = LineEnd + 1
        /\ Unhandled(d) # <<>> /\ Message = Unhandled(d)[1] /\ Message \in Line
        /\ Remaining(Served, end) \in Buffer
        /\ Holds(Remaining(Served, end), z)
        /\ Joined(Text(Remaining(Served, end)) \o wire[d], Tail(Unhandled(d)))
  BY ServedIs
<1>3. PICK left, message : left = Remaining(Served, end) /\ message = Message
  OBVIOUS
<1>4. /\ handled' = [handled EXCEPT ![d] = Append(@, message)]
      /\ UNCHANGED <<lines, wire, peer>>
  BY <1>2, <1>3 DEF Handle
<1>5. /\ handled'[d] = Append(handled[d], message)
      /\ \A c \in Client : c # d => handled'[c] = handled[c]
  BY <1>1, <1>2, <1>4 DEF TypeOK
<1>6. PICK seq, h : seq = lines[d] /\ h = Len(handled[d])
  OBVIOUS
<1>7. /\ seq \in Seq(Line) /\ Len(seq) \in Nat /\ h \in 0..(Len(seq) - 1)
      /\ Len(handled'[d]) = h + 1
  <2>1. seq \in Seq(Line) /\ handled[d] \in Seq(Seq(Byte)) /\ message \in Seq(Byte)
    BY <1>1, <1>2, <1>3, <1>6, LineFacts DEF TypeOK
  <2>2. h \in Nat /\ Len(seq) \in Nat /\ h <= Len(seq)
    BY <1>1, <1>2, <1>6, <2>1 DEF StreamsInv
  <2>3. h # Len(seq)
    <3>1. SUFFICES ASSUME h = Len(seq)
                   PROVE  FALSE
      OBVIOUS
    <3>2. h \in 0..Len(seq) /\ Len(seq) - h = 0
      BY <2>2, <3>1
    <3>3. Unhandled(d) \in Seq(Line) /\ Len(Unhandled(d)) = 0
      BY <1>6, <2>1, <3>2, RestIs DEF Unhandled
    <3>4. QED
      BY <1>2, <3>3, EmptySeq
  <2>4. Len(Append(handled[d], message)) = h + 1
    BY <1>6, <2>1
  <2>5. QED
    BY <1>5, <2>1, <2>2, <2>3, <2>4
<1>8. Unhandled(d)' = Tail(Unhandled(d))
  <2>1. Tail(SubSeq(seq, h + 1, Len(seq))) = SubSeq(seq, (h + 1) + 1, Len(seq))
    BY <1>7, RestTail
  <2>2. lines'[d] = seq
    BY <1>4, <1>6
  <2>3. QED
    BY <1>6, <1>7, <2>1, <2>2 DEF Unhandled
<1>9. \A c \in Client : c # d => Unhandled(c)' = Unhandled(c)
  BY <1>4, <1>5, UnhandledSame
<1>10. StreamsInv'
  <2>1. peer[d] # "idle"
    BY <1>1, <1>2, ClientAssumption DEF RowsInv, IsOpen
  <2>2. Len(handled'[d]) <= Len(lines'[d])
    BY <1>4, <1>6, <1>7
  <2>3. ASSUME NEW c \in Client, c # d
        PROVE  Len(handled'[c]) <= Len(lines'[c]) /\ Unhandled(c)' = Unhandled(c)
    BY <1>1, <1>4, <1>5, <1>9, <2>3 DEF StreamsInv
  <2>4. \A c \in Client : wire'[c] = wire[c] /\ peer'[c] = peer[c]
    BY <1>4
  <2>5. QED
    BY <1>1, <2>1, <2>2, <2>3, <2>4 DEF StreamsInv
<1>11. PICK pending : pending = Tail(Unhandled(d))
  OBVIOUS
<1>12. left \in Buffer /\ Holds(left, z) /\ Joined(Text(left) \o wire'[d], pending)
  BY <1>2, <1>3, <1>4, <1>11
<1>13. left = Remaining(Served, LineEnd + 1)
  BY <1>2, <1>3
<1>14. handled' = [handled EXCEPT ![d] = Append(@, Unhandled(d)[1])]
  BY <1>2, <1>3, <1>4
<1>15. QED
  BY <1>2, <1>8, <1>9, <1>10, <1>11, <1>12, <1>13, <1>14

\* What Join and HandleMessage have in common.
Handles ==
  /\ HasMessage
  /\ Handle
  /\ Advanced(serving)
  /\ pc' = "serve"
  /\ UNCHANGED <<sockets, serving, peer, wire, lines>>

LEMMA HandlesLines ==
  ASSUME TypeInv, LineInv, Handles
  PROVE  LineInv'
<1>1. TypeOK /\ BuffersInv /\ RowsInv /\ StreamsInv /\ BytesInv
  BY DEF TypeInv, LineInv
<1>2. /\ StreamsInv'
      /\ \E d, z, left :
           /\ d \in Client /\ serving \in Slot /\ d = sockets[serving]
           /\ \A c \in Client : c # d => Unhandled(c)' = Unhandled(c)
           /\ left = Remaining(Served, LineEnd + 1)
           /\ Holds(left, z) /\ Joined(Text(left) \o wire'[d], Unhandled(d)')
  BY HandleStreams DEF Handles
<1>3. PICK d, z, left :
        /\ d \in Client /\ serving \in Slot /\ d = sockets[serving]
        /\ \A c \in Client : c # d => Unhandled(c)' = Unhandled(c)
        /\ left = Remaining(Served, LineEnd + 1)
        /\ Holds(left, z) /\ Joined(Text(left) \o wire'[d], Unhandled(d)')
  BY <1>2
<1>4. /\ messages' = [messages EXCEPT ![serving] = left]
      /\ offsets' = [offsets EXCEPT ![serving] = 0]
      /\ pc = "serve" /\ pc' = "serve"
      /\ UNCHANGED <<sockets, serving, peer, wire, lines>>
  BY <1>3 DEF Handles, Advanced, HasMessage
<1>5. /\ messages'[serving] = left /\ offsets'[serving] = 0
      /\ \A t \in Slot : t # serving => messages'[t] = messages[t] /\ offsets'[t] = offsets[t]
  BY <1>1, <1>3, <1>4 DEF TypeOK
<1>6. RowsInv'
  <2>1. \A t \in Slot : ~IsOpen(t) => offsets'[t] = 0
    BY <1>1, <1>5 DEF RowsInv
  <2>2. QED
    BY <1>1, <1>4, <2>1 DEF RowsInv, IsOpen
<1>7. ASSUME NEW t \in Slot, NEW c \in Client, sockets'[t] = c
      PROVE  \E x : /\ Collected(messages'[t], offsets'[t], x, wire'[c], Unhandled(c)')
                    /\ offsets'[t] = x \/ (pc' = "serve" /\ serving' = t)
  <2>1. CASE t = serving
    <3>1. c = d /\ pc' = "serve" /\ serving' = t
      BY <1>3, <1>4, <1>7, <2>1
    <3>2. 0 \in 0..z /\ \A i \in 0..(0 - 1) : left[i] # Newline
      BY <1>3, CapacityAssumption DEF Holds
    <3>3. Collected(left, 0, z, wire'[d], Unhandled(d)')
      BY <1>3, <3>2 DEF Collected
    <3>4. QED
      BY <1>5, <2>1, <3>1, <3>3
  <2>2. CASE t # serving
    <3>1. c # d /\ sockets[t] = c
      BY <1>1, <1>3, <1>4, <1>7, <2>2, ClientAssumption DEF RowsInv, IsOpen
    <3>2. QED
      BY <1>1, <1>3, <1>4, <1>5, <2>2, <3>1, RowStays
  <2>3. QED
    BY <2>1, <2>2
<1>8. BytesInv'
  BY <1>7 DEF BytesInv
<1>9. QED
  BY <1>2, <1>6, <1>8 DEF LineInv

\* A listing leaves every row with its bytes; those of its sender's row, and
\* its offset, are only served on if it stays where it is.
LEMMA SortLines ==
  ASSUME TypeInv, LineInv, SortUsers, InPlace
  PROVE  StreamsInv' /\ KeptInv' /\ (LineInv' \/ Stopped')
<1>1. TypeOK /\ BuffersInv /\ RowsInv /\ StreamsInv /\ BytesInv
  BY DEF TypeInv, LineInv
<1>2. /\ StreamsInv'
      /\ \E d, z, left :
           /\ d \in Client /\ serving \in Slot /\ d = sockets[serving]
           /\ \A c \in Client : c # d => Unhandled(c)' = Unhandled(c)
           /\ left = Remaining(Served, LineEnd + 1)
           /\ Holds(left, z) /\ Joined(Text(left) \o wire'[d], Unhandled(d)')
  BY HandleStreams DEF SortUsers
<1>3. PICK d, z, left :
        /\ d \in Client /\ serving \in Slot /\ d = sockets[serving]
        /\ \A c \in Client : c # d => Unhandled(c)' = Unhandled(c)
        /\ left = Remaining(Served, LineEnd + 1)
        /\ Holds(left, z) /\ Joined(Text(left) \o wire'[d], Unhandled(d)')
  BY <1>2
<1>4. PICK q \in Arrangements :
        /\ MoveRows(q, [messages EXCEPT ![serving] = left])
        /\ offsets' = [[s \in Slot |-> offsets[q[s]]] EXCEPT ![serving] = 0]
  BY <1>3 DEF SortUsers
<1>5. /\ q \in [Slot -> Slot] /\ \A s \in Slot : q[s] \in Slot
      /\ \A s, t \in Slot : IsOpen(q[s]) /\ q[s] = q[t] => s = t
  BY <1>4, ArrangementsAre
<1>6. /\ pc = "serve" /\ pc' = "serve" /\ serving' = serving
      /\ UNCHANGED <<peer, wire, lines>>
      /\ sockets'[serving] \in {sockets[serving], None}
  BY DEF SortUsers, HasMessage, NextStep, InPlace
<1>7. \A t \in Slot : /\ sockets'[t] = sockets[q[t]]
                      /\ messages'[t] = IF q[t] = serving THEN left ELSE messages[q[t]]
                      /\ offsets'[t] = IF t = serving THEN 0 ELSE offsets[q[t]]
  BY <1>1, <1>3, <1>4, <1>5 DEF MoveRows, TypeOK
<1>8. IsOpen(serving) /\ \A t \in Slot : sockets[t] = d => t = serving
  BY <1>1, <1>3, <1>6, ClientAssumption DEF RowsInv, IsOpen
<1>9. ASSUME NEW t \in Slot, NEW c \in Client, sockets'[t] = c
      PROVE  /\ sockets[q[t]] = c /\ q[t] \in Slot /\ wire'[c] = wire[c] /\ IsOpen(q[t])
             /\ q[t] = serving => c = d
             /\ q[t] # serving => c # d /\ Unhandled(c)' = Unhandled(c) /\ messages'[t] = messages[q[t]]
  BY <1>3, <1>5, <1>6, <1>7, <1>8, <1>9, ClientAssumption DEF IsOpen
<1>10. KeptInv'
  <2>1. ASSUME NEW t \in Slot, NEW c \in Client, sockets'[t] = c
        PROVE  \E x : Holds(messages'[t], x) /\ Joined(Text(messages'[t]) \o wire'[c], Unhandled(c)')
    <3>1. CASE q[t] = serving
      <4>1. c = d /\ messages'[t] = left
        BY <1>7, <1>9, <2>1, <3>1
      <4>2. QED
        BY <1>3, <4>1
    <3>2. CASE q[t] # serving
      <4>1. PICK x : Collected(messages[q[t]], offsets[q[t]], x, wire[c], Unhandled(c))
        BY <1>1, <1>9, <2>1 DEF BytesInv
      <4>2. Holds(messages[q[t]], x) /\ Joined(Text(messages[q[t]]) \o wire[c], Unhandled(c))
        BY <4>1 DEF Collected
      <4>3. messages'[t] = messages[q[t]] /\ wire'[c] = wire[c] /\ Unhandled(c)' = Unhandled(c)
        BY <1>9, <2>1, <3>2
      <4>4. QED
        BY <4>2, <4>3
    <3>3. QED
      BY <3>1, <3>2
  <2>2. QED
    BY <2>1 DEF KeptInv
<1>11. CASE sockets'[serving] = None
  BY <1>2, <1>6, <1>10, <1>11 DEF Stopped, IsOpen
<1>12. CASE sockets'[serving] = sockets[serving]
  <2>1. q[serving] = serving
    BY <1>3, <1>5, <1>7, <1>8, <1>12
  <2>2. \A t \in Slot : t # serving => q[t] # serving
    BY <1>3, <1>5, <1>8, <2>1
  <2>3. RowsInv'
    <3>1. \A t, u \in Slot : sockets'[t] # None /\ sockets'[t] = sockets'[u] => t = u
      BY <1>1, <1>5, <1>7 DEF RowsInv, IsOpen
    <3>2. \A t \in Slot : sockets'[t] # None => peer'[sockets'[t]] # "idle"
      BY <1>1, <1>5, <1>6, <1>7 DEF RowsInv, IsOpen
    <3>3. \A t \in Slot : sockets'[t] = None => offsets'[t] = 0
      BY <1>1, <1>5, <1>7 DEF RowsInv, IsOpen
    <3>4. sockets'[serving'] # None
      BY <1>6, <1>8, <1>12 DEF IsOpen
    <3>5. QED
      BY <3>1, <3>2, <3>3, <3>4 DEF RowsInv, IsOpen
  <2>4. ASSUME NEW t \in Slot, NEW c \in Client, sockets'[t] = c
        PROVE  \E x : /\ Collected(messages'[t], offsets'[t], x, wire'[c], Unhandled(c)')
                      /\ offsets'[t] = x \/ (pc' = "serve" /\ serving' = t)
    <3>1. CASE t = serving
      <4>1. c = d /\ messages'[t] = left /\ offsets'[t] = 0
        BY <1>7, <1>9, <2>1, <2>4, <3>1
      <4>2. 0 \in 0..z /\ \A i \in 0..(0 - 1) : left[i] # Newline
        BY <1>3, CapacityAssumption DEF Holds
      <4>3. Collected(left, 0, z, wire'[d], Unhandled(d)')
        BY <1>3, <4>2 DEF Collected
      <4>4. QED
        BY <1>6, <3>1, <4>1, <4>3
    <3>2. CASE t # serving
      <4>1. q[t] # serving
        BY <2>2, <3>2
      <4>2. PICK x : /\ Collected(messages[q[t]], offsets[q[t]], x, wire[c], Unhandled(c))
                     /\ offsets[q[t]] = x \/ q[t] = serving
        BY <1>1, <1>9, <2>4 DEF BytesInv
      <4>3. /\ messages'[t] = messages[q[t]] /\ offsets'[t] = offsets[q[t]]
            /\ wire'[c] = wire[c] /\ Unhandled(c)' = Unhandled(c)
        BY <1>7, <1>9, <2>4, <3>2, <4>1
      <4>4. QED
        BY <4>1, <4>2, <4>3
    <3>3. QED
      BY <3>1, <3>2
  <2>5. BytesInv'
    BY <2>4 DEF BytesInv
  <2>6. QED
    BY <1>2, <1>10, <2>3, <2>5 DEF LineInv
<1>13. QED
  BY <1>6, <1>11, <1>12

LEMMA DoneLines ==
  ASSUME TypeInv, LineInv, ClientDone
  PROVE  LineInv'
<1>1. TypeOK /\ BuffersInv /\ RowsInv /\ StreamsInv /\ BytesInv
  BY DEF TypeInv, LineInv
<1>2. /\ pc = "serve" /\ pc' = "select" /\ FindMessageEnd(messages[serving], offsets[serving]) = -1
      /\ offsets' = [offsets EXCEPT ![serving] = StringEnd(messages[serving], 0)]
      /\ UNCHANGED <<sockets, messages, users, serving, peer, wire, lines, handled>>
  BY DEF ClientDone, LineEnd, OffsetAfter, Served
<1>3. serving \in Slot /\ sockets[serving] \in Client /\ IsOpen(serving)
  BY <1>1, <1>2 DEF TypeOK, RowsInv, IsOpen
<1>4. PICK d, buffer, offset, w, pending :
        /\ d = sockets[serving] /\ buffer = messages[serving] /\ offset = offsets[serving]
        /\ w = wire[d] /\ pending = Unhandled(d)
  OBVIOUS
<1>5. PICK z : Collected(buffer, offset, z, w, pending)
  BY <1>1, <1>3, <1>4 DEF BytesInv
<1>6. Collected(buffer, z, z, w, pending) /\ StringEnd(buffer, 0) = z
  BY <1>2, <1>4, <1>5, SearchedIs
<1>7. \A c \in Client : Unhandled(c)' = Unhandled(c) /\ wire'[c] = wire[c]
  BY <1>2, UnhandledSame
<1>8. /\ offsets'[serving] = z
      /\ \A t \in Slot : t # serving => offsets'[t] = offsets[t]
  BY <1>1, <1>2, <1>3, <1>4, <1>6 DEF TypeOK
<1>9. RowsInv'
  <2>1. \A t \in Slot : ~IsOpen(t) => offsets'[t] = 0
    BY <1>1, <1>3, <1>8 DEF RowsInv
  <2>2. QED
    BY <1>1, <1>2, <2>1 DEF RowsInv, IsOpen
<1>10. StreamsInv'
  BY <1>1, <1>2, <1>7 DEF StreamsInv
<1>11. ASSUME NEW t \in Slot, NEW c \in Client, sockets'[t] = c
       PROVE  \E x : /\ Collected(messages'[t], offsets'[t], x, wire'[c], Unhandled(c)')
                     /\ offsets'[t] = x \/ (pc' = "serve" /\ serving' = t)
  <2>1. CASE t = serving
    BY <1>2, <1>4, <1>6, <1>7, <1>8, <1>11, <2>1
  <2>2. CASE t # serving
    BY <1>1, <1>2, <1>7, <1>8, <1>11, <2>2, RowStays
  <2>3. QED
    BY <2>1, <2>2
<1>12. BytesInv'
  BY <1>11 DEF BytesInv
<1>13. QED
  BY <1>9, <1>10, <1>12 DEF LineInv

\* An empty slot has no buffer.
LEMMA EmptyStep ==
  ASSUME TypeInv, EmptyInv, [Next]_vars
  PROVE  EmptyInv'
<1>1. TypeOK
  BY DEF TypeInv
<1>2. CASE UNCHANGED <<sockets, messages>>
  BY <1>2 DEF EmptyInv, IsOpen
<1>3. CASE EstablishConnection
  BY <1>1, <1>3, ClientAssumption DEF EmptyInv, IsOpen, EstablishConnection, TypeOK
<1>4. ASSUME NEW s \in Slot, Receive(s)
      PROVE  EmptyInv'
  BY <1>1, <1>4 DEF EmptyInv, IsOpen, Receive, ReceiveBytes, ReceiveEnd, TypeOK
<1>5. HasMessage => serving \in Slot /\ IsOpen(serving)
  BY <1>1 DEF HasMessage, Served, EmptyInv, TypeOK
<1>6. CASE Join \/ HandleMessage
  <2>1. HasMessage /\ Advanced(serving) /\ sockets' = sockets
    BY <1>6 DEF Join, HandleMessage
  <2>2. \A s \in Slot : s # serving => messages'[s] = messages[s]
    BY <1>1, <2>1 DEF Advanced, TypeOK
  <2>3. QED
    BY <1>5, <2>1, <2>2 DEF EmptyInv, IsOpen
<1>7. CASE SortUsers
  <2>1. PICK left : left = Remaining(Served, LineEnd + 1)
    OBVIOUS
  <2>2. PICK q \in [Slot -> Slot] : MoveRows(q, [messages EXCEPT ![serving] = left])
    BY <1>7, <2>1 DEF SortUsers, Arrangements
  <2>3. \A s \in Slot : /\ q[s] \in Slot /\ sockets'[s] = sockets[q[s]]
                        /\ q[s] # serving => messages'[s] = messages[q[s]]
    BY <1>1, <2>2 DEF MoveRows, TypeOK
  <2>4. IsOpen(serving)
    BY <1>5, <1>7 DEF SortUsers
  <2>5. QED
    BY <2>3, <2>4 DEF EmptyInv, IsOpen
<1>8. QED
  BY <1>2, <1>3, <1>4, <1>6, <1>7
  DEF Next, Parse, Clients, Write, Hangup, SortNullUser, BufferGone, Crash, ClientDone, vars, table

\* Once it stopped, the server does nothing, but that it crashes.
LEMMA StoppedStep ==
  ASSUME TypeInv, EmptyInv, Stopped, [Next]_vars
  PROVE  Stopped' /\ UNCHANGED <<sockets, messages, offsets, users, serving, peer, wire, lines, handled>>
<1>1. pc # "select" /\ (pc = "serve" => messages[serving] = None)
  BY DEF Stopped, EmptyInv, TypeInv, TypeOK
<1>2. ~HasMessage
  BY <1>1 DEF HasMessage, Served
<1>3. ~Join /\ ~HandleMessage /\ ~SortUsers /\ ~SortNullUser /\ ~ClientDone
  BY <1>1, <1>2 DEF Join, HandleMessage, SortUsers, SortNullUser, ClientDone, Served
<1>4. ~EstablishConnection /\ ~(\E s \in Slot : Receive(s)) /\ ~Clients
  BY <1>1 DEF EstablishConnection, Receive, ReceiveBytes, ReceiveEnd, Clients, Write, Hangup
<1>5. CASE BufferGone
  BY <1>5 DEF BufferGone, Crash, Stopped, table
<1>6. CASE UNCHANGED vars
  BY <1>6 DEF vars, table, Stopped, IsOpen
<1>7. QED
  BY <1>3, <1>4, <1>5, <1>6 DEF Next, Parse

\* Steps that leave the connections, their bytes and their lines alone.
LEMMA StreamsSame ==
  ASSUME UNCHANGED <<sockets, messages, peer, wire, lines, handled>>
  PROVE  /\ \A c \in Client : Unhandled(c)' = Unhandled(c)
         /\ StreamsInv => StreamsInv'
         /\ KeptInv => KeptInv'
<1>1. \A c \in Client : Unhandled(c)' = Unhandled(c)
  BY UnhandledSame
<1>2. StreamsInv => StreamsInv'
  BY <1>1 DEF StreamsInv
<1>3. KeptInv => KeptInv'
  BY <1>1 DEF KeptInv
<1>4. QED
  BY <1>1, <1>2, <1>3

LEMMA LineStep ==
  ASSUME WholeLines, TypeInv, LineInv, InPlace, [Next]_vars
  PROVE  /\ StreamsInv' /\ KeptInv' /\ (LineInv' \/ Stopped')
         /\ [Queue!Next]_(Queue!vars)
<1>1. LineInv' => StreamsInv' /\ KeptInv'
  <2>1. BytesInv' => KeptInv'
    BY DEF BytesInv, KeptInv, Collected
  <2>2. QED
    BY <2>1 DEF LineInv
<1>2. ASSUME UNCHANGED <<lines, handled>>
      PROVE  UNCHANGED Queue!vars
  BY <1>2, UnhandledSame DEF Queue!vars
<1>3. CASE UNCHANGED vars
  <2>1. \A c \in Client : Unhandled(c)' = Unhandled(c)
    BY <1>3 DEF vars, Unhandled
  <2>2. BytesInv'
    BY <1>3, <2>1 DEF LineInv, BytesInv, vars, table
  <2>3. LineInv'
    BY <1>3, <2>1, <2>2 DEF LineInv, RowsInv, StreamsInv, IsOpen, vars, table
  <2>4. QED
    BY <1>1, <1>2, <1>3, <2>3 DEF vars
<1>4. CASE EstablishConnection
  BY <1>1, <1>2, <1>4, EstablishLines DEF EstablishConnection
<1>5. ASSUME NEW c \in Client, NEW line \in Line, Write(c, line)
      PROVE  LineInv' /\ Queue!Next
  <2>1. /\ LineInv'
        /\ Unhandled(c)' = Append(Unhandled(c), line)
        /\ \A d \in Client : d # c => Unhandled(d)' = Unhandled(d)
        /\ handled' = handled
    BY <1>5, WriteLines
  <2>2. Queue!Write(c, line)
    BY <2>1 DEF Queue!Write
  <2>3. QED
    BY <2>1, <2>2 DEF Queue!Next
<1>6. ASSUME NEW c \in Client, Hangup(c, <<>>)
      PROVE  LineInv' /\ UNCHANGED Queue!vars
  BY <1>2, <1>6, HangupLines DEF Hangup
<1>7. ASSUME NEW s \in Slot, ReceiveBytes(s)
      PROVE  LineInv' /\ UNCHANGED Queue!vars
  BY <1>2, <1>7, ReceiveBytesLines DEF ReceiveBytes
<1>8. ASSUME NEW s \in Slot, ReceiveEnd(s)
      PROVE  LineInv' /\ UNCHANGED Queue!vars
  BY <1>2, <1>8, ReceiveEndLines DEF ReceiveEnd
<1>9. ASSUME HasMessage, Handle, UNCHANGED <<lines, wire, peer>>
      PROVE  Queue!Next
  <2>1. PICK d \in Client :
          /\ Unhandled(d) # <<>>
          /\ handled' = [handled EXCEPT ![d] = Append(@, Unhandled(d)[1])]
          /\ Unhandled(d)' = Tail(Unhandled(d))
          /\ \A c \in Client : c # d => Unhandled(c)' = Unhandled(c)
    BY <1>9, HandleStreams
  <2>2. Unhandled(d)[1] = Head(Unhandled(d))
    OBVIOUS
  <2>3. Queue!Handle(d)
    BY <2>1, <2>2 DEF Queue!Handle
  <2>4. QED
    BY <2>3 DEF Queue!Next
<1>10. CASE Join \/ HandleMessage
  <2>1. Handles
    BY <1>10 DEF Join, HandleMessage, Handles, NextStep
  <2>2. LineInv'
    BY <2>1, HandlesLines
  <2>3. QED
    BY <1>1, <1>9, <2>1, <2>2 DEF Handles
<1>11. CASE SortUsers
  <2>1. StreamsInv' /\ KeptInv' /\ (LineInv' \/ Stopped')
    BY <1>11, SortLines
  <2>2. Queue!Next
    BY <1>9, <1>11 DEF SortUsers
  <2>3. QED
    BY <2>1, <2>2
<1>12. CASE SortNullUser \/ BufferGone
  <2>1. pc' = "crashed" /\ UNCHANGED <<sockets, messages, peer, wire, lines, handled>>
    BY <1>12 DEF SortNullUser, BufferGone, Crash, table
  <2>2. StreamsInv /\ KeptInv
    BY DEF LineInv, BytesInv, KeptInv, Collected
  <2>3. StreamsInv' /\ KeptInv' /\ Stopped'
    BY <2>1, <2>2, StreamsSame DEF Stopped
  <2>4. QED
    BY <1>2, <2>1, <2>3
<1>13. CASE ClientDone
  BY <1>1, <1>2, <1>13, DoneLines DEF ClientDone
<1>14. Fragment \cup {<<>>} = {<<>>}
  BY DEF WholeLines
<1>15. QED
  BY <1>1, <1>3, <1>4, <1>5, <1>6, <1>7, <1>8, <1>10, <1>11, <1>12, <1>13, <1>14
  DEF Next, Parse, Receive, Clients

LEMMA FramingStep ==
  ASSUME WholeLines, FramingInv, [Next]_vars, [InPlace]_vars
  PROVE  FramingInv' /\ [Queue!Next]_(Queue!vars)
<1>1. TypeInv' /\ EmptyInv'
  BY TypeStep, EmptyStep DEF FramingInv
<1>2. CASE LineInv
  <2>1. InPlace
    BY DEF InPlace, vars, table
  <2>2. QED
    BY <1>1, <1>2, <2>1, LineStep DEF FramingInv
<1>3. CASE Stopped
  <2>1. Stopped' /\ UNCHANGED <<sockets, messages, peer, wire, lines, handled>>
    BY <1>3, StoppedStep DEF FramingInv
  <2>2. StreamsInv' /\ KeptInv' /\ \A c \in Client : Unhandled(c)' = Unhandled(c)
    BY <2>1, StreamsSame DEF FramingInv
  <2>3. UNCHANGED Queue!vars
    BY <2>1, <2>2 DEF Queue!vars
  <2>4. QED
    BY <1>1, <2>1, <2>2, <2>3 DEF FramingInv
<1>4. QED
  BY <1>2, <1>3 DEF FramingInv

LEMMA FramingInit == Init => FramingInv /\ Queue!Init
<1> SUFFICES ASSUME Init
             PROVE  FramingInv /\ Queue!Init
  OBVIOUS
<1>1. \A c \in Client : Unhandled(c) = <<>>
  BY EmptySeq, SubSeqEmpty DEF Init, Unhandled
<1>2. LineInv
  BY <1>1, ClientAssumption DEF Init, LineInv, RowsInv, StreamsInv, BytesInv, IsOpen
<1>3. StreamsInv /\ KeptInv
  BY <1>2 DEF LineInv, BytesInv, KeptInv, Collected
<1>4. EmptyInv /\ TypeInv
  BY TypeInit DEF Init, EmptyInv
<1>5. Queue!Init
  BY <1>1 DEF Queue!Init, Init
<1>6. QED
  BY <1>2, <1>3, <1>4, <1>5 DEF FramingInv

\* However its bytes are cut up and joined by the reads, a connection is a
\* queue of lines: each is handled once, whole, in the order of writing
\* (server.c 197 to 239), for any number of connections, any lines and any
\* length of the buffers.  Listings are among the lines: all that can break the
\* queue is one that puts another connection in its sender's place.
THEOREM LinesAreQueued ==
  ASSUME WholeLines
  PROVE  Spec /\ [][InPlace]_vars => ImplementsQueue
<1>1. FramingInv /\ [Next]_vars /\ [InPlace]_vars => FramingInv' /\ [Queue!Next]_(Queue!vars)
  BY FramingStep
<1>2. QED
  BY <1>1, FramingInit, PTL DEF Spec, ImplementsQueue, Queue!Spec

-----------------------------------------------------------------------------
(* Part 4: bytes *)

\* FlattenSeq is what a run of its recursion ends with, and has one.
FlattenRun(q, f) == f[0] = <<>> /\ \A i \in 1..Len(q) : f[i] = f[i - 1] \o q[i]

LEMMA FlattenIs ==
  ASSUME NEW S, NEW q \in Seq(Seq(S)), NEW f \in [0..Len(q) -> Seq(S)], FlattenRun(q, f)
  PROVE  FlattenSeq(q) = f[Len(q)]
<1> DEFINE loop(g) == [i \in 1..Len(q) |-> IF i = 1 THEN q[i] ELSE g[i - 1] \o q[i]]
<1>1. /\ Len(q) \in Nat /\ f[0] = <<>>
      /\ \A i \in 1..Len(q) : f[i] = f[i - 1] \o q[i] /\ q[i] \in Seq(S)
  BY DEF FlattenRun
<1>2. CASE Len(q) = 0
  <2>1. q = <<>>
    BY <1>2
  <2>2. QED
    BY <1>1, <1>2, <2>1 DEF FlattenSeq
<1>3. CASE Len(q) # 0
  <2>1. 1 \in 1..Len(q) /\ f[1] = q[1]
    <3>1. 1 \in 1..Len(q) /\ q[1] \in Seq(S)
      BY <1>1, <1>3
    <3>2. <<>> \o q[1] = q[1]
      BY <3>1, ConcatEmptySeq
    <3>3. f[1] = f[0] \o q[1]
      <4>1. f[1] = f[1 - 1] \o q[1]
        BY <1>1, <3>1
      <4>2. 1 - 1 = 0
        OBVIOUS
      <4>3. QED
        BY <4>1, <4>2
    <3>4. QED
      BY <1>1, <3>1, <3>2, <3>3
  <2>2. \E g : g = loop(g)
    <3>1. PICK g : g = [i \in 1..Len(q) |-> f[i]]
      OBVIOUS
    <3>2. ASSUME NEW i \in 1..Len(q)
          PROVE  g[i] = IF i = 1 THEN q[i] ELSE g[i - 1] \o q[i]
      <4>1. CASE i = 1
        BY <2>1, <3>1, <4>1
      <4>2. CASE i # 1
        <5>1. i - 1 \in 1..Len(q)
          BY <1>1, <4>2
        <5>2. QED
          BY <1>1, <3>1, <4>2, <5>1
      <4>3. QED
        BY <4>1, <4>2
    <3>3. g = loop(g)
      BY <3>1, <3>2
    <3>4. QED
      BY <3>3
  <2>3. PICK g : g = loop(g) /\ FlattenSeq(q) = g[Len(q)]
    <3>1. PICK g : g = CHOOSE h : h = loop(h)
      OBVIOUS
    <3>2. g = loop(g)
      BY <2>2, <3>1
    <3>3. FlattenSeq(q) = g[Len(q)]
      BY <1>3, <3>1 DEF FlattenSeq
    <3>4. QED
      BY <3>2, <3>3
  <2>4. \A i \in 1..Len(q) : g[i] = IF i = 1 THEN q[i] ELSE g[i - 1] \o q[i]
    BY <2>3
  <2> HIDE DEF loop
  <2>5. PICK K : K = {k \in 0..Len(q) : k # 0 => g[k] = f[k]}
    OBVIOUS
  <2>6. ASSUME NEW k \in 0..(Len(q) - 1), k \in K
        PROVE  k + 1 \in K
    <3>1. k + 1 \in 1..Len(q) /\ (k + 1) - 1 = k /\ k + 1 \in 0..Len(q)
      BY <1>1
    <3>2. CASE k = 0
      BY <2>1, <2>4, <2>5, <3>1, <3>2
    <3>3. CASE k # 0
      <4>1. g[k] = f[k] /\ k + 1 # 1
        BY <2>5, <2>6, <3>3
      <4>2. g[k + 1] = g[k] \o q[k + 1] /\ f[k + 1] = f[k] \o q[k + 1]
        BY <1>1, <2>4, <3>1, <4>1
      <4>3. QED
        BY <2>5, <3>1, <4>1, <4>2
    <3>4. QED
      BY <3>2, <3>3
  <2>7. 0..Len(q) \subseteq K
    <3>1. 0 \in K
      BY <1>1, <2>5
    <3>2. QED
      BY <1>1, <2>6, <3>1, UpTo
  <2>8. QED
    BY <1>1, <1>3, <2>3, <2>5, <2>7
<1>4. QED
  BY <1>2, <1>3

LEMMA FlattenRuns ==
  ASSUME NEW S, NEW q \in Seq(Seq(S))
  PROVE  \E f \in [0..Len(q) -> Seq(S)] : FlattenRun(q, f)
<1>1. Len(q) \in Nat /\ \A i \in 1..Len(q) : q[i] \in Seq(S)
  OBVIOUS
<1>2. PICK T : T = Seq(S)
  OBVIOUS
<1>3. \A r \in T, i \in 1..Len(q) : r \o q[i] \in T
  BY <1>1, <1>2, ConcatProperties
<1>4. PICK step \in [(1..Len(q)) \X T -> T] :
        \A i \in 1..Len(q), r \in T : step[<<i, r>>] = r \o q[i]
  <2> DEFINE g == [x \in (1..Len(q)) \X T |-> x[2] \o q[x[1]]]
  <2>1. g \in [(1..Len(q)) \X T -> T]
    BY <1>3
  <2>2. \A i \in 1..Len(q), r \in T : g[<<i, r>>] = r \o q[i]
    OBVIOUS
  <2>3. QED
    BY <2>1, <2>2
<1>5. <<>> \in T /\ step \in [(1..Len(q)) \X T -> T]
  BY <1>2, <1>4
<1>6. PICK f : LoopRun(f, Len(q), T, <<>>, step)
  BY <1>1, <1>5, LoopRuns, Zenon
<1>7. /\ f \in [0..Len(q) -> T] /\ f[0] = <<>>
      /\ \A i \in 1..Len(q) : f[i] = step[<<i, f[i - 1]>>]
  BY <1>6 DEF LoopRun
<1>8. ASSUME NEW i \in 1..Len(q)
      PROVE  f[i] = f[i - 1] \o q[i]
  <2>1. i - 1 \in 0..Len(q)
    BY <1>1
  <2>2. f[i - 1] \in T
    BY <1>7, <2>1
  <2>3. QED
    BY <1>4, <1>7, <2>2
<1>9. QED
  BY <1>2, <1>7, <1>8 DEF FlattenRun

LEMMA FlattenMore ==
  ASSUME NEW S
  PROVE  \A p, q \in Seq(Seq(S)) :
           /\ FlattenSeq(p) \in Seq(S) /\ FlattenSeq(q) \in Seq(S)
           /\ FlattenSeq(p \o q) = FlattenSeq(p) \o FlattenSeq(q)
<1>0. \A u, v, w \in Seq(S) : (u \o v) \o w = u \o (v \o w)
  BY ConcatAssociative, SMTT(30)
<1> SUFFICES ASSUME NEW p \in Seq(Seq(S)), NEW q \in Seq(Seq(S))
             PROVE  /\ FlattenSeq(p) \in Seq(S) /\ FlattenSeq(q) \in Seq(S)
                    /\ FlattenSeq(p \o q) = FlattenSeq(p) \o FlattenSeq(q)
  OBVIOUS
<1>1. PICK f \in [0..Len(p) -> Seq(S)], g \in [0..Len(q) -> Seq(S)] :
        FlattenRun(p, f) /\ FlattenRun(q, g)
  BY FlattenRuns
<1>2. FlattenSeq(p) = f[Len(p)] /\ FlattenSeq(q) = g[Len(q)]
  BY <1>1, FlattenIs
<1>3. PICK m, n, r, x, T : m = Len(p) /\ n = Len(q) /\ r = p \o q /\ x = f[m] /\ T = Seq(S)
  OBVIOUS
<1>4. m \in Nat /\ n \in Nat /\ x \in T /\ g[n] \in T
  BY <1>1, <1>3
<1>5. /\ r \in Seq(Seq(S)) /\ Len(r) = m + n
      /\ \A i \in 1..m : r[i] = p[i]
      /\ \A i \in 1..n : r[m + i] = q[i]
  BY <1>3, <1>4
<1>6. /\ f[0] = <<>> /\ \A i \in 1..m : f[i] = f[i - 1] \o p[i]
      /\ g[0] = <<>> /\ \A i \in 1..n : g[i] = g[i - 1] \o q[i]
  BY <1>1, <1>3 DEF FlattenRun
<1>7. \A i \in 0..n : g[i] \in T /\ x \o g[i] \in T
  <2> TAKE i \in 0..n
  <2>1. g[i] \in Seq(S) /\ x \in Seq(S)
    BY <1>1, <1>3, <1>4
  <2>2. QED
    BY <1>3, <2>1, ConcatProperties
<1>8. PICK h : h = [k \in 0..m + n |-> IF k <= m THEN f[k] ELSE x \o g[k - m]]
  OBVIOUS
<1>9. h \in [0..m + n -> T]
  <2>1. ASSUME NEW k \in 0..m + n
        PROVE  (IF k <= m THEN f[k] ELSE x \o g[k - m]) \in T
    <3>1. CASE k <= m
      <4>1. k \in 0..Len(p)
        BY <1>3, <1>4, <3>1
      <4>2. f[k] \in T
        BY <1>1, <1>3, <4>1
      <4>3. QED
        BY <3>1, <4>2
    <3>2. CASE ~(k <= m)
      BY <1>4, <1>7, <3>2
    <3>3. QED
      BY <3>1, <3>2
  <2>2. QED
    BY <1>8, <2>1
<1>10. \A k \in 0..m : h[k] = f[k]
  BY <1>4, <1>8
<1>11. \A k \in 0..n : h[m + k] = x \o g[k]
  <2> TAKE k \in 0..n
  <2>1. CASE k = 0
    <3>1. x \in Seq(S)
      BY <1>3, <1>4
    <3>2. x \o <<>> = x
      BY <3>1, ConcatEmptySeq
    <3>3. m + k = m /\ m \in 0..m
      BY <1>4, <2>1
    <3>4. h[m + k] = x /\ g[k] = <<>>
      BY <1>3, <1>6, <1>10, <2>1, <3>3
    <3>5. QED
      BY <3>2, <3>4
  <2>2. CASE k # 0
    <3>1. m + k \in 0..m + n /\ ~(m + k <= m) /\ (m + k) - m = k
      BY <1>4, <2>2
    <3>2. QED
      BY <1>8, <3>1
  <2>3. QED
    BY <2>1, <2>2
<1>12. ASSUME NEW k \in 1..m + n
       PROVE  h[k] = h[k - 1] \o r[k]
  <2>1. CASE k <= m
    <3>1. k \in 1..m /\ k \in 0..m /\ k - 1 \in 0..m
      BY <1>4, <2>1
    <3>2. QED
      BY <1>5, <1>6, <1>10, <3>1
  <2>2. CASE ~(k <= m)
    <3>1. PICK i \in 1..n : k = m + i
      <4>1. k - m \in 1..n /\ k = m + (k - m)
        BY <1>4, <2>2
      <4>2. QED
        BY <4>1
    <3>2. i \in 0..n /\ i - 1 \in 0..n /\ k - 1 = m + (i - 1)
      BY <1>4, <3>1
    <3>3. PICK a, b : a = g[i - 1] /\ b = q[i]
      OBVIOUS
    <3>4. h[k] = x \o (a \o b) /\ h[k - 1] = x \o a /\ r[k] = b
      BY <1>5, <1>6, <1>11, <3>1, <3>2, <3>3
    <3>5. x \in Seq(S) /\ a \in Seq(S) /\ b \in Seq(S)
      BY <1>3, <1>4, <1>7, <3>1, <3>2, <3>3
    <3>6. (x \o a) \o b = x \o (a \o b)
      BY <1>0, <3>5, Zenon
    <3>7. QED
      BY <3>4, <3>6
  <2>3. QED
    BY <2>1, <2>2
<1>13. FlattenRun(r, h) /\ h \in [0..Len(r) -> Seq(S)]
  <2>1. h[0] = <<>>
    BY <1>4, <1>6, <1>10
  <2>2. QED
    BY <1>3, <1>5, <1>9, <1>12, <2>1 DEF FlattenRun
<1>14. FlattenSeq(r) = h[Len(r)]
  BY <1>5, <1>13, FlattenIs
<1>15. h[Len(r)] = x \o g[n]
  BY <1>4, <1>5, <1>11, SMTT(30)
<1>16. QED
  BY <1>2, <1>3, <1>4, <1>14, <1>15

\* Lines put together.
LEMMA JoinedFlat ==
  ASSUME NEW bytes \in Seq(Byte), NEW q \in Seq(Seq(Byte)), Joined(bytes, q)
  PROVE  FlattenSeq(q) = bytes
<1>1. PICK cut : JoinedAt(bytes, q, cut)
  BY DEF Joined
<1>2. PICK n, m : n = Len(q) /\ m = Len(bytes)
  OBVIOUS
<1>3. /\ n \in Nat /\ m \in Nat
      /\ cut \in [1..n + 1 -> Nat] /\ cut[1] = 0 /\ cut[n + 1] = m
      /\ \A j, k \in 1..n + 1 : j <= k => cut[j] <= cut[k]
      /\ \A i \in 1..m : bytes[i] \in Byte
  BY <1>1, <1>2 DEF JoinedAt
<1>4. \A j \in 1..n : /\ cut[j + 1] = cut[j] + Len(q[j])
                      /\ \A i \in 1..Len(q[j]) : bytes[cut[j] + i] = q[j][i]
                      /\ q[j] \in Seq(Byte) /\ Len(q[j]) \in Nat
  BY <1>1, <1>2 DEF JoinedAt
<1>5. PICK f : f = [k \in 0..n |-> SubSeq(bytes, 1, cut[k + 1])]
  OBVIOUS
<1>6. ASSUME NEW k \in 0..n
      PROVE  /\ f[k] \in Seq(Byte) /\ cut[k + 1] \in 0..m /\ Len(f[k]) = cut[k + 1]
             /\ \A i \in 1..cut[k + 1] : f[k][i] = bytes[i]
  <2>1. PICK c : c = cut[k + 1]
    OBVIOUS
  <2>2. c \in 0..m
    BY <1>3, <2>1
  <2>3. /\ SubSeq(bytes, 1, c) \in Seq(Byte) /\ Len(SubSeq(bytes, 1, c)) = c
        /\ \A i \in 1..c : SubSeq(bytes, 1, c)[i] = bytes[i]
    <3>1. \A i \in 1..c : bytes[i] \in Byte
      BY <1>3, <2>2
    <3>2. /\ SubSeq(bytes, 1, c) \in Seq(Byte)
          /\ Len(SubSeq(bytes, 1, c)) = IF 1 <= c THEN c - 1 + 1 ELSE 0
          /\ \A i \in 1..c - 1 + 1 : SubSeq(bytes, 1, c)[i] = bytes[1 + i - 1]
      BY <2>2, <3>1, SubSeqProperties
    <3>3. \A i \in 1..c : i \in 1..c - 1 + 1 /\ 1 + i - 1 = i
      BY <2>2
    <3>4. QED
      BY <2>2, <3>2, <3>3
  <2>4. QED
    BY <1>5, <2>1, <2>2, <2>3
<1>7. f \in [0..n -> Seq(Byte)]
  BY <1>5, <1>6
<1>8. f[0] = <<>>
  <2>1. 0 \in 0..n /\ cut[0 + 1] = 0
    BY <1>3
  <2>2. f[0] \in Seq(Byte) /\ Len(f[0]) = 0
    BY <1>6, <2>1
  <2>3. QED
    BY <2>2
<1>9. ASSUME NEW k \in 1..n
      PROVE  f[k] = f[k - 1] \o q[k]
  <2>1. k - 1 \in 0..n /\ k \in 0..n /\ (k - 1) + 1 = k
    BY <1>3
  <2>2. PICK a, b, c, d, line : a = f[k - 1] /\ b = f[k] /\ c = cut[k] /\ d = cut[k + 1] /\ line = q[k]
    OBVIOUS
  <2>3. /\ a \in Seq(Byte) /\ c \in 0..m /\ Len(a) = c /\ \A i \in 1..c : a[i] = bytes[i]
        /\ b \in Seq(Byte) /\ d \in 0..m /\ Len(b) = d /\ \A i \in 1..d : b[i] = bytes[i]
    BY <1>6, <2>1, <2>2
  <2>4. /\ line \in Seq(Byte) /\ Len(line) \in Nat /\ d = c + Len(line)
        /\ \A i \in 1..Len(line) : bytes[c + i] = line[i]
    BY <1>4, <2>2
  <2>5. /\ a \o line \in Seq(Byte) /\ Len(a \o line) = c + Len(line)
        /\ \A i \in 1..c + Len(line) : (a \o line)[i] = IF i <= c THEN a[i] ELSE line[i - c]
    BY <2>3, <2>4, ConcatProperties
  <2>6. ASSUME NEW i \in 1..d
        PROVE  b[i] = (a \o line)[i]
    <3>1. CASE i <= c
      BY <2>3, <2>4, <2>5, <3>1
    <3>2. CASE ~(i <= c)
      <4>1. i - c \in 1..Len(line) /\ c + (i - c) = i
        BY <2>3, <2>4, <3>2
      <4>2. QED
        BY <2>3, <2>4, <2>5, <3>2, <4>1
    <3>3. QED
      BY <3>1, <3>2
  <2>7. b = a \o line
    BY <2>3, <2>4, <2>5, <2>6, SeqEqual
  <2>8. QED
    BY <2>2, <2>7
<1>10. FlattenRun(q, f) /\ f \in [0..Len(q) -> Seq(Byte)]
  BY <1>2, <1>7, <1>8, <1>9 DEF FlattenRun
<1>11. FlattenSeq(q) = f[n]
  BY <1>2, <1>10, FlattenIs
<1>12. f[n] = bytes
  <2>1. n \in 0..n
    BY <1>3
  <2>2. PICK b : b = f[n]
    OBVIOUS
  <2>3. b \in Seq(Byte) /\ Len(b) = m /\ \A i \in 1..m : b[i] = bytes[i]
    BY <1>3, <1>6, <2>1, <2>2
  <2>4. QED
    BY <1>2, <2>2, <2>3, SeqEqual
<1>13. QED
  BY <1>11, <1>12

\* What was handled of a client are its first lines.
HandledInv == \A c \in Client : \A i \in 1..Len(handled[c]) : handled[c][i] = lines[c][i]

LEMMA HandledStep ==
  ASSUME FramingInv, HandledInv, [Next]_vars
  PROVE  HandledInv'
<1>1. \A c \in Client : /\ lines[c] \in Seq(Line) /\ handled[c] \in Seq(Seq(Byte))
                        /\ Len(handled[c]) \in Nat /\ Len(lines[c]) \in Nat
                        /\ Len(handled[c]) <= Len(lines[c])
  <2> TAKE c \in Client
  <2>1. lines[c] \in Seq(Line) /\ handled[c] \in Seq(Seq(Byte))
    BY DEF FramingInv, TypeInv, TypeOK
  <2>2. Len(handled[c]) <= Len(lines[c])
    BY DEF FramingInv, StreamsInv
  <2>3. QED
    BY <2>1, <2>2
<1>2. ASSUME UNCHANGED <<lines, handled>>
      PROVE  HandledInv'
  BY <1>2 DEF HandledInv
<1>3. ASSUME NEW c \in Client, NEW line \in Line, Write(c, line)
      PROVE  HandledInv'
  <2>1. lines' = [lines EXCEPT ![c] = Append(@, line)] /\ handled' = handled
    BY <1>3 DEF Write
  <2>2. ASSUME NEW d \in Client, NEW i \in 1..Len(handled[d])
        PROVE  lines'[d][i] = lines[d][i]
    <3>1. lines[d] \in Seq(Line) /\ i \in 1..Len(lines[d])
      BY <1>1
    <3>2. Append(lines[d], line)[i] = lines[d][i]
      BY <3>1
    <3>3. lines \in [Client -> Seq(Line)]
      BY DEF FramingInv, TypeInv, TypeOK
    <3>4. QED
      BY <2>1, <3>2, <3>3
  <2>3. ASSUME NEW d \in Client, NEW i \in 1..Len(handled'[d])
        PROVE  handled'[d][i] = lines'[d][i]
    <3>1. i \in 1..Len(handled[d]) /\ handled'[d][i] = handled[d][i]
      BY <2>1
    <3>2. handled[d][i] = lines[d][i]
      BY <3>1 DEF HandledInv
    <3>3. QED
      BY <2>2, <3>1, <3>2
  <2>4. QED
    BY <2>3 DEF HandledInv
<1>4. CASE Join \/ HandleMessage \/ SortUsers
  <2>1. HasMessage /\ Handle /\ UNCHANGED <<lines, wire, peer>>
    BY <1>4 DEF Join, HandleMessage, SortUsers
  <2>2. TypeInv /\ LineInv
    <3>1. ~Stopped
      BY <2>1 DEF Stopped, HasMessage, Served, EmptyInv, FramingInv, TypeInv, TypeOK
    <3>2. QED
      BY <3>1 DEF FramingInv
  <2>3. PICK d \in Client :
          /\ Unhandled(d) # <<>>
          /\ handled' = [handled EXCEPT ![d] = Append(@, Unhandled(d)[1])]
    BY <2>1, <2>2, HandleStreams
  <2>4. PICK old, line, seq, h : old = handled[d] /\ line = Unhandled(d)[1] /\ seq = lines[d] /\ h = Len(old)
    OBVIOUS
  <2>5. seq \in Seq(Line) /\ old \in Seq(Seq(Byte)) /\ h \in 0..Len(seq) /\ Len(seq) \in Nat /\ h \in Nat
    BY <1>1, <2>4
  <2>6. line = seq[h + 1]
    <3>1. /\ SubSeq(seq, h + 1, Len(seq)) \in Seq(Line)
          /\ Len(SubSeq(seq, h + 1, Len(seq))) = Len(seq) - h
          /\ \A i \in 1..Len(seq) - h : SubSeq(seq, h + 1, Len(seq))[i] = seq[h + i]
      BY <2>5, RestIs
    <3>2. Unhandled(d) = SubSeq(seq, h + 1, Len(seq))
      BY <2>4 DEF Unhandled
    <3>3. Len(SubSeq(seq, h + 1, Len(seq))) # 0
      BY <2>3, <3>1, <3>2
    <3>4. 1 \in 1..Len(seq) - h
      BY <2>5, <3>1, <3>3
    <3>5. QED
      BY <2>4, <3>1, <3>2, <3>4
  <2>7. Unhandled(d)[1] \in Seq(Byte)
    <3>1. Unhandled(d) \in Seq(Seq(Byte))
      BY <2>2, PendingIs DEF TypeInv, LineInv
    <3>2. 1 \in 1..Len(Unhandled(d))
      BY <2>3, <3>1
    <3>3. QED
      BY <3>1, <3>2
  <2>8. /\ Len(Append(old, line)) = h + 1 /\ Append(old, line)[h + 1] = line
        /\ \A i \in 1..h : Append(old, line)[i] = old[i]
    BY <2>4, <2>5, <2>7, AppendProperties
  <2>9. \A c \in Client : handled'[c] = IF c = d THEN Append(old, line) ELSE handled[c]
    BY <2>2, <2>3, <2>4 DEF TypeInv, TypeOK
  <2>10. ASSUME NEW c \in Client, NEW i \in 1..Len(handled'[c])
         PROVE  handled'[c][i] = lines[c][i]
    <3>1. CASE c # d
      BY <2>9, <3>1 DEF HandledInv
    <3>2. CASE c = d
      <4>1. i \in 1..h + 1
        BY <2>8, <2>9, <3>2
      <4>2. CASE i = h + 1
        BY <2>4, <2>6, <2>8, <2>9, <3>2, <4>2
      <4>3. CASE i # h + 1
        <5>1. i \in 1..h
          BY <2>5, <4>1, <4>3
        <5>2. QED
          BY <2>4, <2>8, <2>9, <3>2, <5>1 DEF HandledInv
      <4>4. QED
        BY <4>2, <4>3
    <3>3. QED
      BY <3>1, <3>2
  <2>11. QED
    BY <2>1, <2>10 DEF HandledInv
<1>5. CASE UNCHANGED vars
  BY <1>2, <1>5 DEF vars
<1>6. CASE EstablishConnection \/ ClientDone \/ SortNullUser \/ BufferGone
  BY <1>2, <1>6 DEF EstablishConnection, ClientDone, SortNullUser, BufferGone, Crash
<1>7. ASSUME NEW s \in Slot, Receive(s)
      PROVE  HandledInv'
  BY <1>2, <1>7 DEF Receive, ReceiveBytes, ReceiveEnd
<1>8. ASSUME NEW c \in Client, NEW part, Hangup(c, part)
      PROVE  HandledInv'
  BY <1>2, <1>8 DEF Hangup
<1>9. QED
  BY <1>3, <1>4, <1>5, <1>6, <1>7, <1>8 DEF Next, Parse, Clients

LEMMA BytesKept ==
  ASSUME TypeInv, StreamsInv, KeptInv, HandledInv
  PROVE  NothingLost
<1> SUFFICES ASSUME NEW s \in Slot, IsOpen(s)
             PROVE  IsPrefix(FlattenSeq(lines[sockets[s]]),
                             FlattenSeq(handled[sockets[s]]) \o Text(messages[s]) \o wire[sockets[s]])
  BY DEF NothingLost, OpenSlots
<1>1. PICK c, all, done, rest, text, unread :
        /\ c = sockets[s] /\ all = lines[c] /\ done = handled[c] /\ rest = Unhandled(c)
        /\ text = Text(messages[s]) /\ unread = wire[c]
  OBVIOUS
<1>2. c \in Client /\ messages[s] \in Buffer
  BY <1>1 DEF TypeInv, TypeOK, BuffersInv, NullEnded, IsOpen
<1>3. all \in Seq(Line) /\ done \in Seq(Seq(Byte)) /\ unread \in Seq(Byte)
  BY <1>1, <1>2 DEF TypeInv, TypeOK
<1>4. Len(done) \in 0..Len(all) /\ Len(all) \in Nat
  BY <1>1, <1>2, <1>3 DEF StreamsInv
<1>5. PICK z : Holds(messages[s], z) /\ Joined(Text(messages[s]) \o unread, rest)
  BY <1>1, <1>2 DEF KeptInv
<1>6. Holds(messages[s], z) /\ Joined(text \o unread, rest)
  BY <1>1, <1>5
<1>7. text \in Seq(Byte) /\ text \o unread \in Seq(Byte)
  <2>1. text \in Seq(Byte)
    BY <1>1, <1>2, <1>6, TextIs
  <2>2. QED
    BY <1>3, <2>1, ConcatProperties
<1>8. rest \in Seq(Seq(Byte))
  BY <1>1, <1>2, PendingIs DEF TypeInv
<1>9. FlattenSeq(rest) = text \o unread
  BY <1>6, <1>7, <1>8, JoinedFlat
<1>10. all = done \o rest
  <2>1. all \in Seq(Seq(Byte))
    <3>1. Line \subseteq Seq(Byte)
      BY LineFacts
    <3>2. QED
      BY <1>3, <3>1
  <2>2. PICK h, n : h = Len(done) /\ n = Len(all)
    OBVIOUS
  <2>3. h \in 0..n /\ n \in Nat /\ h \in Nat
    BY <1>4, <2>2
  <2>4. rest = SubSeq(all, h + 1, Len(all))
    BY <1>1, <2>2 DEF Unhandled
  <2>5. Len(rest) = n - h /\ \A i \in 1..n - h : rest[i] = all[h + i]
    BY <1>3, <2>2, <2>3, <2>4, RestIs
  <2>6. /\ done \o rest \in Seq(Seq(Byte)) /\ Len(done \o rest) = h + (n - h)
        /\ \A i \in 1..h + (n - h) : (done \o rest)[i] = IF i <= h THEN done[i] ELSE rest[i - h]
    BY <1>3, <1>8, <2>2, <2>5, ConcatProperties
  <2>7. ASSUME NEW i \in 1..n
        PROVE  all[i] = (done \o rest)[i]
    <3>1. i \in 1..h + (n - h)
      BY <2>3
    <3>2. CASE i <= h
      <4>1. i \in 1..Len(handled[c])
        BY <1>1, <2>2, <2>3, <3>2
      <4>2. done[i] = all[i]
        BY <1>1, <1>2, <4>1 DEF HandledInv
      <4>3. QED
        BY <2>6, <3>1, <3>2, <4>2
    <3>3. CASE ~(i <= h)
      <4>1. i - h \in 1..n - h /\ h + (i - h) = i
        BY <2>3, <3>3
      <4>2. QED
        BY <2>5, <2>6, <3>1, <3>3, <4>1
    <3>4. QED
      BY <3>2, <3>3
  <2>8. Len(done \o rest) = n
    BY <2>3, <2>6
  <2>9. QED
    BY <2>1, <2>2, <2>6, <2>7, <2>8, SeqEqual
<1>11. PICK x : x = FlattenSeq(done)
  OBVIOUS
<1>12. x \in Seq(Byte) /\ FlattenSeq(all) = x \o (text \o unread)
  BY <1>3, <1>8, <1>9, <1>10, <1>11, FlattenMore
<1>13. (x \o text) \o unread = x \o (text \o unread)
  BY <1>3, <1>7, <1>12, ConcatAssociative, SMTT(30)
<1>14. FlattenSeq(all) = x \o text \o unread
  BY <1>12, <1>13
<1>15. FlattenSeq(all) \in Seq(Byte)
  BY <1>7, <1>12, ConcatProperties
<1>16. IsPrefix(FlattenSeq(all), FlattenSeq(all))
  BY <1>15 DEF IsPrefix
<1>17. QED
  BY <1>1, <1>11, <1>14, <1>16

\* What was handled, what the buffer holds and what was not read yet are, put
\* together and byte for byte, the lines the client wrote (server.c 197 to
\* 239): no read, no move of the rest of a buffer and no stored offset drops,
\* repeats or exchanges a byte, for any number of connections, any lines and
\* any length of the buffers.
THEOREM BytesAreKept ==
  ASSUME WholeLines
  PROVE  Spec /\ [][InPlace]_vars => []NothingLost
<1>1. FramingInv /\ [Next]_vars /\ [InPlace]_vars => FramingInv'
  BY FramingStep
<1>2. FramingInv /\ HandledInv /\ [Next]_vars => HandledInv'
  BY HandledStep
<1>3. Init => HandledInv
  BY DEF Init, HandledInv
<1>4. FramingInv /\ HandledInv => NothingLost
  BY BytesKept DEF FramingInv
<1>5. QED
  BY <1>1, <1>2, <1>3, <1>4, FramingInit, PTL DEF Spec

-----------------------------------------------------------------------------
(* Part 5: two slots *)

\* In two slots, with names that need no sorting, a listing stays in place.
LEMMA TwoStay ==
  ASSUME MaxClients <= 2, NameOrder = {}, TypeInv, EmptyInv
  PROVE  InPlace
<1> SUFFICES ASSUME SortUsers
             PROVE  sockets'[serving] \in {sockets[serving], None}
  BY DEF InPlace
<1>1. MaxClients \in {1, 2} /\ Slot \subseteq {1, 2}
  BY BoundsAssumption DEF Slot
<1>2. serving \in Slot /\ IsOpen(serving)
  BY DEF SortUsers, HasMessage, Served, EmptyInv, TypeInv, TypeOK
<1>3. PICK q \in Arrangements : sockets' = [s \in Slot |-> sockets[q[s]]]
  BY DEF SortUsers, MoveRows
<1>4. q = Compaction
  <2>1. Cardinality(OpenSlots) <= 2
    <3>1. IsFiniteSet(Slot) /\ Cardinality(Slot) = MaxClients
      BY BoundsAssumption, FS_Interval DEF Slot
    <3>2. OpenSlots \in SUBSET Slot
      BY DEF OpenSlots
    <3>3. Cardinality(OpenSlots) \in Nat /\ Cardinality(OpenSlots) <= MaxClients
      BY <3>1, <3>2, FS_Subset, FS_CardinalityType
    <3>4. QED
      BY <1>1, <3>3
  <2>2. InNameOrder(Compaction, Cardinality(OpenSlots))
    BY DEF InNameOrder
  <2>3. QED
    BY <2>1, <2>2 DEF Arrangements
<1>5. /\ q[serving] \in Slot
      /\ (\A s \in Slot : IsOpen(s)) => q[serving] = serving
  BY <1>2, <1>4, CompactionIs
<1>6. CASE q[serving] = serving
  BY <1>2, <1>3, <1>6
<1>7. CASE q[serving] # serving
  <2>1. ~IsOpen(q[serving])
    <3>1. PICK t \in Slot : ~IsOpen(t)
      BY <1>5, <1>7
    <3>2. t # serving
      BY <1>2, <3>1
    <3>3. t = q[serving]
      BY <1>1, <1>2, <1>5, <1>7, <3>2
    <3>4. QED
      BY <3>1, <3>3
  <2>2. QED
    BY <1>2, <1>3, <2>1 DEF IsOpen
<1>8. QED
  BY <1>6, <1>7

\* So in two slots the listings break nothing: the sender's row stays, or it is
\* moved to the front from behind a hole, and the server crashes.
THEOREM TwoSlots ==
  ASSUME WholeLines, MaxClients <= 2, NameOrder = {}
  PROVE  Spec => ImplementsQueue /\ []NothingLost
<1>1. ASSUME FramingInv, [Next]_vars
      PROVE  FramingInv' /\ [Queue!Next]_(Queue!vars)
  <2>1. InPlace
    BY <1>1, TwoStay DEF FramingInv
  <2>2. QED
    BY <1>1, <2>1, FramingStep
<1>2. FramingInv /\ HandledInv /\ [Next]_vars => HandledInv'
  BY HandledStep
<1>3. Init => HandledInv
  BY DEF Init, HandledInv
<1>4. FramingInv /\ HandledInv => NothingLost
  BY BytesKept DEF FramingInv
<1>5. QED
  BY <1>1, <1>2, <1>3, <1>4, FramingInit, PTL DEF Spec, ImplementsQueue, Queue!Spec

============================================================================
