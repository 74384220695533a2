-------------------------- MODULE ChatServerProofs --------------------------
(***************************************************************************)
(* ChatServer for any number of clients and slots and any mix of lines,    *)
(* resets and stalls.  First the stack of calls and the table of           *)
(* connections: the type invariant; then that the slots never mix two      *)
(* connections up (SlotsCoherent); then that socket_total is right in      *)
(* every state and the loop of share_message that trusts it stays inside   *)
(* the table (TotalCountsSockets, ShareStaysInTable).  Then what is owed   *)
(* to the connections that are lost, and to those that stay: every user is *)
(* cleaned up once, every open slot has its buffer and every departure is  *)
(* told.  Last, ChatServer implements ChatSessions: each step is one of a  *)
(* few kinds, as far as the clients can tell, and the abstract steps are   *)
(* proved of each kind.                                                    *)
(*                                                                         *)
(* The first half is proved from the invariant IInv of ChatInvariant, the  *)
(* second from IInv and its DepartureInv, one lemma per kind of step.      *)
(***************************************************************************)
EXTENDS ChatInvariant, SequenceTheorems, FiniteSetTheorems, TLAPS

-----------------------------------------------------------------------------
(***************************************************************************)
(* Part 1: types                                                           *)
(***************************************************************************)

-----------------------------------------------------------------------------
(* The call stack *)

\* A new frame is a frame.
LEMMA CallType ==
  ASSUME NEW op \in {"client", "share", "drop", "cleanup", "reply", "list"}, NEW s \in Slot
  PROVE  Call(op, s) \in Frame
BY DEF Call, Frame

LEMMA ShareCallType ==
  ASSUME NEW s \in Slot
  PROVE  ShareCall(s, TRUE) \in Frame /\ ShareCall(s, FALSE) \in Frame
<1>1. Call("share", s) \in Frame
  BY CallType
<1>2. QED
  BY <1>1 DEF ShareCall, Frame

\* The farewell of a slot is at most two calls.
LEMMA FarewellType ==
  ASSUME NEW s \in Slot
  PROVE  Farewell(s) \in Seq(Frame)
BY CallType DEF Farewell

\* Pushing frames.
LEMMA PushType ==
  ASSUME stack \in Seq(Frame), NEW f \in Frame
  PROVE  <<f>> \o stack \in Seq(Frame)
OBVIOUS

LEMMA PushTwoType ==
  ASSUME stack \in Seq(Frame), NEW f \in Frame, NEW g \in Frame
  PROVE  <<f, g>> \o stack \in Seq(Frame)
OBVIOUS

\* What a step finds on a stack that is not empty.
LEMMA StackType ==
  ASSUME stack \in Seq(Frame), stack # <<>>
  PROVE  /\ Top \in Frame
         /\ Top.n \in Slot
         /\ Top.ctr \in Nat
         /\ Top.count \in Nat
         /\ Top.isuser \in BOOLEAN
         /\ Top.lost \in Seq(Slot)
         /\ Tail(stack) \in Seq(Frame)
<1>1. Top \in Frame /\ Tail(stack) \in Seq(Frame)
  BY DEF Top
<1>2. QED
  BY <1>1 DEF Frame

\* What a step may make of the innermost frame.
LEMMA TopUpdates ==
  ASSUME stack \in Seq(Frame), stack # <<>>
  PROVE  /\ [Top EXCEPT !.ctr = @ + 1] \in Frame
         /\ NextReceiver \in Frame
         /\ [Top EXCEPT !.op = "drop"] \in Frame
         /\ [Top EXCEPT !.early = TRUE] \in Frame
         /\ Top.ctr \in Slot => [NextReceiver EXCEPT !.lost = Append(@, Top.ctr)] \in Frame
         /\ Top.lost # <<>> =>
              /\ Head(Top.lost) \in Slot
              /\ [Top EXCEPT !.lost = Tail(@)] \in Frame
<1>1. Top \in Frame
  BY StackType
<1>2. [Top EXCEPT !.ctr = @ + 1] \in Frame
  <2>1. Top.ctr + 1 \in Nat
    BY <1>1 DEF Frame
  <2>2. QED
    BY <1>1, <2>1 DEF Frame
<1>3. NextReceiver \in Frame
  <2>1. Top.ctr + 1 \in Nat /\ Top.count + 1 \in Nat
    BY <1>1 DEF Frame
  <2>2. QED
    BY <1>1, <2>1 DEF Frame, NextReceiver
<1>4. [Top EXCEPT !.op = "drop"] \in Frame /\ [Top EXCEPT !.early = TRUE] \in Frame
  BY <1>1 DEF Frame
<1>5. ASSUME Top.ctr \in Slot
      PROVE  [NextReceiver EXCEPT !.lost = Append(@, Top.ctr)] \in Frame
  <2>1. Append(NextReceiver.lost, Top.ctr) \in Seq(Slot)
    BY <1>3, <1>5 DEF Frame
  <2>2. QED
    BY <1>3, <2>1 DEF Frame
<1>6. ASSUME Top.lost # <<>>
      PROVE  Head(Top.lost) \in Slot /\ [Top EXCEPT !.lost = Tail(@)] \in Frame
  <2>1. Top.lost \in Seq(Slot)
    BY <1>1 DEF Frame
  <2>2. Head(Top.lost) \in Slot /\ Tail(Top.lost) \in Seq(Slot)
    BY <2>1, <1>6
  <2>3. QED
    BY <1>1, <2>2 DEF Frame
<1>7. QED
  BY <1>2, <1>3, <1>4, <1>5, <1>6

-----------------------------------------------------------------------------
(* TypeOK, with what makes it inductive *)

\* The effects the actions share.
LEMMA CloseSlotType ==
  ASSUME TypeOK, NEW s \in Slot, IsOpen(s), CloseSlot(s)
  PROVE  /\ sockets' \in [Slot -> Client \cup {None}]
         /\ peer' \in [Client -> PeerState]
         /\ owed' \in [Client -> SUBSET Client]
         /\ garbled' = garbled
BY DEF TypeOK, IsOpen, CloseSlot, OweDeparture, OpenSlots, PeerState

LEMMA WriteOutcomeType ==
  ASSUME TypeOK, NEW c \in Client, NEW after \in PeerState,
         peer' = [peer EXCEPT ![c] = after]
  PROVE  peer' \in [Client -> PeerState]
BY DEF TypeOK

\* What a receiver is told changes what it was owed, or what it was garbled.
LEMMA TellType ==
  ASSUME TypeOK, NEW c \in Client, Top.n \in Slot, Tell(c)
  PROVE  /\ owed' \in [Client -> SUBSET Client]
         /\ garbled' \in [Client -> SUBSET (Client \cup {None})]
         /\ \A d \in Client : owed'[d] \subseteq owed[d] /\ garbled[d] \subseteq garbled'[d]
<1>1. CASE UNCHANGED news
  BY <1>1 DEF TypeOK, news
<1>2. CASE garbled' = [garbled EXCEPT ![c] = @ \cup {users[Top.n]}] /\ UNCHANGED owed
  <2>1. garbled[c] \cup {users[Top.n]} \in SUBSET (Client \cup {None})
    BY DEF TypeOK
  <2>2. QED
    BY <1>2, <2>1 DEF TypeOK
<1>3. CASE owed' = [owed EXCEPT ![c] = @ \ {users[Top.n]}] /\ UNCHANGED garbled
  <2>1. owed[c] \ {users[Top.n]} \in SUBSET Client
    BY DEF TypeOK
  <2>2. QED
    BY <1>3, <2>1 DEF TypeOK
<1>4. QED
  BY <1>1, <1>2, <1>3 DEF Tell

LEMMA EndType ==
  ASSUME TypeOK, NEW how \in Ended, End(how)
  PROVE  TypeOK'
BY DEF TypeOK, End, table, heap, scanning, network, news

\* A step that changes nothing but the stack.
LEMMA StackStepType ==
  ASSUME TypeOK, stack' \in Seq(Frame),
         UNCHANGED <<table, heap, text, errno, pc, scanning, peer, network, news>>
  PROVE  TypeOK'
BY DEF TypeOK, table, heap, scanning, network, news

LEMMA SelectType ==
  ASSUME TypeOK, Select
  PROVE  TypeOK'
<1>1. ReadSet \subseteq Client \cup {Listener}
  BY DEF TypeOK, ReadSet, Connected, OpenSlots, IsOpen
<1>2. QED
  BY <1>1 DEF Select, TypeOK, table, heap, network, news

\* The scan.
LEMMA ScanType ==
  ASSUME TypeInv, Scan
  PROVE  TypeOK'
<1> USE DEF table, heap, scanning, network, news
<1>0. TypeOK
  BY DEF TypeInv
<1>1. CASE ScanListener
  BY <1>0, <1>1 DEF ScanListener, CountSlot, TypeOK
<1>2. CASE EstablishConnection
  <2>1. backlog # <<>>
    BY <1>2 DEF EstablishConnection, AtSlot, Running, TypeInv, AcceptReady
  <2>2. Head(backlog) \in Client /\ Tail(backlog) \in Seq(Client)
    BY <1>0, <2>1 DEF TypeOK
  <2>3. PICK s \in Slot : FillSlot(s, Head(backlog))
    BY <1>2 DEF EstablishConnection
  <2>4. /\ sockets' \in [Slot -> Client \cup {None}]
        /\ messages' \in [Slot -> Client \cup {None}]
        /\ users' \in [Slot -> Client \cup {None}]
        /\ buffers' \subseteq Client
    BY <1>0, <2>2, <2>3 DEF FillSlot, TypeOK
  <2>5. n' \in Nat /\ count' \in Nat /\ socket_total' \in Int
    BY <1>0, <1>2 DEF EstablishConnection, CountSlot, TypeOK
  <2>6. QED
    BY <1>0, <1>2, <2>2, <2>4, <2>5 DEF EstablishConnection, CountSlot, TypeOK
<1>3. CASE SkipSlot
  BY <1>0, <1>3 DEF SkipSlot, TypeOK
<1>4. CASE ReceiveLines
  <2>1. sockets[n] \in Client /\ inbox[sockets[n]] \in Seq(LineKind)
    BY <1>0, <1>4 DEF ReceiveLines, IsOpen, TypeOK
  <2>2. stack' \in Seq(Frame)
    BY <1>4, CallType DEF ReceiveLines
  <2>3. text' \in [Client -> Seq(LineKind)]
    <3>1. text' = [text EXCEPT ![messages[n]] = inbox[sockets[n]]]
      BY <1>4 DEF ReceiveLines
    <3>2. QED
      BY <1>0, <2>1, <3>1 DEF TypeOK
  <2>6. inbox' \in [Client -> Seq(LineKind)]
    <3>1. inbox' = [inbox EXCEPT ![sockets[n]] = <<>>]
      BY <1>4 DEF ReceiveLines
    <3>2. <<>> \in Seq(LineKind)
      OBVIOUS
    <3>3. QED
      BY <1>0, <3>1, <3>2 DEF TypeOK
  <2>4. n' \in Nat /\ count' \in Nat
    BY <1>0, <1>4 DEF ReceiveLines, CountSlot, TypeOK
  <2>5. QED
    BY <1>0, <1>4, <2>2, <2>3, <2>4, <2>6 DEF ReceiveLines, CountSlot, TypeOK
<1>5. CASE ReceiveEnd
  <2>1. n \in Slot /\ IsOpen(n) /\ CloseSlot(n)
    BY <1>5 DEF ReceiveEnd
  <2>2. stack' \in Seq(Frame)
    BY <1>5, FarewellType DEF ReceiveEnd
  <2>3. QED
    BY <1>0, <1>5, <2>1, <2>2, CloseSlotType DEF ReceiveEnd, CountSlot, TypeOK
<1>6. CASE ScanDone
  BY <1>0, <1>6 DEF ScanDone, TypeOK
<1>7. CASE ScanOverrun
  BY <1>0, <1>7, EndType DEF ScanOverrun, Ended
<1>8. QED
  BY <1>1, <1>2, <1>3, <1>4, <1>5, <1>6, <1>7 DEF Scan

\* The lines of a buffer, but the first, are lines.
LEMMA TakeLineType ==
  ASSUME TypeOK, NEW s \in Slot, HasLine(s, LineKind), TakeLine(s)
  PROVE  text' \in [Client -> Seq(LineKind)]
<1>1. messages[s] \in Client /\ text[messages[s]] \in Seq(LineKind) /\ text[messages[s]] # <<>>
  BY DEF TypeOK, HasLine
<1>2. Tail(text[messages[s]]) \in Seq(LineKind)
  BY <1>1
<1>3. QED
  BY <1>2 DEF TypeOK, TakeLine

LEMMA AnyLine ==
  ASSUME NEW s \in Slot, NEW kinds \in SUBSET LineKind, HasLine(s, kinds)
  PROVE  HasLine(s, LineKind)
BY DEF HasLine

\* handle_client.
LEMMA HandleClientType ==
  ASSUME TypeOK, HandleClient
  PROVE  TypeOK'
<1> USE DEF table, heap, scanning, network, news
<1>1. In("client") /\ Top \in Frame /\ Top.n \in Slot /\ Tail(stack) \in Seq(Frame) /\ stack \in Seq(Frame)
  <2>1. In("client")
    BY DEF HandleClient, BufferGone, ClientDone, Join, ShareUserMessage, LookupNullUser,
           AnswerSender, MuteListFull, NotifyAll, HandleServerExit, Command
  <2>2. stack \in Seq(Frame) /\ stack # <<>>
    BY <2>1 DEF In, TypeOK
  <2>3. QED
    BY <2>1, <2>2, StackType
<1>2. \A kinds \in SUBSET LineKind : Command(kinds) => HasLine(Top.n, LineKind)
  BY <1>1, AnyLine DEF Command
<1>3. CASE BufferGone
  BY <1>3, EndType DEF BufferGone, Ended
<1>4. CASE ClientDone
  BY <1>1, <1>4, StackStepType DEF ClientDone, Return
<1>5. CASE Join
  <2>1. text' \in [Client -> Seq(LineKind)]
    BY <1>1, <1>5, TakeLineType DEF Join
  <2>2. messages[Top.n] \in Client
    BY <1>1, <1>5 DEF Join, HasLine, TypeOK
  <2>3. stack' \in Seq(Frame)
    BY <1>1, <1>5, ShareCallType, PushType DEF Join
  <2>4. QED
    BY <1>1, <1>5, <2>1, <2>2, <2>3 DEF Join, TypeOK
<1>6. CASE ShareUserMessage
  <2>1. text' \in [Client -> Seq(LineKind)]
    BY <1>1, <1>2, <1>6, TakeLineType DEF ShareUserMessage, LineKind
  <2>2. stack' \in Seq(Frame)
    BY <1>1, <1>6, ShareCallType, PushType DEF ShareUserMessage
  <2>3. QED
    BY <1>6, <2>1, <2>2 DEF ShareUserMessage, TypeOK
<1>7. CASE LookupNullUser
  BY <1>7, EndType DEF LookupNullUser, Ended
<1>8. CASE AnswerSender
  <2>1. text' \in [Client -> Seq(LineKind)]
    BY <1>1, <1>2, <1>8, TakeLineType DEF AnswerSender, LineKind
  <2>2. stack' \in Seq(Frame)
    BY <1>1, <1>8, CallType DEF AnswerSender
  <2>3. QED
    BY <1>8, <2>1, <2>2 DEF AnswerSender, TypeOK
<1>9. CASE MuteListFull
  <2>1. text' \in [Client -> Seq(LineKind)]
    BY <1>1, <1>2, <1>9, TakeLineType DEF MuteListFull, LineKind
  <2>2. QED
    BY <1>9, <2>1 DEF MuteListFull, TypeOK
<1>10. CASE NotifyAll
  <2>1. text' \in [Client -> Seq(LineKind)]
    BY <1>1, <1>2, <1>10, TakeLineType DEF NotifyAll, LineKind
  <2>2. stack' \in Seq(Frame)
    <3>1. ShareCall(Top.n, FALSE) \in Frame /\ Call("reply", Top.n) \in Frame
      BY <1>1, CallType, ShareCallType
    <3>2. stack' = <<ShareCall(Top.n, FALSE), Call("reply", Top.n)>> \o stack
      BY <1>10 DEF NotifyAll
    <3>3. QED
      BY <1>1, <3>1, <3>2, PushTwoType
  <2>3. QED
    BY <1>10, <2>1, <2>2 DEF NotifyAll, TypeOK
<1>11. CASE HandleServerExit
  <2>1. peer' \in [Client -> PeerState]
    BY <1>11 DEF HandleServerExit, TypeOK, PeerState
  <2>2. sockets' \in [Slot -> Client \cup {None}]
    BY <1>11 DEF HandleServerExit, TypeOK
  <2>3. QED
    BY <1>11, <2>1, <2>2 DEF HandleServerExit, TypeOK, Ended
<1>12. QED
  BY <1>3, <1>4, <1>5, <1>6, <1>7, <1>8, <1>9, <1>10, <1>11 DEF HandleClient

\* show_all_statuses.
LEMMA ShowAllStatusesType ==
  ASSUME TypeOK, ShowAllStatuses
  PROVE  TypeOK'
<1> USE DEF table, heap, scanning, network, news
<1>1. stack \in Seq(Frame) /\ stack # <<>>
  BY DEF TypeOK, ShowAllStatuses, SortNullUser, SortUsers, OutputUserStatus,
         ListFreedUser, ListDone, Command, In
<1>2. Top \in Frame /\ Top.n \in Slot /\ Tail(stack) \in Seq(Frame)
  BY <1>1, StackType
<1>3. CASE SortNullUser
  BY <1>3, EndType DEF SortNullUser, Ended
<1>4. CASE SortUsers
  <2>1. text' \in [Client -> Seq(LineKind)]
    BY <1>2, <1>4, AnyLine, TakeLineType DEF SortUsers, Command, LineKind
  <2>2. PICK q \in [Slot -> Slot] :
          MoveSlots(q) /\ \E s \in Slot : stack' = <<Call("list", s)>> \o stack
    BY <1>4 DEF SortUsers, Arrangements
  <2>3. stack' \in Seq(Frame)
    BY <1>1, <2>2, CallType, PushType
  <2>4. /\ sockets' \in [Slot -> Client \cup {None}]
        /\ messages' \in [Slot -> Client \cup {None}]
        /\ users' \in [Slot -> Client \cup {None}]
    BY <2>2 DEF MoveSlots, TypeOK
  <2>5. QED
    BY <1>4, <2>1, <2>3, <2>4 DEF SortUsers, TypeOK
<1>5. CASE OutputUserStatus
  <2>1. [Top EXCEPT !.ctr = @ + 1] \in Frame /\ Call("reply", Top.n) \in Frame
    BY <1>1, <1>2, TopUpdates, CallType
  <2>2. stack' \in Seq(Frame)
    BY <1>2, <1>5, <2>1 DEF OutputUserStatus
  <2>3. QED
    BY <1>5, <2>2, StackStepType DEF OutputUserStatus
<1>6. CASE ListFreedUser
  BY <1>6, EndType DEF ListFreedUser, Ended
<1>7. CASE ListDone
  BY <1>2, <1>7, StackStepType DEF ListDone, Return
<1>8. QED
  BY <1>3, <1>4, <1>5, <1>6, <1>7 DEF ShowAllStatuses

\* A broadcast goes on: the innermost frame is replaced.
LEMMA ContinueType ==
  ASSUME TypeOK, stack # <<>>, NEW f \in Frame, Continue(f)
  PROVE  stack' \in Seq(Frame)
<1>1. Tail(stack) \in Seq(Frame)
  BY StackType DEF TypeOK
<1>2. QED
  BY <1>1 DEF Continue

\* share_message.
LEMMA ShareMessageType ==
  ASSUME TypeOK, ShareMessage
  PROVE  TypeOK'
<1> USE DEF table, heap, scanning, network, news
<1>1. stack \in Seq(Frame) /\ stack # <<>>
  BY DEF TypeOK, ShareMessage, ShareSkipEmpty, ShareSkip, ShareNullUser, ShareDeliver, ShareStall,
         ShareLose, SharePipe, ShareDone, DropNext, DropDone, CleanupUser,
         AtReceiver, AtOther, Sharing, In
<1>2. Top \in Frame /\ Top.n \in Slot /\ Top.lost \in Seq(Slot) /\ Tail(stack) \in Seq(Frame)
  BY <1>1, StackType
<1>3. CASE ShareSkipEmpty
  BY <1>1, <1>3, TopUpdates, ContinueType, StackStepType DEF ShareSkipEmpty
<1>4. CASE ShareSkip
  BY <1>1, <1>4, TopUpdates, ContinueType, StackStepType DEF ShareSkip
<1>5. CASE ShareNullUser
  BY <1>5, EndType DEF ShareNullUser, Ended
<1>6. CASE ShareDeliver
  <2>1. stack' \in Seq(Frame)
    BY <1>1, <1>6, TopUpdates, ContinueType DEF ShareDeliver
  <2>2. sockets[Top.ctr] \in Client
    BY <1>6 DEF ShareDeliver, AtReceiver, AtOther, Sharing, IsOpen, TypeOK
  <2>3. peer' \in [Client -> PeerState]
    BY <1>6, <2>2, WriteOutcomeType DEF ShareDeliver
  <2>4. owed' \in [Client -> SUBSET Client] /\ garbled' \in [Client -> SUBSET (Client \cup {None})]
    BY <1>2, <1>6, <2>2, TellType DEF ShareDeliver
  <2>5. QED
    BY <1>6, <2>1, <2>3, <2>4 DEF ShareDeliver, TypeOK
<1>7. CASE ShareStall
  <2>1. stack' \in Seq(Frame)
    BY <1>1, <1>7, TopUpdates, ContinueType DEF ShareStall
  <2>2. QED
    BY <1>7, <2>1 DEF ShareStall, TypeOK
<1>8. CASE ShareLose
  <2>1. Top.ctr \in Slot /\ IsOpen(Top.ctr) /\ CloseSlot(Top.ctr)
    BY <1>8 DEF ShareLose, AtReceiver, AtOther, Sharing
  <2>2. stack' \in Seq(Frame)
    BY <1>1, <1>8, <2>1, TopUpdates, ContinueType DEF ShareLose
  <2>3. QED
    BY <1>8, <2>1, <2>2, CloseSlotType DEF ShareLose, TypeOK
<1>9. CASE SharePipe
  BY <1>9, EndType DEF SharePipe, Ended
<1>10. CASE ShareDone
  <2>1. stack' \in Seq(Frame)
    BY <1>1, <1>10, TopUpdates, ContinueType DEF ShareDone
  <2>2. socket_total' \in Int
    BY <1>2, <1>10 DEF ShareDone, TypeOK
  <2>3. QED
    BY <1>10, <2>1, <2>2 DEF ShareDone, TypeOK
<1>11. CASE DropNext
  <2>1. Head(Top.lost) \in Slot /\ [Top EXCEPT !.lost = Tail(@)] \in Frame
    BY <1>1, <1>11, TopUpdates DEF DropNext
  <2>2. stack' \in Seq(Frame)
    BY <1>2, <1>11, <2>1, FarewellType DEF DropNext
  <2>3. messages' \in [Slot -> Client \cup {None}] /\ buffers' \subseteq Client
    BY <1>11 DEF DropNext, ForgetBuffers, TypeOK
  <2>4. QED
    BY <1>11, <2>2, <2>3 DEF DropNext, TypeOK
<1>12. CASE DropDone
  BY <1>2, <1>12, StackStepType DEF DropDone, Return
<1>13. CASE CleanupUser
  BY <1>2, <1>13 DEF CleanupUser, Return, TypeOK
<1>14. QED
  BY <1>3, <1>4, <1>5, <1>6, <1>7, <1>8, <1>9, <1>10, <1>11, <1>12, <1>13 DEF ShareMessage

\* reply.
LEMMA ReplyType ==
  ASSUME TypeOK, Reply
  PROVE  TypeOK'
<1> USE DEF table, heap, scanning, network, news
<1>1. stack \in Seq(Frame) /\ stack # <<>>
  BY DEF TypeOK, Reply, ReplyClosed, ReplyDeliver, ReplyLose, ReplyPipe, In
<1>2. Top.n \in Slot /\ Tail(stack) \in Seq(Frame)
  BY <1>1, StackType
<1>3. CASE ReplyClosed
  BY <1>2, <1>3, StackStepType DEF ReplyClosed, Return
<1>4. CASE ReplyDeliver
  <2>1. sockets[Top.n] \in Client
    BY <1>2, <1>4 DEF ReplyDeliver, IsOpen, TypeOK
  <2>2. peer' \in [Client -> PeerState]
    BY <1>4, <2>1, WriteOutcomeType DEF ReplyDeliver
  <2>3. QED
    BY <1>2, <1>4, <2>2 DEF ReplyDeliver, Return, TypeOK
<1>5. CASE ReplyLose
  <2>1. stack' \in Seq(Frame)
    BY <1>2, <1>5, FarewellType DEF ReplyLose
  <2>2. messages' \in [Slot -> Client \cup {None}] /\ buffers' \subseteq Client
    BY <1>5 DEF ReplyLose, TypeOK
  <2>4. socket_total' \in Int
    BY <1>5 DEF ReplyLose, TypeOK
  <2>3. QED
    BY <1>2, <1>5, <2>1, <2>2, <2>4, CloseSlotType DEF ReplyLose, TypeOK
<1>6. CASE ReplyPipe
  BY <1>6, EndType DEF ReplyPipe, Ended
<1>7. QED
  BY <1>3, <1>4, <1>5, <1>6 DEF Reply

\* The clients.
LEMMA ClientsType ==
  ASSUME TypeOK, Clients
  PROVE  TypeOK'
<1> USE DEF table, heap, scanning, network, news
<1>1. ASSUME NEW c \in Client, Connect(c)
      PROVE  TypeOK'
  <2>1. Append(backlog, c) \in Seq(Client)
    BY DEF TypeOK
  <2>2. peer' \in [Client -> PeerState]
    BY <1>1 DEF Connect, TypeOK, PeerState
  <2>3. QED
    BY <1>1, <2>1, <2>2 DEF Connect, TypeOK
<1>2. ASSUME NEW c \in Client, Hangup(c)
      PROVE  TypeOK'
  <2>1. peer' \in [Client -> PeerState]
    BY <1>2 DEF Hangup, TypeOK, PeerState
  <2>2. QED
    BY <1>2, <2>1 DEF Hangup, TypeOK
<1>3. ASSUME NEW c \in Client, NEW kind \in Kind, Send(c, kind)
      PROVE  TypeOK'
  <2>1. Append(inbox[c], kind) \in Seq(LineKind)
    BY KindAssumption DEF TypeOK
  <2>2. inbox' \in [Client -> Seq(LineKind)]
    BY <1>3, <2>1 DEF Send, TypeOK
  <2>3. sent' \in Nat
    BY <1>3 DEF Send, TypeOK
  <2>4. QED
    BY <1>3, <2>2, <2>3 DEF Send, TypeOK
<1>4. QED
  BY <1>1, <1>2, <1>3 DEF Clients

\* accept keeps having something to accept: select has seen it and nothing
\* takes it away before the scan's first step.
LEMMA AcceptReadyStep ==
  ASSUME TypeInv, [Next]_vars
  PROVE  AcceptReady'
<1> USE DEF table, heap, scanning, network, news
<1>1. CASE Select
  <2>1. Listener \notin Connected
    BY ListenerAssumption DEF TypeInv, TypeOK, Connected, OpenSlots, IsOpen
  <2>2. QED
    BY <1>1, <2>1 DEF Select, ReadSet, AcceptReady
<1>2. CASE Scan
  <2>1. n' # 0 \/ pc' # "scan" \/ UNCHANGED <<n, pc, ready, backlog>>
    BY <1>2 DEF Scan, ScanListener, EstablishConnection, SkipSlot, ReceiveLines, ReceiveEnd,
                ScanDone, ScanOverrun, CountSlot, End, Ended, TypeInv, TypeOK
  <2>2. QED
    BY <2>1 DEF TypeInv, AcceptReady
<1>3. CASE HandleClient
  <2>1. pc' # "scan" \/ UNCHANGED <<n, pc, ready, backlog>>
    BY <1>3 DEF HandleClient, BufferGone, ClientDone, Join, ShareUserMessage, LookupNullUser,
                AnswerSender, MuteListFull, NotifyAll, HandleServerExit, End
  <2>2. QED
    BY <2>1 DEF TypeInv, AcceptReady
<1>4. CASE ShowAllStatuses
  <2>1. pc' # "scan" \/ UNCHANGED <<n, pc, ready, backlog>>
    BY <1>4 DEF ShowAllStatuses, SortNullUser, SortUsers, OutputUserStatus, ListFreedUser,
                ListDone, End
  <2>2. QED
    BY <2>1 DEF TypeInv, AcceptReady
<1>5. CASE ShareMessage
  <2>1. pc' # "scan" \/ UNCHANGED <<n, pc, ready, backlog>>
    BY <1>5 DEF ShareMessage, ShareSkipEmpty, ShareSkip, ShareNullUser, ShareDeliver, ShareStall,
                ShareLose, SharePipe, ShareDone, DropNext, DropDone, CleanupUser, End
  <2>2. QED
    BY <2>1 DEF TypeInv, AcceptReady
<1>6. CASE Reply
  <2>1. pc' # "scan" \/ UNCHANGED <<n, pc, ready, backlog>>
    BY <1>6 DEF Reply, ReplyClosed, ReplyDeliver, ReplyLose, ReplyPipe, End
  <2>2. QED
    BY <2>1 DEF TypeInv, AcceptReady
<1>7. ASSUME NEW c \in Client, Connect(c)
      PROVE  AcceptReady'
  <2>1. Append(backlog, c) # <<>>
    <3>1. backlog \in Seq(Client)
      BY DEF TypeInv, TypeOK
    <3>2. QED
      BY <3>1, AppendProperties
  <2>2. QED
    BY <1>7, <2>1 DEF Connect, TypeInv, AcceptReady
<1>8. ASSUME NEW c \in Client, Hangup(c) \/ \E kind \in Kind : Send(c, kind)
      PROVE  AcceptReady'
  BY <1>8 DEF Hangup, Send, TypeInv, AcceptReady
<1>9. CASE UNCHANGED vars
  BY <1>9 DEF vars, TypeInv, AcceptReady
<1>10. QED
  BY <1>1, <1>2, <1>3, <1>4, <1>5, <1>6, <1>7, <1>8, <1>9 DEF Next, Server, Clients

LEMMA TypeStep ==
  ASSUME TypeInv, [Next]_vars
  PROVE  TypeInv'
<1>1. TypeOK
  BY DEF TypeInv
<1>2. TypeOK'
  <2>1. CASE UNCHANGED vars
    BY <1>1, <2>1 DEF vars, table, heap, scanning, network, news, TypeOK
  <2>2. CASE Next
    BY <1>1, <2>2, SelectType, ScanType, HandleClientType, ShowAllStatusesType, ShareMessageType,
       ReplyType, ClientsType DEF Next, Server
  <2>3. QED
    BY <2>1, <2>2
<1>3. QED
  BY <1>2, AcceptReadyStep DEF TypeInv

LEMMA TypeInit ==
  ASSUME Init
  PROVE  TypeInv
<1>1. TypeOK
  <2>1. <<>> \in Seq(LineKind) /\ <<>> \in Seq(Frame) /\ <<>> \in Seq(Client)
    OBVIOUS
  <2>2. QED
    BY <2>1 DEF Init, TypeOK, PeerState
<1>2. QED
  BY <1>1 DEF Init, TypeInv, AcceptReady

\* In every reachable state the table, the heap, the counters, the call stack
\* and the connections have their types, and accept is never called without a
\* connection to accept: the server's only thread blocks in select alone.
THEOREM TypeCorrect == Spec => [](TypeOK /\ AcceptReady)
<1>1. Init => TypeInv
  BY TypeInit
<1>2. TypeInv /\ [Next]_vars => TypeInv'
  BY TypeStep
<1>3. TypeInv => TypeOK /\ AcceptReady
  BY DEF TypeInv
<1>4. QED
  BY <1>1, <1>2, <1>3, PTL DEF Spec

-----------------------------------------------------------------------------
(***************************************************************************)
(* Part 2: the slots.  First the call stack, then the table.               *)
(***************************************************************************)

-----------------------------------------------------------------------------
(* The call stack *)

\* A step that opens no slot leaves every call's closed slots closed.
Closing == OpenSlots' \subseteq OpenSlots

LEMMA FrameInvKept ==
  ASSUME NEW f, FrameInv(f, OpenSlots), Closing
  PROVE  FrameInv(f, OpenSlots')
BY DEF FrameInv, Closing

\* The innermost call is replaced by the calls S.
LEMMA StackReplace ==
  ASSUME TypeOK, StackInv, stack # <<>>, Closing, NEW S \in Seq(Frame),
         stack' = S \o Tail(stack),
         pc' # "select",
         \A i \in DOMAIN S :
           /\ FrameInv(S[i], OpenSlots')
           /\ S[i].op = "client" => i = Len(S) /\ Top.op = "client"
           /\ S[i].op = "share" => i = 1
  PROVE  StackInv'
<1>1. stack \in Seq(Frame) /\ Tail(stack) \in Seq(Frame) /\ Len(stack) \in Nat \ {0}
  BY DEF TypeOK
<1>2. Top = stack[1] /\ Len(Tail(stack)) = Len(stack) - 1
  BY <1>1 DEF Top
<1>3. \A i \in DOMAIN Tail(stack) : i + 1 \in DOMAIN stack /\ Tail(stack)[i] = stack[i + 1]
  BY <1>1
<1>4. \A i \in DOMAIN stack :
        /\ FrameInv(stack[i], OpenSlots)
        /\ stack[i].op = "client" => i = Len(stack)
        /\ stack[i].op = "share" => i = 1
  BY DEF StackInv
<1>5. \A i \in DOMAIN stack : FrameInv(stack[i], OpenSlots')
  BY <1>4, FrameInvKept
<1>6. Top.op = "client" => Len(stack) = 1
  <2>1. 1 \in DOMAIN stack
    BY <1>1
  <2>2. QED
    BY <1>2, <1>4, <2>1
<1>7. /\ stack' \in Seq(Frame)
      /\ Len(stack') = Len(S) + Len(stack) - 1
      /\ Len(S) \in Nat
      /\ DOMAIN stack' = 1..Len(stack')
  BY <1>1, <1>2
<1>8. ASSUME NEW i \in DOMAIN stack'
      PROVE  /\ FrameInv(stack'[i], OpenSlots')
             /\ stack'[i].op = "client" => i = Len(stack')
             /\ stack'[i].op = "share" => i = 1
  <2>1. i \in 1..Len(stack')
    BY <1>7
  <2>2. CASE i <= Len(S)
    <3>1. stack'[i] = S[i] /\ i \in DOMAIN S
      BY <1>1, <1>7, <2>1, <2>2
    <3>2. S[i].op = "client" => i = Len(stack')
      BY <1>6, <1>7, <3>1
    <3>3. QED
      BY <3>1, <3>2
  <2>3. CASE i > Len(S)
    <3>1. i - Len(S) \in DOMAIN Tail(stack) /\ stack'[i] = Tail(stack)[i - Len(S)]
      BY <1>1, <1>2, <1>7, <2>1, <2>3
    <3>2. PICK j \in DOMAIN stack :
            stack'[i] = stack[j] /\ j = i - Len(S) + 1 /\ j # 1 /\ (j = Len(stack) => i = Len(stack'))
      BY <1>3, <1>7, <2>1, <2>3, <3>1
    <3>3. FrameInv(stack[j], OpenSlots')
      BY <1>5
    <3>4. QED
      BY <1>4, <3>2, <3>3
  <2>4. QED
    BY <1>7, <2>1, <2>2, <2>3
<1>9. QED
  BY <1>8 DEF StackInv

\* Calls are made, none of them by a share_message.
LEMMA StackPush ==
  ASSUME TypeOK, StackInv, stack # <<>>, Closing, NEW S \in Seq(Frame),
         stack' = S \o stack,
         pc' # "select",
         Top.op # "share",
         \A i \in DOMAIN S :
           FrameInv(S[i], OpenSlots') /\ S[i].op # "client" /\ (S[i].op = "share" => i = 1)
  PROVE  StackInv'
<1>1. stack \in Seq(Frame) /\ Top \in Frame /\ Top = stack[1] /\ 1 \in DOMAIN stack
  BY StackType DEF TypeOK, Top
<1> DEFINE R == S \o <<Top>>
<1>2. R \in Seq(Frame) /\ stack' = R \o Tail(stack)
  BY <1>1
<1>3. FrameInv(Top, OpenSlots')
  BY <1>1, FrameInvKept DEF StackInv
<1>4. ASSUME NEW i \in DOMAIN R
      PROVE  /\ FrameInv(R[i], OpenSlots')
             /\ R[i].op = "client" => i = Len(R) /\ Top.op = "client"
             /\ R[i].op = "share" => i = 1
  <2>1. Len(R) = Len(S) + 1 /\ Len(S) \in Nat /\ i \in 1..Len(R)
    BY <1>1
  <2>2. CASE i <= Len(S)
    <3>1. R[i] = S[i] /\ i \in DOMAIN S
      BY <1>1, <2>1, <2>2
    <3>2. QED
      BY <3>1
  <2>3. CASE i = Len(S) + 1
    <3>1. R[i] = Top
      BY <1>1, <2>1, <2>3
    <3>2. QED
      BY <1>3, <2>1, <2>3, <3>1
  <2>4. QED
    BY <2>1, <2>2, <2>3
<1> HIDE DEF R
<1>5. QED
  BY <1>2, <1>4, StackReplace

\* The innermost call returns.
LEMMA StackReturn ==
  ASSUME TypeOK, StackInv, stack # <<>>, Closing, Return, pc' # "select"
  PROVE  StackInv'
<1>1. Tail(stack) \in Seq(Frame)
  BY StackType DEF TypeOK
<1>2. /\ stack' = <<>> \o Tail(stack)
      /\ <<>> \in Seq(Frame)
      /\ \A i \in DOMAIN <<>> : FALSE
  BY <1>1 DEF Return
<1>3. QED
  BY <1>2, StackReplace

\* The innermost call, not a client's, goes on with another frame.
LEMMA StackContinue ==
  ASSUME TypeOK, StackInv, stack # <<>>, Closing, NEW f \in Frame, Continue(f),
         pc' # "select", FrameInv(f, OpenSlots'), f.op # "client"
  PROVE  StackInv'
<1>1. <<f>> \in Seq(Frame) /\ \A i \in DOMAIN <<f>> : i = 1 /\ <<f>>[i] = f
  OBVIOUS
<1>2. QED
  BY <1>1, StackReplace DEF Continue

\* The stack is left alone.
LEMMA StackKept ==
  ASSUME TypeOK, StackInv, Closing, UNCHANGED stack, pc' = "select" => stack = <<>>
  PROVE  StackInv'
<1>1. \A i \in DOMAIN stack : stack[i] \in Frame
  BY DEF TypeOK
<1>2. QED
  BY <1>1, FrameInvKept DEF StackInv

\* The calls S are the only ones.
LEMMA StackFresh ==
  ASSUME NEW S \in Seq(Frame),
         stack' = S,
         pc' # "select" \/ S = <<>>,
         \A i \in DOMAIN S :
           /\ FrameInv(S[i], OpenSlots')
           /\ S[i].op = "client" => i = Len(S)
           /\ S[i].op = "share" => i = 1
  PROVE  StackInv'
BY DEF StackInv

LEMMA ConcatOnes ==
  ASSUME NEW f \in Frame, NEW g \in Frame
  PROVE  <<f>> \o <<g>> = <<f, g>> /\ <<f, g>> \in Seq(Frame)
<1> DEFINE a == <<f>> \o <<g>>
           b == <<f, g>>
<1>1. a \in Seq(Frame) /\ Len(a) = 2 /\ a[1] = f /\ a[2] = g
  OBVIOUS
<1>2. b \in Seq(Frame) /\ Len(b) = 2 /\ b[1] = f /\ b[2] = g
  OBVIOUS
<1> HIDE DEF a, b
<1>3. Len(a) = Len(b) /\ \A i \in 1..Len(a) : a[i] = b[i]
  <2>1. \A i \in 1..2 : i = 1 \/ i = 2
    OBVIOUS
  <2>2. QED
    BY <1>1, <1>2, <2>1
<1>4. a = b
  BY <1>1, <1>2, <1>3, SeqEqual
<1>5. QED
  BY <1>2, <1>4 DEF a, b

LEMMA CallInv ==
  ASSUME NEW op \in {"client", "share", "drop", "reply", "list"}, NEW s \in Slot, NEW open
  PROVE  FrameInv(Call(op, s), open) /\ Call(op, s).op = op
BY DEF Call, FrameInv

LEMMA ShareCallInv ==
  ASSUME NEW s \in Slot, NEW open
  PROVE  /\ FrameInv(ShareCall(s, TRUE), open) /\ ShareCall(s, TRUE).op = "share"
         /\ FrameInv(ShareCall(s, FALSE), open) /\ ShareCall(s, FALSE).op = "share"
BY DEF ShareCall, Call, FrameInv

\* Farewell to a slot that has just been closed.
LEMMA FarewellInv ==
  ASSUME NEW s \in Slot, s \notin OpenSlots'
  PROVE  \A i \in DOMAIN Farewell(s) :
           /\ FrameInv(Farewell(s)[i], OpenSlots')
           /\ Farewell(s)[i].op # "client"
           /\ Farewell(s)[i].op = "share" => i = 1
<1>1. /\ FrameInv(Call("share", s), OpenSlots') /\ Call("share", s).op = "share"
      /\ FrameInv(Call("cleanup", s), OpenSlots') /\ Call("cleanup", s).op = "cleanup"
  BY DEF Call, FrameInv
<1>2. CASE users[s] = None
  BY <1>2 DEF Farewell
<1>3. CASE users[s] # None
  <2>1. Farewell(s) = <<Call("share", s), Call("cleanup", s)>>
    BY <1>3 DEF Farewell
  <2>2. QED
    BY <1>1, <2>1
<1>4. QED
  BY <1>2, <1>3

LEMMA ClosingWhenKept ==
  ASSUME UNCHANGED sockets
  PROVE  Closing /\ OpenSlots' = OpenSlots
BY DEF Closing, OpenSlots, IsOpen

LEMMA ClosingWhenClosed ==
  ASSUME TypeOK, NEW s \in Slot, CloseSlot(s)
  PROVE  Closing /\ OpenSlots' = OpenSlots \ {s}
BY DEF Closing, OpenSlots, IsOpen, CloseSlot, TypeOK

LEMMA EndStack ==
  ASSUME TypeOK, StackInv, NEW how \in Ended, End(how)
  PROVE  StackInv'
<1>1. UNCHANGED stack /\ UNCHANGED sockets /\ pc' # "select"
  BY DEF End, Ended, table
<1>2. QED
  BY <1>1, StackKept, ClosingWhenKept

-----------------------------------------------------------------------------
(* The steps of each part keep StackInv *)

LEMMA ScanStack ==
  ASSUME TypeOK, StackInv, Select \/ Scan
  PROVE  StackInv'
<1> USE DEF table, heap, scanning, network, news
<1>1. CASE Select
  BY <1>1, StackKept, ClosingWhenKept DEF Select, StackInv
<1>2. CASE ScanListener \/ EstablishConnection \/ SkipSlot \/ ScanDone
  <2>1. stack' = <<>>
    BY <1>2 DEF ScanListener, EstablishConnection, SkipSlot, ScanDone, AtSlot
  <2>2. QED
    BY <2>1 DEF StackInv
<1>3. CASE ReceiveLines
  <2>1. PICK f \in Frame : FrameInv(f, OpenSlots') /\ f.op # "share" /\ stack' = <<f>>
    BY <1>3, CallType, CallInv DEF ReceiveLines
  <2>2. pc' # "select"
    BY <1>3 DEF ReceiveLines, AtSlot, Running
  <2>3. /\ <<f>> \in Seq(Frame) /\ Len(<<f>>) = 1
        /\ \A i \in DOMAIN <<f>> : i = 1 /\ <<f>>[i] = f
    OBVIOUS
  <2>4. QED
    BY <2>1, <2>2, <2>3, StackFresh
<1>4. CASE ReceiveEnd
  <2>1. n \in Slot /\ CloseSlot(n) /\ stack' = Farewell(n) /\ pc' # "select"
    BY <1>4 DEF ReceiveEnd, AtSlot, Running
  <2>2. n \notin OpenSlots'
    BY <2>1, ClosingWhenClosed
  <2>3. QED
    BY <2>1, <2>2, FarewellType, FarewellInv, StackFresh
<1>5. CASE ScanOverrun
  BY <1>5, EndStack DEF ScanOverrun, Ended
<1>6. QED
  BY <1>1, <1>2, <1>3, <1>4, <1>5 DEF Scan

LEMMA HandleClientStack ==
  ASSUME TypeOK, StackInv, HandleClient
  PROVE  StackInv'
<1> USE DEF table, heap, scanning, network, news
<1>1. In("client")
  BY DEF HandleClient, BufferGone, ClientDone, Join, ShareUserMessage, LookupNullUser,
         AnswerSender, MuteListFull, NotifyAll, HandleServerExit, Command
<1>2. stack # <<>> /\ Top.n \in Slot /\ Top.op # "share" /\ pc = "scan"
  BY <1>1, StackType DEF In, Running, Top, TypeOK
<1>3. CASE BufferGone
  BY <1>3, EndStack DEF BufferGone, Ended
<1>4. CASE ClientDone
  BY <1>2, <1>4, StackReturn, ClosingWhenKept DEF ClientDone
<1>5. CASE Join \/ ShareUserMessage
  <2>1. PICK f \in Frame : f.op = "share" /\ FrameInv(f, OpenSlots') /\ stack' = <<f>> \o stack
    BY <1>2, <1>5, ShareCallType, ShareCallInv DEF Join, ShareUserMessage
  <2>2. Closing /\ pc' # "select"
    BY <1>2, <1>5, ClosingWhenKept DEF Join, ShareUserMessage
  <2>3. <<f>> \in Seq(Frame) /\ \A i \in DOMAIN <<f>> : i = 1 /\ <<f>>[i] = f
    OBVIOUS
  <2>4. QED
    BY <1>2, <2>1, <2>2, <2>3, StackPush
<1>6. CASE LookupNullUser
  BY <1>6, EndStack DEF LookupNullUser, Ended
<1>7. CASE AnswerSender
  <2>1. PICK f \in Frame : f.op = "reply" /\ FrameInv(f, OpenSlots') /\ stack' = <<f>> \o stack
    BY <1>2, <1>7, CallType, CallInv DEF AnswerSender
  <2>2. Closing /\ pc' # "select"
    BY <1>2, <1>7, ClosingWhenKept DEF AnswerSender
  <2>3. <<f>> \in Seq(Frame) /\ \A i \in DOMAIN <<f>> : i = 1 /\ <<f>>[i] = f
    OBVIOUS
  <2>4. QED
    BY <1>2, <2>1, <2>2, <2>3, StackPush
<1>8. CASE NotifyAll
  <2>1. PICK f \in Frame, g \in Frame :
          /\ f.op = "share" /\ FrameInv(f, OpenSlots')
          /\ g.op = "reply" /\ FrameInv(g, OpenSlots')
          /\ stack' = <<f, g>> \o stack
    <3>1. ShareCall(Top.n, FALSE) \in Frame /\ Call("reply", Top.n) \in Frame
      BY <1>2, CallType, ShareCallType
    <3>2. /\ ShareCall(Top.n, FALSE).op = "share" /\ FrameInv(ShareCall(Top.n, FALSE), OpenSlots')
          /\ Call("reply", Top.n).op = "reply" /\ FrameInv(Call("reply", Top.n), OpenSlots')
      BY <1>2, CallInv, ShareCallInv
    <3>3. stack' = <<ShareCall(Top.n, FALSE), Call("reply", Top.n)>> \o stack
      BY <1>8 DEF NotifyAll
    <3>4. QED
      BY <3>1, <3>2, <3>3
  <2>2. Closing /\ pc' # "select"
    BY <1>2, <1>8, ClosingWhenKept DEF NotifyAll
  <2>3. /\ <<f, g>> \in Seq(Frame)
        /\ \A i \in DOMAIN <<f, g>> : i = 1 \/ i = 2
        /\ <<f, g>>[1] = f /\ <<f, g>>[2] = g
    OBVIOUS
  <2>4. QED
    BY <1>2, <2>1, <2>2, <2>3, StackPush
<1>9. CASE HandleServerExit
  <2>1. Closing /\ UNCHANGED stack /\ pc' # "select"
    BY <1>9 DEF HandleServerExit, Closing, OpenSlots, IsOpen
  <2>2. QED
    BY <2>1, StackKept
<1>10. CASE MuteListFull
  BY <1>2, <1>10, StackKept, ClosingWhenKept DEF MuteListFull
<1>11. QED
  BY <1>3, <1>4, <1>5, <1>6, <1>7, <1>8, <1>9, <1>10 DEF HandleClient

LEMMA ShowAllStatusesStack ==
  ASSUME TypeOK, StackInv, ShowAllStatuses
  PROVE  StackInv'
<1> USE DEF table, heap, scanning, network, news
<1>1. stack \in Seq(Frame) /\ stack # <<>> /\ pc = "scan"
  BY DEF TypeOK, ShowAllStatuses, SortNullUser, SortUsers, OutputUserStatus,
         ListFreedUser, ListDone, Command, In, Running
<1>2. Top \in Frame /\ Top.n \in Slot /\ Top = stack[1] /\ 1 \in DOMAIN stack
  BY <1>1, StackType DEF Top
<1>3. FrameInv(Top, OpenSlots)
  BY <1>2 DEF StackInv
<1>4. CASE SortNullUser
  BY <1>4, EndStack DEF SortNullUser, Ended
<1>5. CASE SortUsers
  <2>1. Top.op = "client"
    BY <1>5 DEF SortUsers, Command, In, Top
  <2>2. Len(stack) = 1 /\ Top.lost = <<>>
    BY <1>2, <1>3, <2>1 DEF StackInv, FrameInv
  <2>3. stack = <<Top>> /\ FrameInv(Top, OpenSlots')
    BY <1>1, <1>2, <2>1, <2>2 DEF FrameInv
  <2>4. PICK f \in Frame : f.op = "list" /\ FrameInv(f, OpenSlots') /\ stack' = <<f>> \o stack
    <3>1. PICK s \in Slot : stack' = <<Call("list", s)>> \o stack
      BY <1>5 DEF SortUsers
    <3>2. Call("list", s) \in Frame
      BY CallType
    <3>3. Call("list", s).op = "list" /\ FrameInv(Call("list", s), OpenSlots')
      BY CallInv
    <3>4. WITNESS Call("list", s) \in Frame
    <3>5. QED
      BY <3>1, <3>3
  <2>5. stack' = <<f, Top>> /\ <<f, Top>> \in Seq(Frame)
    BY <1>2, <2>3, <2>4, ConcatOnes
  <2>6. /\ \A i \in DOMAIN <<f, Top>> : i = 1 \/ i = 2
        /\ <<f, Top>>[1] = f /\ <<f, Top>>[2] = Top /\ Len(<<f, Top>>) = 2
    OBVIOUS
  <2>7. pc' # "select"
    BY <1>1, <1>5 DEF SortUsers
  <2>8. QED
    BY <2>1, <2>3, <2>4, <2>5, <2>6, <2>7, StackFresh
<1>6. CASE OutputUserStatus
  <2>1. Top.op = "list" /\ Top.lost = <<>>
    BY <1>3, <1>6 DEF OutputUserStatus, In, Top, FrameInv
  <2>2. PICK f \in Frame, g \in Frame :
          /\ f.op = "reply" /\ FrameInv(f, OpenSlots')
          /\ g.op = "list" /\ g.lost = <<>>
          /\ stack' = <<f, g>> \o Tail(stack)
    <3>1. Call("reply", Top.n) \in Frame /\ [Top EXCEPT !.ctr = @ + 1] \in Frame
      BY <1>1, <1>2, CallType, TopUpdates
    <3>2. [Top EXCEPT !.ctr = @ + 1].op = "list" /\ [Top EXCEPT !.ctr = @ + 1].lost = <<>>
      BY <1>2, <2>1 DEF Frame
    <3>3. QED
      BY <1>2, <1>6, <3>1, <3>2, CallInv DEF OutputUserStatus
  <2>3. FrameInv(g, OpenSlots')
    BY <2>2 DEF FrameInv
  <2>4. Closing /\ pc' # "select"
    BY <1>1, <1>6, ClosingWhenKept DEF OutputUserStatus
  <2>5. /\ <<f, g>> \in Seq(Frame)
        /\ \A i \in DOMAIN <<f, g>> : i = 1 \/ i = 2
        /\ <<f, g>>[1] = f /\ <<f, g>>[2] = g
    OBVIOUS
  <2>6. QED
    BY <1>1, <2>2, <2>3, <2>4, <2>5, StackReplace
<1>7. CASE ListFreedUser
  BY <1>7, EndStack DEF ListFreedUser, Ended
<1>8. CASE ListDone
  BY <1>1, <1>8, StackReturn, ClosingWhenKept DEF ListDone
<1>9. QED
  BY <1>4, <1>5, <1>6, <1>7, <1>8 DEF ShowAllStatuses

LEMMA ShareMessageStack ==
  ASSUME TypeOK, StackInv, ShareMessage
  PROVE  StackInv'
<1> USE DEF table, heap, scanning, network, news
<1>1. stack \in Seq(Frame) /\ stack # <<>> /\ pc = "scan"
  BY DEF TypeOK, ShareMessage, ShareSkipEmpty, ShareSkip, ShareNullUser, ShareDeliver, ShareStall,
         ShareLose, SharePipe, ShareDone, DropNext, DropDone, CleanupUser,
         AtReceiver, AtOther, Sharing, In, Running
<1>2. Top \in Frame /\ Top.n \in Slot /\ Top.lost \in Seq(Slot) /\ Top = stack[1] /\ 1 \in DOMAIN stack
  BY <1>1, StackType DEF Top
<1>3. FrameInv(Top, OpenSlots)
  BY <1>2 DEF StackInv
<1>4. CASE ShareSkipEmpty \/ ShareSkip \/ ShareDeliver \/ ShareStall
  <2>1. Top.op = "share" /\ Closing /\ pc' # "select" /\ OpenSlots' = OpenSlots
    BY <1>1, <1>4, ClosingWhenKept
       DEF ShareSkipEmpty, ShareSkip, ShareDeliver, ShareStall, AtReceiver, AtOther, Sharing, In, Top
  <2>2. PICK f \in Frame : f.op = "share" /\ f.lost = Top.lost /\ Continue(f)
    <3>1. /\ NextReceiver \in Frame
          /\ [Top EXCEPT !.ctr = @ + 1] \in Frame /\ [Top EXCEPT !.early = TRUE] \in Frame
      BY <1>1, TopUpdates
    <3>2. /\ NextReceiver.op = "share" /\ NextReceiver.lost = Top.lost
          /\ [Top EXCEPT !.ctr = @ + 1].op = "share" /\ [Top EXCEPT !.ctr = @ + 1].lost = Top.lost
          /\ [Top EXCEPT !.early = TRUE].op = "share" /\ [Top EXCEPT !.early = TRUE].lost = Top.lost
      BY <1>2, <2>1 DEF NextReceiver, Frame
    <3>3. QED
      BY <1>4, <3>1, <3>2 DEF ShareSkipEmpty, ShareSkip, ShareDeliver, ShareStall
  <2>3. FrameInv(f, OpenSlots')
    BY <1>3, <2>1, <2>2 DEF FrameInv
  <2>4. QED
    BY <1>1, <2>1, <2>2, <2>3, StackContinue
<1>5. CASE ShareNullUser
  BY <1>5, EndStack DEF ShareNullUser, Ended
<1>6. CASE ShareLose
  <2>1. Top.op = "share" /\ Top.ctr \in Slot /\ CloseSlot(Top.ctr) /\ pc' # "select"
    BY <1>1, <1>6 DEF ShareLose, AtReceiver, AtOther, Sharing, In, Top
  <2>2. Closing /\ OpenSlots' = OpenSlots \ {Top.ctr}
    BY <2>1, ClosingWhenClosed
  <2>3. PICK f \in Frame : f.op = "share" /\ f.lost = Append(Top.lost, Top.ctr) /\ Continue(f)
    <3>1. NextReceiver \in Frame /\ NextReceiver.op = "share" /\ NextReceiver.lost = Top.lost
      BY <1>1, <1>2, <2>1, TopUpdates DEF NextReceiver, Frame
    <3>2. [NextReceiver EXCEPT !.lost = Append(@, Top.ctr)] \in Frame
      BY <1>1, <2>1, TopUpdates
    <3>3. /\ [NextReceiver EXCEPT !.lost = Append(@, Top.ctr)].op = "share"
          /\ [NextReceiver EXCEPT !.lost = Append(@, Top.ctr)].lost = Append(Top.lost, Top.ctr)
      BY <3>1 DEF Frame
    <3>4. QED
      BY <1>6, <3>2, <3>3 DEF ShareLose
  <2>4. \A i \in DOMAIN f.lost : f.lost[i] \notin OpenSlots'
    <3>1. TAKE i \in DOMAIN f.lost
    <3>2. (i \in DOMAIN Top.lost /\ f.lost[i] = Top.lost[i]) \/ f.lost[i] = Top.ctr
      BY <1>2, <2>1, <2>3
    <3>3. QED
      BY <1>3, <2>2, <3>2 DEF FrameInv
  <2>5. FrameInv(f, OpenSlots')
    BY <2>3, <2>4 DEF FrameInv
  <2>6. QED
    BY <1>1, <2>1, <2>2, <2>3, <2>5, StackContinue
<1>7. CASE SharePipe
  BY <1>7, EndStack DEF SharePipe, Ended
<1>8. CASE ShareDone
  <2>1. Closing /\ pc' # "select" /\ OpenSlots' = OpenSlots
    BY <1>1, <1>8, ClosingWhenKept DEF ShareDone
  <2>2. PICK f \in Frame : f.op = "drop" /\ f.lost = Top.lost /\ Continue(f)
    <3>1. [Top EXCEPT !.op = "drop"] \in Frame
      BY <1>1, TopUpdates
    <3>2. [Top EXCEPT !.op = "drop"].op = "drop" /\ [Top EXCEPT !.op = "drop"].lost = Top.lost
      BY <1>2 DEF Frame
    <3>3. QED
      BY <1>8, <3>1, <3>2 DEF ShareDone
  <2>3. FrameInv(f, OpenSlots')
    BY <1>3, <2>1, <2>2 DEF FrameInv
  <2>4. QED
    BY <1>1, <2>1, <2>2, <2>3, StackContinue
<1>9. CASE DropNext
  <2>1. Top.lost # <<>> /\ Closing /\ pc' # "select" /\ OpenSlots' = OpenSlots
    BY <1>1, <1>9, ClosingWhenKept DEF DropNext, ForgetBuffers
  <2>2. Head(Top.lost) \in Slot /\ Head(Top.lost) \notin OpenSlots'
    BY <1>2, <1>3, <2>1 DEF FrameInv
  <2> DEFINE F == Farewell(Head(Top.lost))
  <2>3. PICK f \in Frame :
          f.op = "drop" /\ f.lost = Tail(Top.lost) /\ stack' = F \o <<f>> \o Tail(stack)
    <3>1. [Top EXCEPT !.lost = Tail(@)] \in Frame
      BY <1>1, <2>1, TopUpdates
    <3>2. Top.op = "drop"
      BY <1>9 DEF DropNext, In, Top
    <3>3. [Top EXCEPT !.lost = Tail(@)].op = "drop" /\ [Top EXCEPT !.lost = Tail(@)].lost = Tail(Top.lost)
      BY <1>2, <3>2 DEF Frame
    <3>4. QED
      BY <1>9, <3>1, <3>3 DEF DropNext
  <2>4. FrameInv(f, OpenSlots')
    <3>1. \A i \in DOMAIN Tail(Top.lost) : i + 1 \in DOMAIN Top.lost /\ Tail(Top.lost)[i] = Top.lost[i + 1]
      BY <1>2, <2>1
    <3>2. QED
      BY <1>3, <2>1, <2>3, <3>1 DEF FrameInv
  <2>5. /\ F \in Seq(Frame)
        /\ \A i \in DOMAIN F :
             FrameInv(F[i], OpenSlots') /\ F[i].op # "client" /\ (F[i].op = "share" => i = 1)
    BY <2>2, FarewellType, FarewellInv
  <2> HIDE DEF F
  <2>6. /\ F \o <<f>> \in Seq(Frame)
        /\ \A i \in DOMAIN (F \o <<f>>) :
             (i \in DOMAIN F /\ (F \o <<f>>)[i] = F[i]) \/ (F \o <<f>>)[i] = f
    BY <2>5
  <2>7. stack' = (F \o <<f>>) \o Tail(stack)
    BY <2>3
  <2>8. QED
    BY <1>1, <2>1, <2>3, <2>4, <2>5, <2>6, <2>7, StackReplace
<1>10. CASE DropDone
  BY <1>1, <1>10, StackReturn, ClosingWhenKept DEF DropDone
<1>11. CASE CleanupUser
  BY <1>1, <1>11, StackReturn, ClosingWhenKept DEF CleanupUser
<1>12. QED
  BY <1>4, <1>5, <1>6, <1>7, <1>8, <1>9, <1>10, <1>11 DEF ShareMessage

LEMMA ReplyStack ==
  ASSUME TypeOK, StackInv, Reply
  PROVE  StackInv'
<1> USE DEF table, heap, scanning, network, news
<1>1. stack \in Seq(Frame) /\ stack # <<>> /\ pc = "scan"
  BY DEF TypeOK, Reply, ReplyClosed, ReplyDeliver, ReplyLose, ReplyPipe, In, Running
<1>2. Top.n \in Slot
  BY <1>1, StackType
<1>3. CASE ReplyClosed \/ ReplyDeliver
  BY <1>1, <1>3, StackReturn, ClosingWhenKept DEF ReplyClosed, ReplyDeliver
<1>4. CASE ReplyLose
  <2>1. CloseSlot(Top.n) /\ stack' = Farewell(Top.n) \o Tail(stack) /\ pc' # "select"
    BY <1>1, <1>4 DEF ReplyLose
  <2>2. Closing /\ Top.n \notin OpenSlots'
    BY <1>2, <2>1, ClosingWhenClosed
  <2>3. QED
    BY <1>1, <1>2, <2>1, <2>2, FarewellType, FarewellInv, StackReplace
<1>5. CASE ReplyPipe
  BY <1>5, EndStack DEF ReplyPipe, Ended
<1>6. QED
  BY <1>3, <1>4, <1>5 DEF Reply

LEMMA StackStep ==
  ASSUME TypeOK, StackInv, [Next]_vars
  PROVE  StackInv'
<1> USE DEF table, heap, scanning, network, news
<1>1. CASE Clients
  BY <1>1, StackKept, ClosingWhenKept DEF Clients, Connect, Send, Hangup, StackInv
<1>2. CASE UNCHANGED vars
  BY <1>2, StackKept, ClosingWhenKept DEF vars, StackInv
<1>3. QED
  BY <1>1, <1>2, ScanStack, HandleClientStack, ShowAllStatusesStack, ShareMessageStack, ReplyStack
     DEF Next, Server

-----------------------------------------------------------------------------
(* The table *)

\* A connection once made never looks as if it had not been.
NoneIdle == \A c \in Client : peer'[c] = "idle" => peer[c] = "idle"

LEMMA OpenValues ==
  ASSUME TypeOK
  PROVE  /\ OpenSlots \subseteq Slot
         /\ \A s \in Slot : s \in OpenSlots <=> sockets[s] # None
         /\ \A s \in OpenSlots : sockets[s] \in Client
BY DEF TypeOK, OpenSlots, IsOpen

LEMMA OpenValuesNext ==
  ASSUME TypeOK'
  PROVE  /\ OpenSlots' \subseteq Slot
         /\ \A s \in Slot : s \in OpenSlots' <=> sockets'[s] # None
         /\ \A s \in OpenSlots' : sockets'[s] \in Client
BY DEF TypeOK, OpenSlots, IsOpen

\* A write or a close leaves the connection's client something other than idle.
LEMMA WriteNotIdle ==
  ASSUME TypeOK, NEW c \in Client, NEW got, NEW after, WriteOutcome(c, got, after),
         peer' = [peer EXCEPT ![c] = after]
  PROVE  NoneIdle
BY DEF WriteOutcome, NoneIdle, TypeOK

LEMMA CloseNotIdle ==
  ASSUME TypeOK, NEW s \in Slot, CloseSlot(s)
  PROVE  NoneIdle
BY DEF CloseSlot, NoneIdle, TypeOK

\* A step that forgets: each slot keeps its connection, its buffer and its user
\* or loses them, and a slot that stays open keeps what it points to allocated.
LEMMA TableForgets ==
  ASSUME TypeOK, TableInv, TypeOK', NoneIdle, UNCHANGED backlog,
         \A s \in Slot :
           /\ sockets'[s] \in {sockets[s], None}
           /\ messages'[s] \in {messages[s], None}
           /\ users'[s] \in {users[s], None},
         \A s \in OpenSlots' :
           /\ messages'[s] # None /\ messages'[s] \in buffers => messages'[s] \in buffers'
           /\ users'[s] # None /\ users'[s] \in userinfos => users'[s] \in userinfos'
  PROVE  TableInv'
<1>1. OpenSlots' \subseteq OpenSlots /\ \A s \in OpenSlots' : sockets'[s] = sockets[s]
  BY OpenValues, OpenValuesNext
<1>2. SlotsCoherent'
  BY <1>1, OpenValues DEF TableInv, SlotsCoherent
<1>3. OneSlotEach'
  BY DEF TableInv, OneSlotEach
<1>4. \A c \in Client : InTable(c)' => InTable(c)
  <2>1. None \notin Client
    BY ClientAssumption
  <2>2. QED
    BY <2>1 DEF InTable
<1>5. \A i \in DOMAIN backlog : backlog[i] \in Client
  BY DEF TypeOK
<1>6. Fresh'
  BY <1>4, <1>5 DEF TableInv, Fresh, NoneIdle
<1>7. QED
  BY <1>2, <1>3, <1>6 DEF TableInv

\* A step that leaves the table and the heap alone.
LEMMA TableKept ==
  ASSUME TypeOK, TableInv, TypeOK', NoneIdle,
         UNCHANGED <<sockets, messages, users, buffers, userinfos, backlog>>
  PROVE  TableInv'
BY TableForgets

\* accept and create a buffer: the connection is in no other slot.
LEMMA EstablishTable ==
  ASSUME TypeOK, TableInv, AcceptReady, TypeOK', EstablishConnection
  PROVE  TableInv'
<1>1. PICK s \in Slot : FirstFree(s) /\ FillSlot(s, Head(backlog))
  BY DEF EstablishConnection
<1> DEFINE c == Head(backlog)
<1>2. backlog \in Seq(Client) /\ backlog # <<>>
  BY DEF EstablishConnection, AtSlot, Running, AcceptReady, TypeOK
<1>3. c \in Client /\ c = backlog[1] /\ 1 \in DOMAIN backlog
  BY <1>2
<1>4. c # None
  BY <1>3, ClientAssumption
<1>5. ~InTable(c) /\ \A j \in DOMAIN backlog : backlog[j] = c => j = 1
  BY <1>3 DEF TableInv, Fresh
<1>6. peer[c] # "idle"
  BY <1>3 DEF TableInv, Fresh
<1>7. /\ backlog' = Tail(backlog) /\ UNCHANGED <<userinfos, peer>>
      /\ sockets' = [sockets EXCEPT ![s] = c]
      /\ messages' = [messages EXCEPT ![s] = c]
      /\ users' = [users EXCEPT ![s] = None]
      /\ buffers' = buffers \cup {c}
  BY <1>1 DEF EstablishConnection, FillSlot
<1> HIDE DEF c
<1>8. /\ \A t \in Slot \ {s} : sockets'[t] = sockets[t] /\ messages'[t] = messages[t] /\ users'[t] = users[t]
      /\ sockets'[s] = c /\ messages'[s] = c /\ users'[s] = None
  BY <1>7 DEF TypeOK
<1>9. \A t \in Slot : sockets[t] # c /\ messages[t] # c /\ users[t] # c
  BY <1>5 DEF InTable
<1>10. /\ \A t \in OpenSlots' : t = s \/ t \in OpenSlots
       /\ \A t \in OpenSlots' : t \in Slot
  BY <1>8, OpenValues, OpenValuesNext
<1>11. SlotsCoherent'
  BY <1>4, <1>7, <1>8, <1>9, <1>10 DEF TableInv, SlotsCoherent
<1>12. OneSlotEach'
  BY <1>4, <1>8, <1>9 DEF TableInv, OneSlotEach
<1>13. \A d \in Client : InTable(d)' => InTable(d) \/ d = c
  BY <1>8, ClientAssumption DEF InTable
<1>14. \A i \in DOMAIN backlog' : i + 1 \in DOMAIN backlog /\ i + 1 # 1 /\ backlog'[i] = backlog[i + 1] /\ backlog'[i] \in Client
  BY <1>2, <1>7
<1>15. Fresh'
  <2>1. ASSUME NEW i \in DOMAIN backlog'
        PROVE  /\ ~InTable(backlog[i])'
               /\ \A j \in DOMAIN backlog' : backlog'[i] = backlog'[j] => i = j
    <3>1. PICK k \in DOMAIN backlog : k = i + 1 /\ k # 1 /\ backlog'[i] = backlog[k] /\ backlog[k] \in Client
      BY <1>14
    <3>2. backlog[k] # c /\ ~InTable(backlog[k])
      BY <1>5, <3>1 DEF TableInv, Fresh
    <3>3. ~InTable(backlog[i])'
      BY <1>13, <3>1, <3>2 DEF InTable
    <3>4. ASSUME NEW j \in DOMAIN backlog', backlog'[i] = backlog'[j]
          PROVE  i = j
      <4>1. j + 1 \in DOMAIN backlog /\ backlog'[j] = backlog[j + 1]
        BY <1>14
      <4>2. k = j + 1
        BY <3>1, <3>4, <4>1 DEF TableInv, Fresh
      <4>3. i \in Int /\ j \in Int
        BY <1>2, <1>7
      <4>4. QED
        BY <3>1, <4>2, <4>3
    <3>5. QED
      BY <3>3, <3>4
  <2>2. ASSUME NEW d \in Client, peer'[d] = "idle"
        PROVE  ~InTable(d)' /\ \A i \in DOMAIN backlog' : backlog'[i] # d
    <3>1. d # c /\ ~InTable(d) /\ \A i \in DOMAIN backlog : backlog[i] # d
      BY <1>6, <1>7, <2>2 DEF TableInv, Fresh
    <3>2. QED
      BY <1>13, <1>14, <3>1
  <2>3. QED
    BY <2>1, <2>2 DEF Fresh
<1>16. QED
  BY <1>11, <1>12, <1>15 DEF TableInv

\* create_user: the user belongs to the slot whose buffer it was read from.
LEMMA JoinTable ==
  ASSUME TypeOK, TableInv, TypeOK', Join
  PROVE  TableInv'
<1>1. Top.n \in Slot
  <2>1. stack \in Seq(Frame) /\ stack # <<>>
    BY DEF Join, In, TypeOK
  <2>2. QED
    BY <2>1, StackType
<1> DEFINE s == Top.n
           c == messages[Top.n]
<1>2. /\ c # None /\ users[s] = None
      /\ users' = [users EXCEPT ![s] = c] /\ userinfos' = userinfos \cup {c}
      /\ UNCHANGED <<sockets, messages, buffers, backlog, peer>>
  BY DEF Join, HasLine, network
<1>3. s \in Slot
  BY <1>1
<1>4. c = messages[s]
  OBVIOUS
<1> HIDE DEF s, c
<1>5. users'[s] = c /\ \A t \in Slot \ {s} : users'[t] = users[t]
  BY <1>2, <1>3 DEF TypeOK
<1>6. OpenSlots' = OpenSlots /\ OpenSlots \subseteq Slot
  BY <1>2, ClosingWhenKept, OpenValues
<1>7. SlotsCoherent'
  BY <1>2, <1>3, <1>4, <1>5, <1>6 DEF TableInv, SlotsCoherent
<1>8. OneSlotEach'
  BY <1>2, <1>3, <1>4, <1>5 DEF TableInv, OneSlotEach
<1>9. \A d : InTable(d)' => InTable(d)
  BY <1>2, <1>3, <1>4, <1>5 DEF InTable
<1>10. Fresh'
  BY <1>2, <1>9 DEF TableInv, Fresh
<1>11. QED
  BY <1>7, <1>8, <1>10 DEF TableInv

LEMMA SlotFinite == IsFiniteSet(Slot) /\ Cardinality(Slot) = MaxClients
BY BoundsAssumption, FS_Interval DEF Slot

\* Sorting loses no slot, so it doubles none.
LEMMA ArrangementsBijective ==
  ASSUME NEW q \in Arrangements
  PROVE  q \in Bijection(Slot, Slot)
<1>1. q \in Surjection(Slot, Slot)
  BY DEF Arrangements, Surjection
<1>2. q \in Injection(Slot, Slot)
  BY <1>1, SlotFinite, FS_SurjSameCardinalityImpliesInj
<1>3. QED
  BY <1>1, <1>2 DEF Bijection

\* sort_users: a slot's connection, buffer and user move together.
LEMMA SortTable ==
  ASSUME TypeOK, TableInv, TypeOK', SortUsers
  PROVE  TableInv'
<1>1. PICK q \in Arrangements : MoveSlots(q)
  BY DEF SortUsers
<1>2. q \in [Slot -> Slot] /\ \A s, t \in Slot : q[s] = q[t] => s = t
  BY <1>1, ArrangementsBijective DEF Bijection, Injection, IsInjective
<1>3. \A s \in Slot :
        sockets'[s] = sockets[q[s]] /\ messages'[s] = messages[q[s]] /\ users'[s] = users[q[s]]
  BY <1>1, <1>2 DEF MoveSlots
<1>4. UNCHANGED <<buffers, userinfos, backlog, peer>>
  BY DEF SortUsers, heap, network
<1>5. \A s \in OpenSlots' : s \in Slot /\ q[s] \in OpenSlots
  BY <1>2, <1>3, OpenValues, OpenValuesNext
<1>6. SlotsCoherent'
  BY <1>2, <1>3, <1>4, <1>5 DEF TableInv, SlotsCoherent
<1>7. OneSlotEach'
  BY <1>2, <1>3 DEF TableInv, OneSlotEach
<1>8. \A c : InTable(c)' => InTable(c)
  BY <1>2, <1>3 DEF InTable
<1>9. Fresh'
  BY <1>4, <1>8 DEF TableInv, Fresh
<1>10. QED
  BY <1>6, <1>7, <1>9 DEF TableInv

\* cleanup_user: the user freed is no open slot's.
LEMMA CleanupTable ==
  ASSUME TypeOK, TableInv, StackInv, TypeOK', CleanupUser
  PROVE  TableInv'
<1>1. stack \in Seq(Frame) /\ stack # <<>> /\ Top.op = "cleanup"
  BY DEF CleanupUser, In, TypeOK, Top
<1>2. Top = stack[1] /\ 1 \in DOMAIN stack /\ Top.n \in Slot
  BY <1>1, StackType DEF Top
<1>3. Top.n \notin OpenSlots
  BY <1>1, <1>2 DEF StackInv, FrameInv
<1>4. users[Top.n] \in userinfos /\ userinfos' = userinfos \ {users[Top.n]}
  BY DEF CleanupUser
<1>5. UNCHANGED <<sockets, messages, users, buffers, backlog, peer>> /\ OpenSlots' = OpenSlots
  BY ClosingWhenKept DEF CleanupUser, table, network
<1>6. users[Top.n] # None
  BY <1>4, ClientAssumption DEF TypeOK
<1>7. \A s \in OpenSlots : users[s] # users[Top.n]
  BY <1>2, <1>3, <1>6, OpenValues DEF TableInv, OneSlotEach
<1>8. NoneIdle
  BY <1>5 DEF NoneIdle
<1>9. QED
  BY <1>4, <1>5, <1>7, <1>8, TableForgets

\* close, free the buffer, forget it: the read or the reply of slot s failed.
LEMMA GiveUpTable ==
  ASSUME TypeOK, TableInv, TypeOK', NEW s \in Slot, IsOpen(s), CloseSlot(s),
         buffers' = buffers \ {messages[s]},
         messages' = [messages EXCEPT ![s] = None],
         UNCHANGED <<users, userinfos, backlog>>
  PROVE  TableInv'
<1>1. NoneIdle /\ OpenSlots' = OpenSlots \ {s}
  BY CloseNotIdle, ClosingWhenClosed
<1>2. \A t \in Slot : t # s => messages'[t] = messages[t]
  BY DEF TypeOK
<1>3. \A t \in Slot : t # s /\ messages[t] # None => messages[t] # messages[s]
  BY DEF TableInv, OneSlotEach
<1>4. /\ \A t \in Slot : sockets'[t] \in {sockets[t], None}
      /\ \A t \in Slot : messages'[t] \in {messages[t], None}
  BY DEF CloseSlot, TypeOK
<1>5. OpenSlots \subseteq Slot
  BY OpenValues
<1>6. QED
  BY <1>1, <1>2, <1>3, <1>4, <1>5, TableForgets

\* share_message closes a slot and keeps its buffer and its user for now.
LEMMA LoseTable ==
  ASSUME TypeOK, TableInv, TypeOK', NEW s \in Slot, CloseSlot(s),
         UNCHANGED <<messages, users, buffers, userinfos, backlog>>
  PROVE  TableInv'
<1>1. NoneIdle
  BY CloseNotIdle
<1>2. \A t \in Slot : sockets'[t] \in {sockets[t], None}
  BY DEF CloseSlot, TypeOK
<1>3. QED
  BY <1>1, <1>2, TableForgets

\* The sender's buffer is freed for the closed slot's: no third slot's is.
LEMMA DropTable ==
  ASSUME TypeOK, TableInv, TypeOK', NEW m \in Slot, NEW s \in Slot, ForgetBuffers(m, s),
         UNCHANGED <<sockets, users, userinfos, backlog, peer>>
  PROVE  TableInv'
<1>1. NoneIdle /\ OpenSlots' = OpenSlots /\ OpenSlots \subseteq Slot
  BY ClosingWhenKept, OpenValues DEF NoneIdle
<1>2. \A t \in Slot : messages'[t] = IF t \in {m, s} THEN None ELSE messages[t]
  BY DEF ForgetBuffers, TypeOK
<1>3. \A t \in Slot : t # m /\ messages[t] # None => messages[t] # messages[m]
  BY DEF TableInv, OneSlotEach
<1>4. buffers' = buffers \ {messages[m]}
  BY DEF ForgetBuffers
<1>5. QED
  BY <1>1, <1>2, <1>3, <1>4, TableForgets

\* handle_server_exit leaves no slot open.
LEMMA ExitTable ==
  ASSUME TypeOK, TableInv, TypeOK', HandleServerExit
  PROVE  TableInv'
<1>1. NoneIdle
  BY DEF HandleServerExit, NoneIdle, TypeOK
<1>2. /\ OpenSlots' = {}
      /\ \A s \in Slot : sockets'[s] = None
      /\ UNCHANGED <<messages, users, backlog>>
  BY DEF HandleServerExit, OpenSlots, IsOpen, network
<1>3. QED
  BY <1>1, <1>2, TableForgets

\* connect: the new connection is in no slot yet.
LEMMA ConnectTable ==
  ASSUME TypeOK, TableInv, TypeOK', NEW c \in Client, Connect(c)
  PROVE  TableInv'
<1>1. /\ peer[c] = "idle" /\ peer' = [peer EXCEPT ![c] = "up"]
      /\ backlog' = Append(backlog, c)
      /\ UNCHANGED <<sockets, messages, users, buffers, userinfos>>
  BY DEF Connect, table, heap
<1>2. ~InTable(c) /\ \A i \in DOMAIN backlog : backlog[i] # c
  BY <1>1 DEF TableInv, Fresh
<1>3. \A i \in DOMAIN backlog' :
        \/ i \in DOMAIN backlog /\ backlog'[i] = backlog[i]
        \/ i = Len(backlog) + 1 /\ i \notin DOMAIN backlog /\ backlog'[i] = c
  <2>1. backlog \in Seq(Client)
    BY DEF TypeOK
  <2>2. QED
    BY <1>1, <2>1
<1>4. \A d : InTable(d)' <=> InTable(d)
  BY <1>1 DEF InTable
<1>5. \A d \in Client : peer'[d] = "idle" => peer[d] = "idle" /\ d # c
  BY <1>1 DEF TypeOK
<1>6. Fresh'
  <2>1. ASSUME NEW i \in DOMAIN backlog'
        PROVE  ~InTable(backlog'[i])
    BY <1>2, <1>3 DEF TableInv, Fresh
  <2>2. ASSUME NEW i \in DOMAIN backlog', NEW j \in DOMAIN backlog', backlog'[i] = backlog'[j]
        PROVE  i = j
    BY <1>2, <1>3, <2>2 DEF TableInv, Fresh
  <2>3. ASSUME NEW d \in Client, peer'[d] = "idle"
        PROVE  ~InTable(d) /\ \A i \in DOMAIN backlog' : backlog'[i] # d
    BY <1>3, <1>5, <2>3 DEF TableInv, Fresh
  <2>4. QED
    BY <1>1, <2>1, <2>2, <2>3 DEF Fresh, InTable
<1>7. SlotsCoherent' /\ OneSlotEach'
  BY <1>1 DEF TableInv, SlotsCoherent, OneSlotEach, OpenSlots, IsOpen
<1>8. QED
  BY <1>6, <1>7 DEF TableInv

\* Every step keeps the table sound.
LEMMA TableStep ==
  ASSUME TypeOK, TableInv, StackInv, AcceptReady, TypeOK', [Next]_vars
  PROVE  TableInv'
<1> USE DEF table, heap, scanning, network, news
<1>1. stack # <<>> => Top.n \in Slot /\ Top.lost \in Seq(Slot)
  BY StackType DEF TypeOK
<1>2. CASE EstablishConnection
  BY <1>2, EstablishTable
<1>3. CASE ReceiveEnd
  BY <1>3, GiveUpTable DEF ReceiveEnd
<1>4. CASE Join
  BY <1>4, JoinTable
<1>5. CASE HandleServerExit
  BY <1>5, ExitTable
<1>6. CASE SortUsers
  BY <1>6, SortTable
<1>7. CASE ShareLose
  <2>1. Top.ctr \in Slot /\ CloseSlot(Top.ctr)
    BY <1>7 DEF ShareLose, AtReceiver, AtOther, Sharing
  <2>2. QED
    BY <1>7, <2>1, LoseTable DEF ShareLose
<1>8. CASE DropNext
  <2>1. Top.n \in Slot /\ Head(Top.lost) \in Slot
    BY <1>1, <1>8 DEF DropNext, In
  <2>2. QED
    BY <1>8, <2>1, DropTable DEF DropNext
<1>9. CASE CleanupUser
  BY <1>9, CleanupTable
<1>10. CASE ReplyLose
  <2>1. Top.n \in Slot
    BY <1>1, <1>10 DEF ReplyLose, In
  <2>2. QED
    BY <1>10, <2>1, GiveUpTable DEF ReplyLose
<1>11. CASE ShareDeliver \/ ReplyDeliver
  <2>1. NoneIdle
    <3>1. CASE ShareDeliver
      <4>1. sockets[Top.ctr] \in Client
        BY <3>1 DEF ShareDeliver, AtReceiver, AtOther, Sharing, IsOpen, TypeOK
      <4>2. QED
        BY <3>1, <4>1, WriteNotIdle DEF ShareDeliver
    <3>2. CASE ReplyDeliver
      <4>1. sockets[Top.n] \in Client
        BY <1>1, <3>2 DEF ReplyDeliver, In, IsOpen, TypeOK
      <4>2. QED
        BY <3>2, <4>1, WriteNotIdle DEF ReplyDeliver
    <3>3. QED
      BY <1>11, <3>1, <3>2
  <2>2. QED
    BY <1>11, <2>1, TableKept DEF ShareDeliver, ReplyDeliver
<1>12. ASSUME NEW c \in Client, Connect(c)
       PROVE  TableInv'
  BY <1>12, ConnectTable
<1>13. ASSUME NEW c \in Client, Hangup(c)
       PROVE  TableInv'
  <2>1. NoneIdle
    BY <1>13 DEF Hangup, NoneIdle, TypeOK
  <2>2. QED
    BY <1>13, <2>1, TableKept DEF Hangup
<1>14. ASSUME UNCHANGED <<sockets, messages, users, buffers, userinfos, backlog, peer>>
       PROVE  TableInv'
  BY <1>14, TableKept DEF NoneIdle
<1>15. CASE UNCHANGED vars
  BY <1>14, <1>15 DEF vars
<1>16. CASE Select \/ ScanListener \/ SkipSlot \/ ReceiveLines \/ ScanDone \/ ScanOverrun
  BY <1>14, <1>16 DEF Select, ScanListener, SkipSlot, ReceiveLines, ScanDone, ScanOverrun, End
<1>17. CASE \/ BufferGone \/ ClientDone \/ ShareUserMessage \/ LookupNullUser
            \/ AnswerSender \/ MuteListFull \/ NotifyAll
  BY <1>14, <1>17 DEF BufferGone, ClientDone, ShareUserMessage, LookupNullUser, AnswerSender,
                      MuteListFull, NotifyAll, End
<1>18. CASE SortNullUser \/ OutputUserStatus \/ ListFreedUser \/ ListDone
  BY <1>14, <1>18 DEF SortNullUser, OutputUserStatus, ListFreedUser, ListDone, End
<1>19. CASE ShareSkipEmpty \/ ShareSkip \/ ShareNullUser \/ ShareStall \/ SharePipe \/ ShareDone \/ DropDone
  BY <1>14, <1>19 DEF ShareSkipEmpty, ShareSkip, ShareNullUser, ShareStall, SharePipe, ShareDone,
                      DropDone, End
<1>20. CASE ReplyClosed \/ ReplyPipe
  BY <1>14, <1>20 DEF ReplyClosed, ReplyPipe, End
<1>21. ASSUME NEW c \in Client, NEW kind \in Kind, Send(c, kind)
       PROVE  TableInv'
  BY <1>14, <1>21 DEF Send
<1>22. QED
  BY <1>2, <1>3, <1>4, <1>5, <1>6, <1>7, <1>8, <1>9, <1>10, <1>11, <1>12, <1>13, <1>15, <1>16,
     <1>17, <1>18, <1>19, <1>20, <1>21
     DEF Next, Server, Clients, Scan, HandleClient, ShowAllStatuses, ShareMessage, Reply

LEMMA SlotsInit ==
  ASSUME Init
  PROVE  TableInv /\ StackInv
BY ClientAssumption DEF Init, TableInv, SlotsCoherent, OneSlotEach, Fresh, InTable, OpenSlots,
                        IsOpen, StackInv

LEMMA SlotsStep ==
  ASSUME TypeInv, TableInv, StackInv, [Next]_vars
  PROVE  TypeInv' /\ TableInv' /\ StackInv'
<1>1. TypeInv' /\ TypeOK' /\ TypeOK /\ AcceptReady
  BY TypeStep DEF TypeInv
<1>2. QED
  BY <1>1, StackStep, TableStep

\* In every reachable state, in the middle of a broadcast or between two: no
\* connection is in two slots, and an open slot's buffer and user are its own
\* connection's and have not been freed.
THEOREM SlotsAreCoherent == Spec => []SlotsCoherent
<1> DEFINE Inv == TypeInv /\ TableInv /\ StackInv
<1>1. Init => Inv
  BY TypeInit, SlotsInit
<1>2. Inv /\ [Next]_vars => Inv'
  BY SlotsStep
<1>3. Inv => SlotsCoherent
  BY DEF TableInv
<1> HIDE DEF Inv
<1>4. QED
  BY <1>1, <1>2, <1>3, PTL DEF Spec

-----------------------------------------------------------------------------
(***************************************************************************)
(* Part 3: the count of the sockets                                        *)
(***************************************************************************)

-----------------------------------------------------------------------------
(* The innermost call has not begun to count *)

FreshTop(st) ==
  st # <<>> /\ Head(st).op = "share" =>
    Head(st).ctr = 1 /\ Head(st).count = 1 /\ Head(st).lost = <<>>

LEMMA FreshCalls ==
  ASSUME NEW s \in Slot, NEW f \in Frame,
         f \in {Call("share", s), ShareCall(s, TRUE), ShareCall(s, FALSE)}
  PROVE  f.ctr = 1 /\ f.count = 1 /\ f.lost = <<>>
BY DEF ShareCall, Call

\* What is below the innermost call is not a share_message.
LEMMA FreshReturn ==
  ASSUME TypeOK, StackInv, stack # <<>>
  PROVE  FreshTop(Tail(stack))
<1>1. stack \in Seq(Frame)
  BY DEF TypeOK
<1>2. CASE Tail(stack) = <<>>
  BY <1>2 DEF FreshTop
<1>3. CASE Tail(stack) # <<>>
  <2>1. 2 \in DOMAIN stack /\ Head(Tail(stack)) = stack[2]
    BY <1>1, <1>3
  <2>2. QED
    BY <2>1 DEF StackInv, FreshTop
<1>4. QED
  BY <1>2, <1>3

LEMMA FreshFarewell ==
  ASSUME NEW s \in Slot, NEW st \in Seq(Frame), FreshTop(st)
  PROVE  FreshTop(Farewell(s) \o st)
<1>1. CASE users[s] = None
  <2>1. Farewell(s) \o st = st
    BY <1>1 DEF Farewell
  <2>2. QED
    BY <2>1
<1>2. CASE users[s] # None
  <2>1. Call("share", s) \in Frame /\ Call("cleanup", s) \in Frame
    BY CallType
  <2>2. Farewell(s) = <<Call("share", s), Call("cleanup", s)>>
    BY <1>2 DEF Farewell
  <2>3. Head(Farewell(s) \o st) = Call("share", s)
    BY <2>1, <2>2
  <2>4. QED
    BY <2>1, <2>3, FreshCalls DEF FreshTop
<1>3. QED
  BY <1>1, <1>2

LEMMA PushPair ==
  ASSUME NEW f \in Frame, NEW g \in Frame, NEW st \in Seq(Frame)
  PROVE  <<g>> \o st \in Seq(Frame) /\ <<f, g>> \o st = <<f>> \o (<<g>> \o st)
<1>1. <<f>> \in Seq(Frame) /\ <<g>> \in Seq(Frame) /\ <<f>> \o <<g>> = <<f, g>>
  BY ConcatOnes
<1>2. <<g>> \o st \in Seq(Frame)
  BY <1>1
<1>3. (<<f>> \o <<g>>) \o st = <<f>> \o (<<g>> \o st)
  BY <1>1, ConcatAssociative
<1>4. QED
  BY <1>1, <1>2, <1>3

LEMMA FreshPush ==
  ASSUME NEW f \in Frame, NEW st \in Seq(Frame),
         f.op = "share" => f.ctr = 1 /\ f.count = 1 /\ f.lost = <<>>
  PROVE  FreshTop(<<f>> \o st) /\ <<f>> \o st \in Seq(Frame)
<1>1. Head(<<f>> \o st) = f /\ <<f>> \o st \in Seq(Frame)
  OBVIOUS
<1>2. QED
  BY <1>1 DEF FreshTop

-----------------------------------------------------------------------------
(* Counting *)

LEMMA OpenFinite ==
  ASSUME TypeOK
  PROVE  /\ IsFiniteSet(OpenSlots) /\ Cardinality(OpenSlots) \in Nat
         /\ IsFiniteSet(Ahead) /\ Cardinality(Ahead) \in Nat
<1>1. OpenSlots \subseteq Slot /\ Ahead \subseteq Slot
  BY DEF OpenSlots, Ahead
<1>2. QED
  BY <1>1, SlotFinite, FS_Subset, FS_CardinalityType

LEMMA OpenFiniteNext ==
  ASSUME TypeOK'
  PROVE  IsFiniteSet(OpenSlots') /\ Cardinality(OpenSlots') \in Nat
<1>1. OpenSlots' \subseteq Slot
  BY DEF OpenSlots
<1>2. QED
  BY <1>1, SlotFinite, FS_Subset, FS_CardinalityType

\* Nothing that counts has changed.
LEMMA CountKept ==
  ASSUME CountInv, UNCHANGED <<sockets, socket_total, stack>>,
         pc = "exited" => pc' = "exited",
         pc' = "scan" => pc = "scan" \/ stack = <<>>
  PROVE  CountInv'
BY DEF CountInv, TotalCountsSockets, ShareCount, Unsubtracted, OpenSlots, IsOpen, Ahead, Top, In, Running

\* The step leaves the counter right for the open slots there are, and at most
\* begins to share: the loop has all the open slots ahead of it.
LEMMA CountFresh ==
  ASSUME TypeOK', FreshTop(stack'),
         socket_total' = 1 + Cardinality(OpenSlots')
  PROVE  CountInv'
<1>1. stack' # <<>> /\ Top'.op = "share" => Top'.ctr = 1 /\ Top'.count = 1 /\ Top'.lost = <<>>
  BY DEF Top, FreshTop
<1>2. Unsubtracted' = 0
  BY <1>1 DEF Unsubtracted, Top
<1>3. IsFiniteSet(OpenSlots') /\ Cardinality(OpenSlots') \in Nat
  BY OpenFiniteNext
<1>4. TotalCountsSockets'
  BY <1>2, <1>3 DEF TotalCountsSockets
<1>5. ASSUME In("share")'
      PROVE  Top'.ctr \in 1..(MaxClients + 1) /\ socket_total' = Top'.count + Cardinality(Ahead')
  <2>1. Top'.ctr = 1 /\ Top'.count = 1
    BY <1>1, <1>5 DEF In, Top
  <2>2. Ahead' = OpenSlots'
    BY <2>1 DEF Ahead, OpenSlots, Slot
  <2>3. QED
    BY <2>1, <2>2, BoundsAssumption
<1>6. QED
  BY <1>4, <1>5 DEF CountInv, ShareCount

\* Outside share_message's loop the counter is exact.
LEMMA CountExact ==
  ASSUME TypeOK, CountInv, pc # "exited", stack = <<>> \/ Top.op # "share"
  PROVE  socket_total = 1 + Cardinality(OpenSlots)
BY OpenFinite DEF CountInv, TotalCountsSockets, Unsubtracted

\* A slot has been closed and the counter reduced: the read or the reply of a
\* slot failed.
LEMMA GiveUpCount ==
  ASSUME TypeOK, TypeOK', CountInv, pc # "exited", stack = <<>> \/ Top.op # "share",
         NEW s \in Slot, IsOpen(s), CloseSlot(s), socket_total' = socket_total - 1,
         FreshTop(stack')
  PROVE  CountInv'
<1>1. OpenSlots' = OpenSlots \ {s} /\ s \in OpenSlots
  BY ClosingWhenClosed DEF OpenSlots
<1>2. Cardinality(OpenSlots') = Cardinality(OpenSlots) - 1
  BY <1>1, OpenFinite, FS_RemoveElement
<1>3. socket_total' = 1 + Cardinality(OpenSlots')
  BY <1>2, CountExact, OpenFinite
<1>4. QED
  BY <1>3, CountFresh

LEMMA EstablishCount ==
  ASSUME TypeOK, TypeOK', CountInv, AcceptReady, EstablishConnection
  PROVE  CountInv'
<1>1. PICK s \in Slot : FirstFree(s) /\ FillSlot(s, Head(backlog))
  BY DEF EstablishConnection
<1>2. stack = <<>> /\ stack' = <<>> /\ pc # "exited" /\ socket_total' = socket_total + 1
  BY DEF EstablishConnection, AtSlot, Running
<1>3. Head(backlog) \in Client
  BY DEF EstablishConnection, AtSlot, Running, AcceptReady, TypeOK
<1>4. s \notin OpenSlots /\ OpenSlots' = OpenSlots \cup {s}
  BY <1>1, <1>3, ClientAssumption DEF FirstFree, FillSlot, OpenSlots, IsOpen, TypeOK
<1>5. Cardinality(OpenSlots') = Cardinality(OpenSlots) + 1
  BY <1>4, OpenFinite, FS_AddElement
<1>6. socket_total' = 1 + Cardinality(OpenSlots')
  BY <1>2, <1>5, CountExact, OpenFinite
<1>7. FreshTop(stack')
  BY <1>2 DEF FreshTop
<1>8. QED
  BY <1>6, <1>7, CountFresh

LEMMA SortCount ==
  ASSUME TypeOK, TypeOK', CountInv, SortUsers
  PROVE  CountInv'
<1>1. PICK q \in Arrangements, s \in Slot : MoveSlots(q) /\ stack' = <<Call("list", s)>> \o stack
  BY DEF SortUsers
<1>2. q \in Bijection(Slot, Slot)
  BY <1>1, ArrangementsBijective
<1>3. \A t \in Slot : t \in OpenSlots' <=> q[t] \in OpenSlots
  BY <1>1, <1>2 DEF MoveSlots, OpenSlots, IsOpen, Bijection, Injection
<1> DEFINE g == [t \in OpenSlots' |-> q[t]]
<1>4. g \in Bijection(OpenSlots', OpenSlots)
  <2>1. OpenSlots \subseteq Slot /\ OpenSlots' \subseteq Slot
    BY DEF OpenSlots
  <2>2. q \in [Slot -> Slot] /\ \A t, u \in Slot : q[t] = q[u] => t = u
    BY <1>2 DEF Bijection, Injection, IsInjective
  <2>3. \A u \in Slot : \E t \in Slot : q[t] = u
    BY <1>2 DEF Bijection, Surjection
  <2>4. g \in Injection(OpenSlots', OpenSlots)
    BY <1>3, <2>1, <2>2 DEF Injection, IsInjective
  <2>5. g \in Surjection(OpenSlots', OpenSlots)
    BY <1>3, <2>1, <2>2, <2>3 DEF Surjection
  <2>6. QED
    BY <2>4, <2>5 DEF Bijection
<1>5. Cardinality(OpenSlots') = Cardinality(OpenSlots)
  BY <1>4, OpenFiniteNext, FS_Bijection DEF ExistsBijection
<1>6. pc # "exited" /\ stack # <<>> /\ Top.op # "share" /\ socket_total' = socket_total
  BY DEF SortUsers, Command, In, Running, Top
<1>7. FreshTop(stack')
  <2>1. Call("list", s) \in Frame /\ Call("list", s).op = "list" /\ stack \in Seq(Frame)
    BY CallType, CallInv DEF TypeOK
  <2>2. Head(stack').op # "share"
    BY <1>1, <2>1
  <2>3. QED
    BY <2>2 DEF FreshTop
<1>8. QED
  BY <1>5, <1>6, <1>7, CountExact, CountFresh

-----------------------------------------------------------------------------
(* The loop of share_message *)

LEMMA ShareCounts ==
  ASSUME TypeOK, CountInv, In("share")
  PROVE  /\ socket_total = 1 + Cardinality(OpenSlots) + Len(Top.lost)
         /\ Top.ctr \in 1..(MaxClients + 1)
         /\ socket_total = Top.count + Cardinality(Ahead)
         /\ Top \in Frame /\ stack \in Seq(Frame) /\ stack # <<>> /\ pc = "scan"
<1>1. stack \in Seq(Frame) /\ stack # <<>> /\ pc = "scan" /\ Top.op = "share"
  BY DEF In, Running, Top, TypeOK
<1>2. QED
  BY <1>1, StackType DEF CountInv, TotalCountsSockets, ShareCount, Unsubtracted

\* The loop replaces its frame by f.
LEMMA ShareContinues ==
  ASSUME TypeOK, TypeOK', NEW f \in Frame, stack # <<>>, Continue(f), f.op = "share",
         socket_total' = 1 + Cardinality(OpenSlots') + Len(f.lost),
         f.ctr \in 1..(MaxClients + 1),
         socket_total' = f.count + Cardinality({s \in OpenSlots' : s >= f.ctr})
  PROVE  CountInv'
<1>1. stack' # <<>> /\ Top' = f
  <2>1. Tail(stack) \in Seq(Frame)
    BY StackType DEF TypeOK
  <2>2. QED
    BY <2>1 DEF Continue, Top
<1>2. TotalCountsSockets'
  BY <1>1 DEF TotalCountsSockets, Unsubtracted
<1>3. Ahead' = {s \in OpenSlots' : s >= f.ctr}
  BY <1>1 DEF Ahead
<1>4. ShareCount'
  BY <1>1, <1>3 DEF ShareCount
<1>5. QED
  BY <1>2, <1>4 DEF CountInv

\* An empty slot is passed without being counted.
LEMMA SkipEmptyCount ==
  ASSUME TypeOK, TypeOK', CountInv, ShareSkipEmpty
  PROVE  CountInv'
<1> DEFINE f == [Top EXCEPT !.ctr = @ + 1]
<1>1. In("share") /\ Top.ctr \in Slot /\ ~IsOpen(Top.ctr) /\ Continue(f)
  BY DEF ShareSkipEmpty, Sharing
<1>2. socket_total' = socket_total /\ OpenSlots' = OpenSlots
  BY ClosingWhenKept DEF ShareSkipEmpty, table
<1>3. f \in Frame /\ f.op = "share" /\ f.ctr = Top.ctr + 1 /\ f.count = Top.count /\ f.lost = Top.lost
  BY <1>1, ShareCounts, TopUpdates DEF Frame, In, Top
<1> HIDE DEF f
<1>4. Top.ctr \notin OpenSlots /\ OpenSlots \subseteq Slot
  BY <1>1 DEF OpenSlots
<1>5. {s \in OpenSlots : s >= f.ctr} = Ahead
  <2>1. \A s \in OpenSlots : s >= f.ctr <=> s >= Top.ctr
    BY <1>1, <1>3, <1>4 DEF Slot
  <2>2. QED
    BY <2>1 DEF Ahead
<1>6. f.ctr \in 1..(MaxClients + 1)
  BY <1>1, <1>3, BoundsAssumption DEF Slot
<1>7. QED
  BY <1>1, <1>2, <1>3, <1>5, <1>6, ShareCounts, ShareContinues

\* A full receive window keeps the loop where it is.
LEMMA StallCount ==
  ASSUME TypeOK, TypeOK', CountInv, ShareStall
  PROVE  CountInv'
<1> DEFINE f == [Top EXCEPT !.early = TRUE]
<1>1. In("share") /\ Continue(f)
  BY DEF ShareStall, AtReceiver, AtOther, Sharing
<1>2. socket_total' = socket_total /\ OpenSlots' = OpenSlots
  BY ClosingWhenKept DEF ShareStall, table
<1>3. f \in Frame /\ f.op = "share" /\ f.ctr = Top.ctr /\ f.count = Top.count /\ f.lost = Top.lost
  BY <1>1, ShareCounts, TopUpdates DEF Frame, In, Top
<1> HIDE DEF f
<1>4. {s \in OpenSlots : s >= f.ctr} = Ahead
  BY <1>3 DEF Ahead
<1>5. QED
  BY <1>1, <1>2, <1>3, <1>4, ShareCounts, ShareContinues

\* The open slot the loop is at leaves those ahead and is counted.
LEMMA AheadShrinks ==
  ASSUME TypeOK, CountInv, In("share"), Top.ctr \in Slot, IsOpen(Top.ctr)
  PROVE  /\ {s \in OpenSlots : s >= Top.ctr + 1} = Ahead \ {Top.ctr}
         /\ Cardinality(Ahead \ {Top.ctr}) = Cardinality(Ahead) - 1
         /\ Cardinality(Ahead) \in Nat
         /\ Top.ctr + 1 \in 1..(MaxClients + 1)
<1>1. OpenSlots \subseteq Slot /\ Top.ctr \in OpenSlots
  BY DEF OpenSlots
<1>2. {s \in OpenSlots : s >= Top.ctr + 1} = Ahead \ {Top.ctr}
  <2>1. \A s \in OpenSlots : s >= Top.ctr + 1 <=> s >= Top.ctr /\ s # Top.ctr
    BY <1>1 DEF Slot
  <2>2. QED
    BY <2>1 DEF Ahead
<1>3. Top.ctr \in Ahead
  BY <1>1 DEF Ahead, Slot
<1>4. Cardinality(Ahead \ {Top.ctr}) = Cardinality(Ahead) - 1
  BY <1>3, OpenFinite, FS_RemoveElement
<1>5. QED
  BY <1>2, <1>4, OpenFinite, BoundsAssumption DEF Slot

LEMMA PassCount ==
  ASSUME TypeOK, TypeOK', CountInv, ShareSkip \/ ShareDeliver
  PROVE  CountInv'
<1>1. In("share") /\ Top.ctr \in Slot /\ IsOpen(Top.ctr) /\ Continue(NextReceiver)
  BY DEF ShareSkip, ShareDeliver, AtReceiver, AtOther, Sharing
<1>2. socket_total' = socket_total /\ OpenSlots' = OpenSlots
  BY ClosingWhenKept DEF ShareSkip, ShareDeliver, table
<1>3. /\ NextReceiver \in Frame /\ NextReceiver.op = "share" /\ NextReceiver.ctr = Top.ctr + 1
      /\ NextReceiver.count = Top.count + 1 /\ NextReceiver.lost = Top.lost
  BY <1>1, ShareCounts, TopUpdates DEF NextReceiver, Frame, In, Top
<1>4. {s \in OpenSlots' : s >= NextReceiver.ctr} = Ahead \ {Top.ctr}
  BY <1>1, <1>2, <1>3, AheadShrinks
<1>5. socket_total' = NextReceiver.count + Cardinality({s \in OpenSlots' : s >= NextReceiver.ctr})
  <2>1. socket_total = Top.count + Cardinality(Ahead) /\ Top.count \in Nat
    BY <1>1, ShareCounts DEF Frame
  <2>2. QED
    BY <1>1, <1>2, <1>3, <1>4, <2>1, AheadShrinks
<1>6. QED
  BY <1>1, <1>2, <1>3, <1>5, AheadShrinks, ShareCounts, ShareContinues

\* The slot closed leaves the open slots, and lost grows by it.
LEMMA LoseCount ==
  ASSUME TypeOK, TypeOK', CountInv, ShareLose
  PROVE  CountInv'
<1> DEFINE f == [NextReceiver EXCEPT !.lost = Append(@, Top.ctr)]
<1>1. In("share") /\ Top.ctr \in Slot /\ IsOpen(Top.ctr) /\ CloseSlot(Top.ctr) /\ Continue(f)
  BY DEF ShareLose, AtReceiver, AtOther, Sharing
<1>2. socket_total' = socket_total
  BY DEF ShareLose
<1>3. OpenSlots' = OpenSlots \ {Top.ctr} /\ Top.ctr \in OpenSlots
  BY <1>1, ClosingWhenClosed DEF OpenSlots
<1>4. Cardinality(OpenSlots') = Cardinality(OpenSlots) - 1 /\ Cardinality(OpenSlots) \in Nat
  BY <1>3, OpenFinite, FS_RemoveElement
<1>5. /\ f \in Frame /\ f.op = "share" /\ f.ctr = Top.ctr + 1
      /\ f.count = Top.count + 1 /\ f.lost = Append(Top.lost, Top.ctr)
  <2>1. NextReceiver.lost = Top.lost
    BY <1>1, ShareCounts DEF NextReceiver, Frame
  <2>2. /\ NextReceiver \in Frame /\ NextReceiver.op = "share" /\ NextReceiver.ctr = Top.ctr + 1
        /\ NextReceiver.count = Top.count + 1
    BY <1>1, ShareCounts, TopUpdates DEF NextReceiver, Frame, In, Top
  <2>3. f \in Frame
    BY <1>1, ShareCounts, TopUpdates
  <2>4. QED
    BY <2>1, <2>2, <2>3 DEF Frame
<1>6. Len(Append(Top.lost, Top.ctr)) = Len(Top.lost) + 1 /\ Len(Top.lost) \in Nat
  BY <1>1, ShareCounts DEF Frame
<1> HIDE DEF f
<1>7. {s \in OpenSlots' : s >= f.ctr} = Ahead \ {Top.ctr}
  BY <1>1, <1>3, <1>5, AheadShrinks
<1>8. socket_total' = 1 + Cardinality(OpenSlots') + Len(f.lost)
  BY <1>1, <1>2, <1>4, <1>5, <1>6, ShareCounts
<1>9. socket_total' = f.count + Cardinality({s \in OpenSlots' : s >= f.ctr})
  <2>1. socket_total = Top.count + Cardinality(Ahead) /\ Top.count \in Nat
    BY <1>1, ShareCounts DEF Frame
  <2>2. Cardinality(Ahead \ {Top.ctr}) = Cardinality(Ahead) - 1 /\ Cardinality(Ahead) \in Nat
    BY <1>1, AheadShrinks
  <2>3. Cardinality({s \in OpenSlots' : s >= f.ctr}) = Cardinality(Ahead \ {Top.ctr})
    BY <1>7
  <2>4. f.count = Top.count + 1
    BY <1>5
  <2>5. QED
    BY <1>2, <2>1, <2>2, <2>3, <2>4
<1>10. f.ctr \in 1..(MaxClients + 1)
  BY <1>1, <1>5, AheadShrinks
<1>11. QED
  BY <1>1, <1>5, <1>8, <1>9, <1>10, ShareCounts, ShareContinues

\* The loop is over: what it lost is subtracted.
LEMMA DoneCount ==
  ASSUME TypeOK, TypeOK', CountInv, ShareDone
  PROVE  CountInv'
<1>1. /\ In("share") /\ Continue([Top EXCEPT !.op = "drop"])
      /\ socket_total' = socket_total - Len(Top.lost)
  BY DEF ShareDone
<1>2. OpenSlots' = OpenSlots
  BY ClosingWhenKept DEF ShareDone
<1>3. [Top EXCEPT !.op = "drop"] \in Frame /\ [Top EXCEPT !.op = "drop"].op = "drop"
  BY <1>1, ShareCounts, TopUpdates DEF Frame
<1>4. Tail(stack) \in Seq(Frame)
  BY <1>1, ShareCounts, StackType
<1>5. FreshTop(stack')
  BY <1>1, <1>3, <1>4, FreshPush DEF Continue
<1>6. socket_total' = 1 + Cardinality(OpenSlots')
  <2>1. Len(Top.lost) \in Nat
    BY <1>1, ShareCounts DEF Frame
  <2>2. QED
    BY <1>1, <1>2, <2>1, ShareCounts, OpenFinite
<1>7. QED
  BY <1>5, <1>6, CountFresh

\* The next closed slot is dropped; its farewell begins.
LEMMA DropCount ==
  ASSUME TypeOK, TypeOK', StackInv, CountInv, DropNext
  PROVE  CountInv'
<1>1. stack \in Seq(Frame) /\ stack # <<>> /\ Top.op = "drop" /\ Top.lost # <<>> /\ pc # "exited"
  BY DEF DropNext, In, Running, Top, TypeOK
<1>2. Top \in Frame /\ Head(Top.lost) \in Slot /\ [Top EXCEPT !.lost = Tail(@)] \in Frame /\ Tail(stack) \in Seq(Frame)
  BY <1>1, StackType, TopUpdates
<1>3. [Top EXCEPT !.lost = Tail(@)].op = "drop"
  BY <1>1, <1>2 DEF Frame
<1> DEFINE st == <<[Top EXCEPT !.lost = Tail(@)]>> \o Tail(stack)
<1>4. st \in Seq(Frame) /\ FreshTop(st)
  BY <1>2, <1>3, FreshPush
<1>5. stack' = Farewell(Head(Top.lost)) \o st
  <2>1. stack' = Farewell(Head(Top.lost)) \o <<[Top EXCEPT !.lost = Tail(@)]>> \o Tail(stack)
    BY DEF DropNext
  <2>2. Farewell(Head(Top.lost)) \in Seq(Frame)
    BY <1>2, FarewellType
  <2>3. QED
    BY <1>2, <2>1, <2>2, ConcatAssociative
<1> HIDE DEF st
<1>6. FreshTop(stack')
  BY <1>2, <1>4, <1>5, FreshFarewell
<1>7. socket_total' = socket_total /\ OpenSlots' = OpenSlots
  BY ClosingWhenKept DEF DropNext
<1>8. QED
  BY <1>1, <1>6, <1>7, CountExact, CountFresh

-----------------------------------------------------------------------------
(* Every step *)

\* A call is made or returns, and the table does not change.
LEMMA CallCount ==
  ASSUME TypeOK, TypeOK', CountInv, pc # "exited", stack # <<>>, Top.op # "share",
         UNCHANGED <<sockets, socket_total>>, FreshTop(stack')
  PROVE  CountInv'
BY CountExact, CountFresh, ClosingWhenKept

\* The calls handle_client and the listing make.
LEMMA PushedFresh ==
  ASSUME TypeOK, TypeOK', stack # <<>>,
         \/ Join \/ ShareUserMessage \/ AnswerSender \/ NotifyAll \/ OutputUserStatus
  PROVE  FreshTop(stack')
<1>1. Top.n \in Slot /\ stack \in Seq(Frame) /\ stack' \in Seq(Frame)
  BY StackType DEF TypeOK
<1>2. \E f \in Frame, st \in Seq(Frame) :
        /\ stack' = <<f>> \o st
        /\ f \in {Call("reply", Top.n), ShareCall(Top.n, TRUE), ShareCall(Top.n, FALSE)}
  <2>1. CASE Join \/ ShareUserMessage \/ AnswerSender
    BY <1>1, <2>1, CallType, ShareCallType DEF Join, ShareUserMessage, AnswerSender
  <2>2. CASE NotifyAll
    <3>1. stack' = <<ShareCall(Top.n, FALSE), Call("reply", Top.n)>> \o stack
      BY <2>2 DEF NotifyAll
    <3>2. ShareCall(Top.n, FALSE) \in Frame /\ Call("reply", Top.n) \in Frame
      BY <1>1, CallType, ShareCallType
    <3>3. /\ <<Call("reply", Top.n)>> \o stack \in Seq(Frame)
          /\ stack' = <<ShareCall(Top.n, FALSE)>> \o (<<Call("reply", Top.n)>> \o stack)
      BY <1>1, <3>1, <3>2, PushPair
    <3>4. QED
      BY <3>2, <3>3
  <2>3. CASE OutputUserStatus
    <3>1. stack' = <<Call("reply", Top.n), [Top EXCEPT !.ctr = @ + 1]>> \o Tail(stack)
      BY <2>3 DEF OutputUserStatus
    <3>2. /\ [Top EXCEPT !.ctr = @ + 1] \in Frame /\ Tail(stack) \in Seq(Frame)
          /\ Call("reply", Top.n) \in Frame
      BY <1>1, TopUpdates, StackType, CallType
    <3>3. /\ <<[Top EXCEPT !.ctr = @ + 1]>> \o Tail(stack) \in Seq(Frame)
          /\ stack' = <<Call("reply", Top.n)>> \o (<<[Top EXCEPT !.ctr = @ + 1]>> \o Tail(stack))
      BY <3>1, <3>2, PushPair
    <3>4. QED
      BY <3>2, <3>3
  <2>4. QED
    BY <2>1, <2>2, <2>3
<1>3. PICK f \in Frame, st \in Seq(Frame) :
        /\ stack' = <<f>> \o st
        /\ f \in {Call("reply", Top.n), ShareCall(Top.n, TRUE), ShareCall(Top.n, FALSE)}
  BY <1>2
<1>4. f.op = "share" => f.ctr = 1 /\ f.count = 1 /\ f.lost = <<>>
  <2>1. Call("reply", Top.n).op = "reply"
    BY <1>1, CallInv
  <2>2. QED
    BY <1>1, <1>3, <2>1, FreshCalls
<1>5. QED
  BY <1>3, <1>4, FreshPush

LEMMA CountStep ==
  ASSUME TypeInv, TypeInv', TableInv, StackInv, CountInv, [Next]_vars
  PROVE  CountInv'
<1> USE DEF table, heap, scanning, network, news
<1>1. TypeOK /\ TypeOK' /\ AcceptReady
  BY DEF TypeInv
<1>2. stack # <<>> => Top.n \in Slot /\ Tail(stack) \in Seq(Frame) /\ FreshTop(Tail(stack))
  BY <1>1, StackType, FreshReturn DEF TypeOK
<1>3. CASE EstablishConnection
  BY <1>1, <1>3, EstablishCount
<1>4. CASE ReceiveEnd
  <2>1. <<>> \in Seq(Frame) /\ FreshTop(<<>>) /\ n \in Slot
    BY <1>4 DEF FreshTop, ReceiveEnd
  <2>2. FreshTop(stack')
    <3>1. Farewell(n) \in Seq(Frame) /\ stack' = Farewell(n)
      BY <1>4, <2>1, FarewellType DEF ReceiveEnd
    <3>2. Farewell(n) = Farewell(n) \o <<>>
      BY <3>1, ConcatEmptySeq
    <3>3. QED
      BY <2>1, <3>1, <3>2, FreshFarewell
  <2>3. QED
    BY <1>1, <1>4, <2>1, <2>2, GiveUpCount DEF ReceiveEnd, AtSlot, Running
<1>5. CASE ReplyLose
  <2>1. stack # <<>> /\ Top.op # "share" /\ pc # "exited"
    BY <1>5 DEF ReplyLose, In, Running, Top
  <2>2. FreshTop(stack')
    BY <1>2, <1>5, <2>1, FreshFarewell DEF ReplyLose
  <2>3. QED
    BY <1>1, <1>2, <1>5, <2>1, <2>2, GiveUpCount DEF ReplyLose
<1>6. CASE SortUsers
  BY <1>1, <1>6, SortCount
<1>7. CASE HandleServerExit
  BY <1>7 DEF HandleServerExit, CountInv, TotalCountsSockets, ShareCount, In, Running
<1>8. CASE ShareSkipEmpty
  BY <1>1, <1>8, SkipEmptyCount
<1>9. CASE ShareSkip \/ ShareDeliver
  BY <1>1, <1>9, PassCount
<1>10. CASE ShareLose
  BY <1>1, <1>10, LoseCount
<1>11. CASE ShareDone
  BY <1>1, <1>11, DoneCount
<1>12. CASE DropNext
  BY <1>1, <1>12, DropCount
<1>13. CASE Join \/ ShareUserMessage \/ AnswerSender \/ NotifyAll \/ OutputUserStatus
  <2>1. stack # <<>> /\ Top.op # "share" /\ pc # "exited"
    BY <1>13 DEF Join, ShareUserMessage, AnswerSender, NotifyAll, OutputUserStatus, Command, In,
                 Running, Top
  <2>2. UNCHANGED <<sockets, socket_total>>
    BY <1>13 DEF Join, ShareUserMessage, AnswerSender, NotifyAll, OutputUserStatus
  <2>3. QED
    BY <1>1, <1>13, <2>1, <2>2, PushedFresh, CallCount
<1>14. CASE ClientDone \/ ListDone \/ DropDone \/ CleanupUser \/ ReplyClosed \/ ReplyDeliver
  <2>1. stack # <<>> /\ Top.op # "share" /\ pc # "exited" /\ Return
    BY <1>14 DEF ClientDone, ListDone, DropDone, CleanupUser, ReplyClosed, ReplyDeliver, In,
                 Running, Top
  <2>2. UNCHANGED <<sockets, socket_total>>
    BY <1>14 DEF ClientDone, ListDone, DropDone, CleanupUser, ReplyClosed, ReplyDeliver
  <2>3. QED
    BY <1>1, <1>2, <2>1, <2>2, CallCount DEF Return
<1>15. CASE Select \/ ScanListener \/ SkipSlot \/ ReceiveLines \/ ScanDone
  <2>1. stack = <<>> /\ pc # "exited" /\ UNCHANGED <<sockets, socket_total>>
    BY <1>15 DEF Select, ScanListener, SkipSlot, ReceiveLines, ScanDone, AtSlot, Running, StackInv
  <2>2. FreshTop(stack')
    <3>1. CASE ReceiveLines
      <4>1. stack' = <<Call("client", n)>> /\ Call("client", n).op = "client"
        BY <3>1 DEF ReceiveLines, Call
      <4>2. QED
        BY <4>1 DEF FreshTop
    <3>2. CASE stack' = <<>>
      BY <3>2 DEF FreshTop
    <3>3. QED
      BY <1>15, <2>1, <3>1, <3>2 DEF Select, ScanListener, SkipSlot, ScanDone
  <2>3. QED
    BY <1>1, <2>1, <2>2, CountExact, CountFresh, ClosingWhenKept
<1>16. CASE ShareStall
  BY <1>1, <1>16, StallCount
<1>17. ASSUME NEW how \in Ended, End(how), pc = "scan"
       PROVE  CountInv'
  BY <1>17, CountKept DEF End, Ended
<1>18. CASE \/ ScanOverrun \/ BufferGone \/ LookupNullUser \/ SortNullUser \/ ListFreedUser
            \/ ShareNullUser \/ SharePipe \/ ReplyPipe
  BY <1>17, <1>18 DEF ScanOverrun, BufferGone, LookupNullUser, SortNullUser, ListFreedUser,
     ShareNullUser, SharePipe, ReplyPipe, AtSlot, AtReceiver, AtOther, Sharing, Command, In,
     Running, Ended
<1>19. CASE MuteListFull \/ Clients \/ UNCHANGED vars
  BY <1>19, CountKept DEF MuteListFull, Clients, Connect, Send, Hangup, vars
<1>20. QED
  BY <1>3, <1>4, <1>5, <1>6, <1>7, <1>8, <1>9, <1>10, <1>11, <1>12, <1>13, <1>14, <1>15, <1>16,
     <1>18, <1>19
     DEF Next, Server, Scan, HandleClient, ShowAllStatuses, ShareMessage, Reply

LEMMA CountInit ==
  ASSUME Init
  PROVE  CountInv
<1>1. OpenSlots = {} /\ Cardinality({}) = 0
  BY FS_EmptySet DEF Init, OpenSlots, IsOpen
<1>2. QED
  BY <1>1 DEF Init, CountInv, TotalCountsSockets, ShareCount, Unsubtracted, In, Running

\* The invariant of ChatInvariant holds in every reachable state.
THEOREM InvariantHolds == Spec => []IInv
<1>1. Init => IInv
  BY TypeInit, SlotsInit, CountInit DEF IInv
<1>2. IInv /\ [Next]_vars => IInv'
  BY SlotsStep, CountStep DEF IInv
<1>3. QED
  BY <1>1, <1>2, PTL DEF Spec

\* socket_total is the listener and the open slots, but for the slots that the
\* innermost share_message has closed and not yet subtracted.
THEOREM TotalIsRight == Spec => []TotalCountsSockets
<1>1. IInv => TotalCountsSockets
  BY DEF IInv, CountInv
<1>2. QED
  BY <1>1, InvariantHolds, PTL

\* While share_message has sockets left to count there is a slot left to look
\* at: however many connections it closes on its way, it reads no memory past
\* the table.
THEOREM ShareIsInTable == Spec => []ShareStaysInTable
<1>1. ASSUME IInv
      PROVE  ShareStaysInTable
  <2>1. TypeOK
    BY <1>1 DEF IInv, TypeInv
  <2>2. SUFFICES ASSUME In("share"), Top.count < socket_total
                 PROVE  Top.ctr \in Slot
    BY DEF ShareStaysInTable
  <2>3. /\ Top.ctr \in 1..(MaxClients + 1) /\ socket_total = Top.count + Cardinality(Ahead)
        /\ Top.count \in Nat
    BY <1>1, <2>1, <2>2, ShareCounts DEF IInv, Frame
  <2>4. Cardinality(Ahead) # 0 /\ IsFiniteSet(Ahead)
    BY <2>1, <2>2, <2>3, OpenFinite
  <2>5. PICK s \in Ahead : TRUE
    BY <2>4, FS_EmptySet
  <2>6. s \in Slot /\ s >= Top.ctr
    BY <2>5 DEF Ahead, OpenSlots
  <2>7. QED
    BY <2>3, <2>6, BoundsAssumption DEF Slot
<1>2. QED
  BY <1>1, InvariantHolds, PTL

-----------------------------------------------------------------------------
(***************************************************************************)
(* Part 4: departures                                                      *)
(***************************************************************************)

-----------------------------------------------------------------------------
(* The frames of a stack whose innermost call is replaced by the calls S *)

Replaces(S) == stack # <<>> /\ stack' = S \o Tail(stack)

LEMMA Splice ==
  ASSUME TypeOK, NEW S \in Seq(Frame), Replaces(S)
  PROVE  /\ \A i \in DOMAIN stack' :
              \/ i \in DOMAIN S /\ stack'[i] = S[i]
              \/ \E j \in DOMAIN stack : j # 1 /\ i = j - 1 + Len(S) /\ i > Len(S) /\ stack'[i] = stack[j]
         /\ \A i \in DOMAIN S : i \in DOMAIN stack' /\ stack'[i] = S[i]
         /\ \A j \in DOMAIN stack : j # 1 =>
              j - 1 + Len(S) \in DOMAIN stack' /\ stack'[j - 1 + Len(S)] = stack[j]
         /\ 1 \in DOMAIN stack /\ stack[1] = Top /\ Top \in Frame
<1>1. stack \in Seq(Frame) /\ Tail(stack) \in Seq(Frame) /\ Len(stack) \in Nat \ {0} /\ Len(S) \in Nat
  BY DEF TypeOK, Replaces
<1>2. /\ Len(Tail(stack)) = Len(stack) - 1
      /\ \A k \in DOMAIN Tail(stack) : k + 1 \in DOMAIN stack /\ Tail(stack)[k] = stack[k + 1]
      /\ \A j \in DOMAIN stack : j # 1 => j - 1 \in DOMAIN Tail(stack) /\ Tail(stack)[j - 1] = stack[j]
  BY <1>1
<1>3. /\ Len(stack') = Len(S) + Len(Tail(stack)) /\ DOMAIN stack' = 1..Len(stack')
      /\ \A i \in 1..Len(S) : stack'[i] = S[i]
      /\ \A k \in DOMAIN Tail(stack) : stack'[k + Len(S)] = Tail(stack)[k]
  BY <1>1 DEF Replaces
<1>4. ASSUME NEW i \in DOMAIN stack', i \notin DOMAIN S
      PROVE  \E j \in DOMAIN stack : j # 1 /\ i = j - 1 + Len(S) /\ i > Len(S) /\ stack'[i] = stack[j]
  <2>1. i \in Nat /\ i > Len(S) /\ i - Len(S) \in DOMAIN Tail(stack)
    BY <1>1, <1>2, <1>3, <1>4
  <2>2. i - Len(S) + 1 \in DOMAIN stack /\ stack'[i] = stack[i - Len(S) + 1]
    BY <1>1, <1>2, <1>3, <2>1
  <2>3. i = (i - Len(S) + 1) - 1 + Len(S) /\ i - Len(S) + 1 # 1
    BY <1>1, <2>1
  <2>4. QED
    BY <2>1, <2>2, <2>3
<1>5. \A i \in DOMAIN S : i \in DOMAIN stack' /\ stack'[i] = S[i]
  BY <1>1, <1>2, <1>3
<1>6. ASSUME NEW j \in DOMAIN stack, j # 1
      PROVE  j - 1 + Len(S) \in DOMAIN stack' /\ stack'[j - 1 + Len(S)] = stack[j]
  BY <1>1, <1>2, <1>3, <1>6
<1>7. 1 \in DOMAIN stack /\ stack[1] = Top /\ Top \in Frame
  BY <1>1 DEF Top
<1>8. QED
  BY <1>4, <1>5, <1>6, <1>7

\* Calls made over the innermost one replace it by themselves and it.
LEMMA PushReplaces ==
  ASSUME TypeOK, stack # <<>>, NEW S \in Seq(Frame), stack' = S \o stack
  PROVE  /\ S \o <<Top>> \in Seq(Frame)
         /\ Replaces(S \o <<Top>>)
         /\ \A i \in DOMAIN (S \o <<Top>>) :
              (i \in DOMAIN S /\ (S \o <<Top>>)[i] = S[i]) \/ (i = Len(S) + 1 /\ (S \o <<Top>>)[i] = Top)
         /\ Len(S \o <<Top>>) = Len(S) + 1
<1>1. stack \in Seq(Frame) /\ Top \in Frame /\ <<Top>> \o Tail(stack) = stack
  BY StackType DEF TypeOK, Top
<1>2. <<Top>> \in Seq(Frame) /\ Tail(stack) \in Seq(Frame)
  BY <1>1, StackType
<1>3. (S \o <<Top>>) \o Tail(stack) = S \o (<<Top>> \o Tail(stack))
  BY <1>2, ConcatAssociative
<1>4. QED
  BY <1>1, <1>2, <1>3, SMTT(30) DEF Replaces

LEMMA ReturnReplaces ==
  ASSUME TypeOK, stack # <<>>, Return
  PROVE  <<>> \in Seq(Frame) /\ Replaces(<<>>) /\ DOMAIN <<>> = {} /\ Len(<<>>) = 0
<1>1. Tail(stack) \in Seq(Frame)
  BY StackType DEF TypeOK
<1>2. QED
  BY <1>1 DEF Return, Replaces

LEMMA ContinueReplaces ==
  ASSUME TypeOK, stack # <<>>, NEW f \in Frame, Continue(f)
  PROVE  <<f>> \in Seq(Frame) /\ Replaces(<<f>>) /\ DOMAIN <<f>> = {1} /\ <<f>>[1] = f /\ Len(<<f>>) = 1
<1>1. DOMAIN <<f>> = {1} /\ <<f>> \in Seq(Frame)
  OBVIOUS
<1>2. QED
  BY <1>1 DEF Continue, Replaces

LEMMA FarewellReplaces ==
  ASSUME TypeOK, stack # <<>>, NEW s \in Slot, stack' = Farewell(s) \o Tail(stack)
  PROVE  Farewell(s) \in Seq(Frame) /\ Replaces(Farewell(s))
BY FarewellType DEF Replaces

\* handle_client is alone on the stack when it is innermost.
LEMMA ClientAlone ==
  ASSUME TypeOK, StackInv, In("client")
  PROVE  Tail(stack) = <<>> /\ DOMAIN stack = {1} /\ Top.lost = <<>>
<1>1. stack \in Seq(Frame) /\ stack # <<>> /\ Top = stack[1] /\ 1 \in DOMAIN stack /\ Top.op = "client"
  BY DEF TypeOK, In, Top
<1>2. Len(stack) = 1
  BY <1>1 DEF StackInv
<1>3. Tail(stack) = <<>> /\ DOMAIN stack = {1}
  <2>1. DOMAIN stack = 1..1 /\ 1..1 = {1}
    BY <1>1, <1>2
  <2>2. Tail(stack) \in Seq(Frame) /\ Len(Tail(stack)) = 0
    BY <1>1, <1>2
  <2>3. QED
    BY <2>1, <2>2, EmptySeq
<1>4. FrameInv(Top, OpenSlots)
  BY <1>1 DEF StackInv
<1>5. QED
  BY <1>1, <1>3, <1>4 DEF FrameInv

\* The fields of the frames that take the innermost one's place.
LEMMA TopFields ==
  ASSUME TypeOK, stack # <<>>
  PROVE  /\ NextReceiver.op = Top.op /\ NextReceiver.n = Top.n /\ NextReceiver.lost = Top.lost
         /\ NextReceiver.isuser = Top.isuser /\ NextReceiver.ctr = Top.ctr + 1
         /\ [Top EXCEPT !.ctr = @ + 1].op = Top.op
         /\ [Top EXCEPT !.ctr = @ + 1].n = Top.n
         /\ [Top EXCEPT !.ctr = @ + 1].lost = Top.lost
         /\ [Top EXCEPT !.ctr = @ + 1].isuser = Top.isuser
         /\ [Top EXCEPT !.ctr = @ + 1].ctr = Top.ctr + 1
         /\ [Top EXCEPT !.early = TRUE].op = Top.op
         /\ [Top EXCEPT !.early = TRUE].n = Top.n
         /\ [Top EXCEPT !.early = TRUE].lost = Top.lost
         /\ [Top EXCEPT !.early = TRUE].isuser = Top.isuser
         /\ [Top EXCEPT !.early = TRUE].ctr = Top.ctr
         /\ [Top EXCEPT !.op = "drop"].op = "drop"
         /\ [Top EXCEPT !.op = "drop"].n = Top.n
         /\ [Top EXCEPT !.op = "drop"].lost = Top.lost
         /\ [Top EXCEPT !.lost = Tail(@)].op = Top.op
         /\ [Top EXCEPT !.lost = Tail(@)].n = Top.n
         /\ [Top EXCEPT !.lost = Tail(@)].lost = Tail(Top.lost)
         /\ [NextReceiver EXCEPT !.lost = Append(@, Top.ctr)].op = Top.op
         /\ [NextReceiver EXCEPT !.lost = Append(@, Top.ctr)].n = Top.n
         /\ [NextReceiver EXCEPT !.lost = Append(@, Top.ctr)].lost = Append(Top.lost, Top.ctr)
         /\ [NextReceiver EXCEPT !.lost = Append(@, Top.ctr)].isuser = Top.isuser
         /\ [NextReceiver EXCEPT !.lost = Append(@, Top.ctr)].ctr = Top.ctr + 1
<1>1. Top \in Frame
  BY StackType DEF TypeOK
<1>2. QED
  BY <1>1 DEF Frame, NextReceiver

LEMMA FarewellFields ==
  ASSUME NEW s \in Slot
  PROVE  /\ Farewell(s) \in Seq(Frame)
         /\ users[s] = None => Farewell(s) = <<>> /\ DOMAIN Farewell(s) = {}
         /\ users[s] # None => /\ DOMAIN Farewell(s) = {1, 2}
                               /\ Farewell(s)[1] = Call("share", s)
                               /\ Farewell(s)[2] = Call("cleanup", s)
<1>1. Farewell(s) \in Seq(Frame)
  BY FarewellType
<1>2. CASE users[s] = None
  BY <1>1, <1>2 DEF Farewell
<1>3. CASE users[s] # None
  <2>1. Farewell(s) = <<Call("share", s), Call("cleanup", s)>>
    BY <1>3 DEF Farewell
  <2>2. DOMAIN Farewell(s) = 1..2 /\ 1..2 = {1, 2}
    BY <2>1
  <2>3. QED
    BY <1>1, <1>3, <2>1, <2>2
<1>4. QED
  BY <1>2, <1>3

\* The elements of the lists of closed slots.
LEMMA ElementsOf ==
  ASSUME NEW seq \in Seq(Slot), NEW s \in Slot
  PROVE  /\ Elements(<<>>) = {}
         /\ Elements(seq) \subseteq Slot
         /\ Elements(Append(seq, s)) = Elements(seq) \cup {s}
         /\ seq # <<>> => Elements(seq) = {Head(seq)} \cup Elements(Tail(seq))
<1>1. Elements(<<>>) = {} /\ Elements(seq) \subseteq Slot
  BY DEF Elements
<1>2. Elements(Append(seq, s)) = Elements(seq) \cup {s}
  <2>1. /\ DOMAIN Append(seq, s) = DOMAIN seq \cup {Len(seq) + 1}
        /\ \A i \in DOMAIN seq : Append(seq, s)[i] = seq[i]
        /\ Append(seq, s)[Len(seq) + 1] = s
    OBVIOUS
  <2>2. QED
    BY <2>1 DEF Elements
<1>3. ASSUME seq # <<>>
      PROVE  Elements(seq) = {Head(seq)} \cup Elements(Tail(seq))
  <2>1. /\ Head(seq) = seq[1] /\ 1 \in DOMAIN seq
        /\ \A i \in DOMAIN Tail(seq) : i + 1 \in DOMAIN seq /\ Tail(seq)[i] = seq[i + 1]
        /\ \A i \in DOMAIN seq : i # 1 => i - 1 \in DOMAIN Tail(seq) /\ Tail(seq)[i - 1] = seq[i]
    BY <1>3
  <2>2. ASSUME NEW x \in Elements(seq)
        PROVE  x \in {Head(seq)} \cup Elements(Tail(seq))
    <3>1. PICK i \in DOMAIN seq : x = seq[i]
      BY DEF Elements
    <3>2. i # 1 => Tail(seq)[i - 1] \in Elements(Tail(seq))
      BY <2>1 DEF Elements
    <3>3. QED
      BY <2>1, <3>1, <3>2
  <2>3. ASSUME NEW x \in Elements(Tail(seq))
        PROVE  x \in Elements(seq)
    BY <2>1 DEF Elements
  <2>4. Head(seq) \in Elements(seq)
    BY <2>1 DEF Elements
  <2>5. QED
    BY <2>2, <2>3, <2>4
<1>4. QED
  BY <1>1, <1>2, <1>3

-----------------------------------------------------------------------------
(* PendingInv: one call takes care of each closed slot *)

\* Nothing is pending on a stack of calls that neither closed nor clean up.
Calm(st) == \A i \in DOMAIN st : st[i].lost = <<>> /\ st[i].op # "cleanup"

LEMMA CalmPending ==
  ASSUME Calm(stack)
  PROVE  PendingInv /\ (\A s \in Slot : ~Lost(s)) /\ \A i \in DOMAIN stack : Pending(stack[i]) = {}
<1>1. \A i \in DOMAIN stack : Pending(stack[i]) = {}
  BY DEF Calm, Pending, Elements
<1>2. QED
  BY <1>1 DEF Calm, PendingInv, Lost, Elements

LEMMA CalmPendingNext ==
  ASSUME Calm(stack')
  PROVE  PendingInv' /\ \A s \in Slot : ~Lost(s)'
<1>1. \A i \in DOMAIN stack' : Pending(stack'[i]) = {}
  BY DEF Calm, Pending, Elements
<1>2. QED
  BY <1>1 DEF Calm, PendingInv, Lost, Elements

\* Pending slots are closed.
LEMMA PendingClosed ==
  ASSUME TypeOK, StackInv, NEW i \in DOMAIN stack
  PROVE  Pending(stack[i]) \subseteq Slot \ OpenSlots
<1>1. stack[i] \in Frame /\ FrameInv(stack[i], OpenSlots)
  BY DEF TypeOK, StackInv
<1>2. stack[i].n \in Slot /\ stack[i].lost \in Seq(Slot)
  BY <1>1 DEF Frame
<1>3. QED
  BY <1>1, <1>2 DEF FrameInv, Pending, Elements

\* The innermost call is replaced by the calls S, which take its slots over or
\* care for slots that were open.
LEMMA PendingReplace ==
  ASSUME TypeOK, StackInv, PendingInv, NEW S \in Seq(Frame), Replaces(S),
         \A i \in DOMAIN S :
           /\ Pending(S[i]) \subseteq Pending(Top) \cup OpenSlots
           /\ \A s \in Pending(S[i]) : users[s] # None => users[s] \in userinfos
           /\ S[i].op = "cleanup" => users[S[i].n] # None
           /\ \A k, l \in DOMAIN S[i].lost : S[i].lost[k] = S[i].lost[l] => k = l,
         \A i, j \in DOMAIN S : i # j => Pending(S[i]) \cap Pending(S[j]) = {},
         UNCHANGED users,
         \A s \in Slot : s \notin Pending(Top) /\ users[s] \in userinfos => users[s] \in userinfos',
         userinfos' = userinfos \/ S = <<>>
  PROVE  PendingInv'
<1>1. /\ 1 \in DOMAIN stack /\ stack[1] = Top
      /\ \A i \in DOMAIN stack' :
           \/ i \in DOMAIN S /\ stack'[i] = S[i]
           \/ \E j \in DOMAIN stack : j # 1 /\ i = j - 1 + Len(S) /\ i > Len(S) /\ stack'[i] = stack[j]
  BY Splice
<1>2. ASSUME NEW j \in DOMAIN stack, j # 1
      PROVE  /\ \A s \in Pending(stack[j]) :
                  s \in Slot /\ s \notin Pending(Top) /\ s \notin OpenSlots
                  /\ (users[s] # None => users[s] \in userinfos')
             /\ stack[j].op = "cleanup" => users[stack[j].n] # None
             /\ \A k, l \in DOMAIN stack[j].lost : stack[j].lost[k] = stack[j].lost[l] => k = l
  <2>1. Pending(stack[j]) \subseteq Slot \ OpenSlots /\ Pending(stack[j]) \cap Pending(Top) = {}
    BY <1>1, <1>2, PendingClosed DEF PendingInv
  <2>2. QED
    BY <1>1, <1>2, <2>1 DEF PendingInv
<1>3. \A i \in DOMAIN S : \A s \in Pending(S[i]) : users[s] # None => users[s] \in userinfos'
  OBVIOUS
<1>4. ASSUME NEW i \in DOMAIN stack'
      PROVE  /\ \A s \in Pending(stack'[i]) : users'[s] # None => users'[s] \in userinfos'
             /\ stack'[i].op = "cleanup" => users'[stack'[i].n] # None
             /\ \A k, l \in DOMAIN stack'[i].lost : stack'[i].lost[k] = stack'[i].lost[l] => k = l
  BY <1>1, <1>2, <1>3
<1>5. ASSUME NEW i \in DOMAIN stack', NEW j \in DOMAIN stack', i # j
      PROVE  Pending(stack'[i]) \cap Pending(stack'[j]) = {}
  <2>1. CASE i \in DOMAIN S /\ stack'[i] = S[i] /\ j \in DOMAIN S /\ stack'[j] = S[j]
    BY <1>5, <2>1
  <2>2. ASSUME NEW k \in DOMAIN stack, NEW l \in DOMAIN stack, k # l
        PROVE  Pending(stack[k]) \cap Pending(stack[l]) = {}
    BY <2>2 DEF PendingInv
  <2>3. CASE /\ \E k \in DOMAIN stack : k # 1 /\ i = k - 1 + Len(S) /\ stack'[i] = stack[k]
             /\ \E l \in DOMAIN stack : l # 1 /\ j = l - 1 + Len(S) /\ stack'[j] = stack[l]
    BY <1>5, <2>2, <2>3
  <2>4. ASSUME NEW k \in DOMAIN stack, k # 1, NEW m \in DOMAIN S
        PROVE  Pending(S[m]) \cap Pending(stack[k]) = {}
    BY <1>2, <2>4
  <2>5. QED
    BY <1>1, <2>1, <2>3, <2>4
<1>6. QED
  BY <1>4, <1>5 DEF PendingInv, Pending, Elements

\* The calls the client's commands, the replies and the listing make, and the
\* loop of share_message as long as it closes nothing.
LEMMA PendingQuiet ==
  ASSUME TypeOK, StackInv, PendingInv, NEW S \in Seq(Frame), Replaces(S),
         UNCHANGED <<users, userinfos>>,
         \A i \in DOMAIN S :
           /\ S[i].op # "cleanup"
           /\ S[i].lost = <<>> \/ (i = Len(S) /\ S[i].lost = Top.lost)
  PROVE  PendingInv'
<1>1. 1 \in DOMAIN stack /\ stack[1] = Top /\ Len(S) \in Nat
  BY Splice
<1>2. Elements(Top.lost) \subseteq Pending(Top) /\ Elements(<<>>) = {}
  BY DEF Pending, Elements
<1>3. \A i \in DOMAIN S :
        /\ Pending(S[i]) = {} \/ (i = Len(S) /\ Pending(S[i]) \subseteq Pending(Top))
        /\ \A k, l \in DOMAIN S[i].lost : S[i].lost[k] = S[i].lost[l] => k = l
  BY <1>1, <1>2 DEF Pending, PendingInv
<1>4. \A s \in Pending(Top) : users[s] # None => users[s] \in userinfos
  BY <1>1 DEF PendingInv
<1>5. QED
  BY <1>3, <1>4, PendingReplace

LEMMA PendingKept ==
  ASSUME PendingInv, UNCHANGED <<stack, users, userinfos>>
  PROVE  PendingInv'
<1>1. \A i \in DOMAIN stack : Pending(stack[i])' = Pending(stack[i])
  BY DEF Pending, Elements
<1>2. QED
  BY <1>1 DEF PendingInv

\* The calls that client commands make: pushes on a stack with nothing pending.
LEMMA CommandCalm ==
  ASSUME TypeOK, StackInv, In("client"),
         \/ UNCHANGED stack
         \/ \E S \in Seq(Frame) :
              /\ stack' = S \o stack
              /\ \A i \in DOMAIN S : S[i].lost = <<>> /\ S[i].op # "cleanup"
  PROVE  Calm(stack) /\ Calm(stack')
<1>1. stack # <<>> /\ DOMAIN stack = {1} /\ stack[1] = Top /\ Top.lost = <<>> /\ Top.op = "client"
  BY ClientAlone DEF In, Top
<1>2. Calm(stack)
  BY <1>1 DEF Calm
<1>3. CASE UNCHANGED stack
  BY <1>2, <1>3 DEF Calm
<1>4. ASSUME NEW S \in Seq(Frame), stack' = S \o stack,
             \A i \in DOMAIN S : S[i].lost = <<>> /\ S[i].op # "cleanup"
      PROVE  Calm(stack')
  <2> DEFINE R == S \o <<Top>>
  <2>1. /\ R \in Seq(Frame) /\ Replaces(R)
        /\ \A i \in DOMAIN R : (i \in DOMAIN S /\ R[i] = S[i]) \/ R[i] = Top
    BY <1>1, <1>4, PushReplaces
  <2>2. \A i \in DOMAIN R : R[i].lost = <<>> /\ R[i].op # "cleanup"
    BY <1>1, <1>4, <2>1
  <2> HIDE DEF R
  <2>3. \A i \in DOMAIN stack' : i \in DOMAIN R /\ stack'[i] = R[i]
    BY <1>1, <2>1, Splice
  <2>4. QED
    BY <2>2, <2>3 DEF Calm
<1>5. QED
  BY <1>2, <1>3, <1>4

\* What the commands push.
LEMMA CommandPushes ==
  ASSUME TypeOK, StackInv, In("client"),
         \/ Join \/ ShareUserMessage \/ AnswerSender \/ NotifyAll \/ SortUsers
  PROVE  \E S \in Seq(Frame) :
           /\ stack' = S \o stack
           /\ \A i \in DOMAIN S :
                /\ S[i].lost = <<>> /\ S[i].op \in {"share", "reply", "list"}
                /\ S[i].op = "share" => i = 1 /\ S[i].n = Top.n /\ (S[i].isuser => ShareUserMessage)
<1>1. Top.n \in Slot /\ stack \in Seq(Frame)
  BY StackType DEF In, TypeOK
<1>2. CASE Join \/ NotifyAll \/ ShareUserMessage \/ AnswerSender
  <2>1. PICK f \in Frame, g \in Frame :
          /\ f = ShareCall(Top.n, FALSE) \/ f = Call("reply", Top.n) \/ (ShareUserMessage /\ f = ShareCall(Top.n, TRUE))
          /\ g = Call("reply", Top.n)
          /\ stack' = <<f>> \o stack \/ stack' = <<f, g>> \o stack
    BY <1>1, <1>2, CallType, ShareCallType DEF Join, NotifyAll, ShareUserMessage, AnswerSender
  <2>2. /\ f.lost = <<>> /\ f.op \in {"share", "reply"} /\ f.n = Top.n /\ (f.isuser => ShareUserMessage)
        /\ g.lost = <<>> /\ g.op = "reply"
    BY <1>1, <2>1 DEF Call, ShareCall
  <2>3. /\ <<f>> \in Seq(Frame) /\ DOMAIN <<f>> = {1} /\ <<f>>[1] = f
        /\ <<f, g>> \in Seq(Frame) /\ DOMAIN <<f, g>> = {1, 2} /\ <<f, g>>[1] = f /\ <<f, g>>[2] = g
    <3>1. DOMAIN <<f>> = 1..1 /\ 1..1 = {1} /\ DOMAIN <<f, g>> = 1..2 /\ 1..2 = {1, 2}
      OBVIOUS
    <3>2. QED
      BY <3>1
  <2>4. CASE stack' = <<f>> \o stack
    <3> DEFINE S == <<f>>
    <3>1. S \in Seq(Frame) /\ DOMAIN S = {1} /\ S[1] = f
      BY <2>3
    <3> HIDE DEF S
    <3>2. stack' = S \o stack
      BY <2>4 DEF S
    <3>3. QED
      BY <2>2, <3>1, <3>2
  <2>5. CASE stack' = <<f, g>> \o stack
    <3> DEFINE S == <<f, g>>
    <3>1. S \in Seq(Frame) /\ DOMAIN S = {1, 2} /\ S[1] = f /\ S[2] = g
      BY <2>3
    <3> HIDE DEF S
    <3>2. stack' = S \o stack
      BY <2>5 DEF S
    <3>3. QED
      BY <2>2, <3>1, <3>2
  <2>6. QED
    BY <2>1, <2>4, <2>5
<1>3. CASE SortUsers
  <2>1. PICK s \in Slot : stack' = <<Call("list", s)>> \o stack
    BY <1>3 DEF SortUsers
  <2>2. /\ Call("list", s) \in Frame /\ Call("list", s).lost = <<>> /\ Call("list", s).op = "list"
    BY CallType DEF Call
  <2> DEFINE S == <<Call("list", s)>>
  <2>3. S \in Seq(Frame) /\ DOMAIN S = {1} /\ S[1] = Call("list", s) /\ stack' = S \o stack
    BY <2>1, <2>2
  <2> HIDE DEF S
  <2>4. QED
    BY <2>2, <2>3
<1>4. QED
  BY <1>2, <1>3

LEMMA PendingStep ==
  ASSUME IInv, IInv', PendingInv, [Next]_vars
  PROVE  PendingInv'
<1> USE DEF table, heap, scanning, network, news
<1>1. TypeOK /\ StackInv /\ TableInv /\ TypeOK'
  BY DEF IInv, TypeInv
<1>2. stack # <<>> => Top.n \in Slot /\ Top.lost \in Seq(Slot) /\ Top \in Frame
  BY <1>1, StackType DEF TypeOK
<1>3. CASE UNCHANGED vars \/ Clients \/ Select
  BY <1>3, PendingKept DEF vars, Clients, Connect, Send, Hangup, Select
<1>4. CASE Scan
  <2>1. CASE ScanListener \/ EstablishConnection \/ SkipSlot \/ ScanDone
    <3>1. stack' = <<>>
      BY <2>1 DEF ScanListener, EstablishConnection, SkipSlot, ScanDone, AtSlot
    <3>2. QED
      BY <3>1, CalmPendingNext DEF Calm
  <2>2. CASE ReceiveLines
    <3>1. n \in Slot /\ stack' = <<Call("client", n)>>
      BY <2>2 DEF ReceiveLines
    <3>2. Calm(stack')
      BY <3>1 DEF Calm, Call
    <3>3. QED
      BY <3>2, CalmPendingNext
  <2>3. CASE ReceiveEnd
    <3>1. /\ n \in Slot /\ IsOpen(n) /\ stack' = Farewell(n) /\ UNCHANGED <<users, userinfos>>
      BY <2>3 DEF ReceiveEnd
    <3>2. CASE users[n] = None
      BY <3>1, <3>2, FarewellFields, CalmPendingNext DEF Calm
    <3>3. CASE users[n] # None
      <4>1. users[n] \in userinfos
        BY <1>1, <3>1, <3>3 DEF TableInv, SlotsCoherent, OpenSlots
      <4>2. DOMAIN stack' = {1, 2} /\ stack'[1] = Call("share", n) /\ stack'[2] = Call("cleanup", n)
        BY <3>1, <3>3, FarewellFields
      <4>3. /\ stack'[1].lost = <<>> /\ stack'[1].op = "share"
            /\ stack'[2].lost = <<>> /\ stack'[2].op = "cleanup" /\ stack'[2].n = n
        BY <4>2 DEF Call
      <4>4. Pending(stack'[1]) = {} /\ Pending(stack'[2]) = {n}
        BY <4>3 DEF Pending, Elements
      <4>5. (\A i \in DOMAIN stack' : Pending(stack[i])' = Pending(stack'[i])) /\ DOMAIN <<>> = {}
        BY DEF Pending, Elements
      <4>6. QED
        BY <3>1, <3>3, <4>1, <4>2, <4>3, <4>4, <4>5 DEF PendingInv
    <3>4. QED
      BY <3>2, <3>3
  <2>4. CASE ScanOverrun
    BY <2>4, PendingKept DEF ScanOverrun, End
  <2>5. QED
    BY <1>4, <2>1, <2>2, <2>3, <2>4 DEF Scan
<1>5. CASE BufferGone \/ LookupNullUser \/ SortNullUser \/ MuteListFull
  BY <1>5, PendingKept DEF BufferGone, LookupNullUser, SortNullUser, MuteListFull, End
<1>6. CASE ListFreedUser \/ ShareNullUser \/ SharePipe \/ ReplyPipe
  BY <1>6, PendingKept DEF ListFreedUser, ShareNullUser, SharePipe, ReplyPipe, End
<1>7. CASE HandleServerExit \/ Join \/ ShareUserMessage \/ AnswerSender \/ NotifyAll \/ SortUsers
  <2>1. In("client")
    BY <1>7 DEF HandleServerExit, Join, ShareUserMessage, AnswerSender, NotifyAll, SortUsers, Command
  <2>2. CASE HandleServerExit
    BY <1>1, <2>1, <2>2, CommandCalm, CalmPendingNext DEF HandleServerExit
  <2>3. CASE Join \/ ShareUserMessage \/ AnswerSender \/ NotifyAll \/ SortUsers
    BY <1>1, <2>1, <2>3, CommandPushes, CommandCalm, CalmPendingNext
  <2>4. QED
    BY <1>7, <2>2, <2>3
<1>8. CASE ClientDone \/ ListDone \/ DropDone \/ ReplyClosed \/ ReplyDeliver
  <2>1. stack # <<>> /\ Return /\ UNCHANGED <<users, userinfos>>
    BY <1>8 DEF ClientDone, ListDone, DropDone, ReplyClosed, ReplyDeliver, In
  <2>2. QED
    BY <1>1, <2>1, ReturnReplaces, PendingQuiet
<1>9. CASE OutputUserStatus
  <2> DEFINE f == Call("reply", Top.n)
             g == [Top EXCEPT !.ctr = @ + 1]
  <2>1. stack # <<>> /\ Top.op = "list" /\ stack' = <<f, g>> \o Tail(stack) /\ UNCHANGED <<users, userinfos>>
    BY <1>9 DEF OutputUserStatus, In, Top
  <2>2. /\ f \in Frame /\ f.lost = <<>> /\ f.op = "reply"
        /\ g \in Frame /\ g.lost = Top.lost /\ g.op = "list"
    <3>1. f \in Frame /\ f.lost = <<>> /\ f.op = "reply"
      BY <1>2, <2>1, CallType DEF Call
    <3>2. g \in Frame /\ g.lost = Top.lost /\ g.op = Top.op
      BY <1>1, <2>1, TopUpdates, TopFields DEF TypeOK
    <3>3. QED
      BY <2>1, <3>1, <3>2
  <2> HIDE DEF f, g
  <2>3. /\ <<f, g>> \in Seq(Frame) /\ DOMAIN <<f, g>> = 1..2 /\ Len(<<f, g>>) = 2
        /\ <<f, g>>[1] = f /\ <<f, g>>[2] = g
    BY <2>2
  <2>4. Replaces(<<f, g>>)
    BY <2>1 DEF Replaces
  <2>5. \A i \in DOMAIN <<f, g>> : i = 1 \/ i = 2
    BY <2>3
  <2> DEFINE S == <<f, g>>
  <2>6. \A i \in DOMAIN S :
          /\ S[i].op # "cleanup"
          /\ S[i].lost = <<>> \/ (i = Len(S) /\ S[i].lost = Top.lost)
    BY <2>2, <2>3, <2>5
  <2> HIDE DEF S
  <2>7. S \in Seq(Frame) /\ Replaces(S)
    BY <2>3, <2>4 DEF S
  <2>8. QED
    BY <1>1, <2>1, <2>6, <2>7, PendingQuiet
<1>10. CASE ShareSkipEmpty \/ ShareSkip \/ ShareDeliver \/ ShareStall \/ ShareDone
  <2>1. /\ stack # <<>> /\ Top.op = "share" /\ UNCHANGED <<users, userinfos>>
        /\ \/ Continue(NextReceiver) \/ Continue([Top EXCEPT !.ctr = @ + 1])
           \/ Continue([Top EXCEPT !.early = TRUE]) \/ Continue([Top EXCEPT !.op = "drop"])
    BY <1>10 DEF ShareSkipEmpty, ShareSkip, ShareDeliver, ShareStall, ShareDone, AtReceiver, AtOther,
         Sharing, In, Top
  <2>2. PICK f \in Frame : Continue(f) /\ f.lost = Top.lost /\ f.op \in {"share", "drop"}
    BY <1>1, <2>1, TopUpdates, TopFields DEF TypeOK
  <2> DEFINE S == <<f>>
  <2>3. S \in Seq(Frame) /\ Replaces(S) /\ DOMAIN S = {1} /\ S[1] = f /\ Len(S) = 1
    BY <1>1, <2>1, <2>2, ContinueReplaces
  <2> HIDE DEF S
  <2>4. QED
    BY <1>1, <2>1, <2>2, <2>3, PendingQuiet
<1>11. CASE ShareLose
  <2> DEFINE f == [NextReceiver EXCEPT !.lost = Append(@, Top.ctr)]
  <2>1. /\ stack # <<>> /\ Top.op = "share" /\ Top.ctr \in OpenSlots /\ Top.ctr \in Slot
        /\ Continue(f) /\ UNCHANGED <<users, userinfos>>
    BY <1>11 DEF ShareLose, AtReceiver, AtOther, Sharing, In, Top, OpenSlots
  <2>2. f \in Frame /\ f.op = "share" /\ f.lost = Append(Top.lost, Top.ctr)
    BY <1>1, <2>1, TopUpdates, TopFields DEF TypeOK
  <2> HIDE DEF f
  <2>3. <<f>> \in Seq(Frame) /\ Replaces(<<f>>) /\ DOMAIN <<f>> = {1} /\ <<f>>[1] = f
    BY <1>1, <2>1, <2>2, ContinueReplaces
  <2>4. 1 \in DOMAIN stack /\ stack[1] = Top
    BY <1>1, <2>3, Splice
  <2>5. Pending(f) = Pending(Top) \cup {Top.ctr} /\ Pending(Top) = Elements(Top.lost)
    BY <1>2, <2>1, <2>2, ElementsOf DEF Pending
  <2>6. \A s \in Pending(f) : users[s] # None => users[s] \in userinfos
    BY <1>1, <2>1, <2>4, <2>5 DEF TableInv, SlotsCoherent, PendingInv
  <2>7. Top.ctr \notin Elements(Top.lost)
    BY <1>1, <2>1, <2>4, <2>5, PendingClosed
  <2>8. ASSUME NEW k \in DOMAIN f.lost, NEW l \in DOMAIN f.lost, f.lost[k] = f.lost[l]
        PROVE  k = l
    <3>1. /\ DOMAIN f.lost = DOMAIN Top.lost \cup {Len(Top.lost) + 1}
          /\ \A i \in DOMAIN Top.lost : f.lost[i] = Top.lost[i]
          /\ f.lost[Len(Top.lost) + 1] = Top.ctr
      BY <1>2, <2>1, <2>2
    <3>2. \A i, j \in DOMAIN Top.lost : Top.lost[i] = Top.lost[j] => i = j
      BY <2>4 DEF PendingInv
    <3>3. \A i \in DOMAIN Top.lost : Top.lost[i] # Top.ctr
      BY <2>7 DEF Elements
    <3>4. QED
      BY <2>8, <3>1, <3>2, <3>3
  <2>9. QED
    BY <1>1, <2>1, <2>2, <2>3, <2>5, <2>6, <2>8, PendingReplace
<1>12. CASE DropNext
  <2> DEFINE s == Head(Top.lost)
             f == [Top EXCEPT !.lost = Tail(@)]
             F == Farewell(s)
             R == F \o <<f>>
  <2>1. /\ stack # <<>> /\ Top.op = "drop" /\ Top.lost # <<>>
        /\ stack' = F \o <<f>> \o Tail(stack) /\ UNCHANGED <<users, userinfos>>
    BY <1>12 DEF DropNext, In, Top
  <2>2. f \in Frame /\ f.op = "drop" /\ f.lost = Tail(Top.lost) /\ s \in Slot
    BY <1>1, <2>1, TopUpdates, TopFields DEF TypeOK
  <2> HIDE DEF f
  <2>3. R \in Seq(Frame) /\ Replaces(R)
    BY <2>1, <2>2, FarewellFields DEF Replaces
  <2>4. 1 \in DOMAIN stack /\ stack[1] = Top
    BY <1>1, <2>3, Splice
  <2>5. Pending(Top) = {s} \cup Elements(Tail(Top.lost)) /\ Pending(f) = Elements(Tail(Top.lost))
    BY <1>2, <2>1, <2>2, ElementsOf DEF Pending
  <2>6. /\ \A k, l \in DOMAIN Top.lost : Top.lost[k] = Top.lost[l] => k = l
        /\ s = Top.lost[1] /\ 1 \in DOMAIN Top.lost
        /\ \A k \in DOMAIN f.lost : k + 1 \in DOMAIN Top.lost /\ k \in Nat /\ f.lost[k] = Top.lost[k + 1]
    BY <1>2, <2>1, <2>2, <2>4 DEF PendingInv
  <2>7. /\ s \notin Elements(Tail(Top.lost))
        /\ \A k, l \in DOMAIN f.lost : f.lost[k] = f.lost[l] => k = l
    <3>1. \A k \in DOMAIN f.lost : k + 1 # 1
      <4>1. DOMAIN f.lost = 1..Len(f.lost) /\ Len(f.lost) \in Nat
        BY <1>2, <2>1, <2>2
      <4>2. QED
        BY <4>1
    <3>2. \A k \in DOMAIN f.lost : f.lost[k] # s
      BY <2>6, <3>1
    <3>3. \A k, l \in DOMAIN f.lost : f.lost[k] = f.lost[l] => k + 1 = l + 1
      BY <2>6
    <3>4. \A k, l \in DOMAIN f.lost : k + 1 = l + 1 => k = l
      BY <2>6
    <3>5. QED
      BY <2>2, <3>2, <3>3, <3>4 DEF Elements
  <2>8. \A t \in Pending(Top) : users[t] # None => users[t] \in userinfos
    BY <2>4 DEF PendingInv
  <2>9. CASE users[s] = None
    <3>1. DOMAIN R = {1} /\ R[1] = f
      <4>1. R = <<f>>
        BY <2>2, <2>9, ConcatEmptySeq DEF Farewell
      <4>2. QED
        BY <4>1
    <3> HIDE DEF R
    <3>2. QED
      BY <1>1, <2>1, <2>2, <2>3, <2>5, <2>7, <2>8, <3>1, PendingReplace
  <2>10. CASE users[s] # None
    <3>1. /\ F \in Seq(Frame) /\ DOMAIN F = {1, 2}
          /\ F[1] = Call("share", s) /\ F[2] = Call("cleanup", s)
      BY <2>2, <2>10, FarewellFields
    <3>2. DOMAIN R = {1, 2, 3} /\ R[1] = F[1] /\ R[2] = F[2] /\ R[3] = f
      <4>1. Len(F) = 2
        BY <3>1
      <4>2. DOMAIN R = 1..3 /\ R[1] = F[1] /\ R[2] = F[2] /\ R[3] = f
        BY <2>2, <3>1, <4>1
      <4>3. 1..3 = {1, 2, 3}
        OBVIOUS
      <4>4. QED
        BY <4>2, <4>3
    <3>3. /\ R[1].op = "share" /\ R[1].lost = <<>>
          /\ R[2].op = "cleanup" /\ R[2].lost = <<>> /\ R[2].n = s
          /\ R[3].op = "drop" /\ R[3].lost = Tail(Top.lost)
      <4>1. Call("share", s).op = "share" /\ Call("share", s).lost = <<>>
        BY DEF Call
      <4>2. Call("cleanup", s).op = "cleanup" /\ Call("cleanup", s).lost = <<>> /\ Call("cleanup", s).n = s
        BY DEF Call
      <4>3. QED
        BY <2>2, <3>1, <3>2, <4>1, <4>2
    <3> HIDE DEF R
    <3>4. Pending(R[1]) = {} /\ Pending(R[2]) = {s} /\ Pending(R[3]) = Elements(Tail(Top.lost))
      <4>1. Elements(<<>>) = {}
        BY DEF Elements
      <4>2. QED
        BY <2>5, <3>3, <4>1 DEF Pending
    <3>5. \A i, j \in DOMAIN R : i # j => Pending(R[i]) \cap Pending(R[j]) = {}
      BY <2>7, <3>2, <3>4
    <3>6. \A i \in DOMAIN R :
            /\ Pending(R[i]) \subseteq Pending(Top)
            /\ R[i].op = "cleanup" => users[R[i].n] # None
            /\ \A k, l \in DOMAIN R[i].lost : R[i].lost[k] = R[i].lost[l] => k = l
      <4>1. DOMAIN R[1].lost = {} /\ DOMAIN R[2].lost = {} /\ R[3].lost = f.lost
        BY <2>2, <3>3
      <4>2. \A i \in DOMAIN R : i = 1 \/ i = 2 \/ i = 3
        BY <3>2
      <4>3. \A i \in DOMAIN R : Pending(R[i]) \subseteq Pending(Top)
        BY <2>5, <3>4, <4>2
      <4>4. \A i \in DOMAIN R : R[i].op = "cleanup" => users[R[i].n] # None
        BY <2>10, <3>3, <4>2
      <4>5. \A i \in DOMAIN R : \A k, l \in DOMAIN R[i].lost : R[i].lost[k] = R[i].lost[l] => k = l
        BY <2>7, <4>1, <4>2
      <4>6. QED
        BY <4>3, <4>4, <4>5
    <3>7. QED
      BY <1>1, <2>1, <2>3, <2>8, <3>5, <3>6, PendingReplace
  <2>11. QED
    BY <2>9, <2>10
<1>13. CASE CleanupUser
  <2>1. /\ stack # <<>> /\ Top.op = "cleanup" /\ Return /\ UNCHANGED users
        /\ userinfos' = userinfos \ {users[Top.n]}
    BY <1>13 DEF CleanupUser, In, Top
  <2>2. <<>> \in Seq(Frame) /\ Replaces(<<>>) /\ DOMAIN <<>> = {}
    BY <1>1, <2>1, ReturnReplaces
  <2>3. Top.n \in Pending(Top)
    BY <2>1 DEF Pending
  <2>4. \A s \in Slot : s \notin Pending(Top) /\ users[s] \in userinfos => users[s] \in userinfos'
    <3>1. \A s \in Slot : users[s] \in userinfos => users[s] # None
      BY <1>1, ClientAssumption DEF TypeOK
    <3>2. \A s \in Slot : users[s] # None /\ users[s] = users[Top.n] => s = Top.n
      BY <1>1, <1>2, <2>1 DEF TableInv, OneSlotEach
    <3>3. QED
      BY <2>1, <2>3, <3>1, <3>2
  <2>5. QED
    BY <1>1, <2>1, <2>2, <2>4, PendingReplace
<1>14. CASE ReplyLose
  <2>1. /\ stack # <<>> /\ IsOpen(Top.n) /\ stack' = Farewell(Top.n) \o Tail(stack)
        /\ UNCHANGED <<users, userinfos>>
    BY <1>14 DEF ReplyLose, In, Top
  <2> DEFINE F == Farewell(Top.n)
  <2>2. F \in Seq(Frame) /\ Replaces(F)
    BY <1>1, <1>2, <2>1, FarewellReplaces
  <2>3. Top.n \in OpenSlots /\ (users[Top.n] # None => users[Top.n] \in userinfos)
    BY <1>1, <1>2, <2>1 DEF OpenSlots, TableInv, SlotsCoherent
  <2>4. /\ users[Top.n] = None => DOMAIN F = {}
        /\ users[Top.n] # None =>
             /\ DOMAIN F = {1, 2}
             /\ F[1].op = "share" /\ F[1].lost = <<>>
             /\ F[2].op = "cleanup" /\ F[2].lost = <<>> /\ F[2].n = Top.n
    <3>1. /\ Call("share", Top.n).op = "share" /\ Call("share", Top.n).lost = <<>>
          /\ Call("cleanup", Top.n).op = "cleanup" /\ Call("cleanup", Top.n).lost = <<>>
          /\ Call("cleanup", Top.n).n = Top.n
      BY DEF Call
    <3>2. QED
      BY <1>2, <2>1, <3>1, FarewellFields
  <2> HIDE DEF F
  <2>5. \A i \in DOMAIN F : Pending(F[i]) = IF i = 1 THEN {} ELSE {Top.n}
    BY <2>4 DEF Pending, Elements
  <2>6. \A i \in DOMAIN F :
          /\ Pending(F[i]) \subseteq Pending(Top) \cup OpenSlots
          /\ \A s \in Pending(F[i]) : users[s] # None => users[s] \in userinfos
          /\ F[i].op = "cleanup" => users[F[i].n] # None
          /\ \A k, l \in DOMAIN F[i].lost : F[i].lost[k] = F[i].lost[l] => k = l
    <3>1. \A i \in DOMAIN F : F[i].lost = <<>> /\ (F[i].op = "cleanup" => i = 2 /\ users[Top.n] # None)
      BY <2>4
    <3>2. QED
      BY <2>3, <2>4, <2>5, <3>1
  <2>7. \A i, j \in DOMAIN F : i # j => Pending(F[i]) \cap Pending(F[j]) = {}
    BY <2>4, <2>5
  <2>8. QED
    BY <1>1, <2>1, <2>2, <2>6, <2>7, PendingReplace
<1>15. QED
  BY <1>3, <1>4, <1>5, <1>6, <1>7, <1>8, <1>9, <1>10, <1>11, <1>12, <1>13, <1>14
     DEF Next, Server, HandleClient, ShowAllStatuses, ShareMessage, Reply

-----------------------------------------------------------------------------
(* BufferInv: every open slot has its buffer *)

LEMMA PendingInit ==
  ASSUME Init
  PROVE  PendingInv
BY CalmPending DEF Init, Calm

LEMMA BufferKept ==
  ASSUME BufferInv, UNCHANGED <<stack, messages, sockets>>, pc = "exited" => pc' = "exited"
  PROVE  BufferInv'
BY DEF BufferInv, IsOpen, Serves, Lost, Elements

\* Without a call, or in a handle_client that has its buffer, nothing is amiss.
LEMMA BuffersAgree ==
  ASSUME TypeOK, StackInv, BufferInv, pc # "exited",
         \/ stack = <<>>
         \/ In("client") /\ messages[Top.n] # None
  PROVE  \A s \in Slot : messages[s] = sockets[s]
<1>1. CASE stack = <<>>
  BY <1>1 DEF BufferInv, Serves, Lost
<1>2. CASE In("client") /\ messages[Top.n] # None
  <2>1. DOMAIN stack = {1} /\ stack[1] = Top /\ Top.lost = <<>>
    BY <1>2, ClientAlone DEF In, Top
  <2>2. \A s \in Slot : ~Lost(s)
    BY <2>1 DEF Lost, Elements
  <2>3. \A s \in Slot : Serves(s) => s = Top.n
    BY <2>1 DEF Serves
  <2>4. QED
    BY <1>2, <2>2, <2>3 DEF BufferInv
<1>3. QED
  BY <1>1, <1>2

\* The calls that stay where they are keep what they serve and have closed.
LEMMA ServesReplace ==
  ASSUME TypeOK, NEW S \in Seq(Frame), Replaces(S), NEW s \in Slot, Serves(s),
         Top.op = "client" => \E i \in DOMAIN S : S[i].op = "client" /\ S[i].n = Top.n
  PROVE  Serves(s)'
<1>1. PICK j \in DOMAIN stack : stack[j].op = "client" /\ stack[j].n = s
  BY DEF Serves
<1>2. CASE j = 1
  BY <1>1, <1>2, Splice DEF Serves
<1>3. CASE j # 1
  BY <1>1, <1>3, Splice DEF Serves
<1>4. QED
  BY <1>2, <1>3

LEMMA LostReplace ==
  ASSUME TypeOK, NEW S \in Seq(Frame), Replaces(S), NEW s \in Slot, Lost(s),
         s \in Elements(Top.lost) => \E i \in DOMAIN S : s \in Elements(S[i].lost)
  PROVE  Lost(s)'
<1>1. PICK j \in DOMAIN stack : s \in Elements(stack[j].lost)
  BY DEF Lost
<1>2. \A i \in DOMAIN stack' : s \in Elements(stack'[i].lost) => Lost(s)'
  BY DEF Lost, Elements
<1>3. CASE j = 1
  BY <1>1, <1>2, <1>3, Splice
<1>4. CASE j # 1
  BY <1>1, <1>2, <1>4, Splice
<1>5. QED
  BY <1>3, <1>4

LEMMA LostHere ==
  ASSUME TypeOK, NEW S \in Seq(Frame), Replaces(S), NEW s \in Slot,
         NEW i \in DOMAIN S, s \in Elements(S[i].lost)
  PROVE  Lost(s)'
<1>1. \A k \in DOMAIN stack' : s \in Elements(stack'[k].lost) => Lost(s)'
  BY DEF Lost, Elements
<1>2. QED
  BY <1>1, Splice

\* The innermost call is replaced by the calls S and no slot is opened.
LEMMA BufferReplace ==
  ASSUME TypeOK, BufferInv, pc # "exited", NEW S \in Seq(Frame), Replaces(S),
         \A s \in Slot : IsOpen(s)' => IsOpen(s),
         Top.op = "client" => \E i \in DOMAIN S : S[i].op = "client" /\ S[i].n = Top.n,
         \A s \in Slot :
           \/ messages'[s] = sockets'[s]
           \/ /\ messages'[s] = messages[s] /\ sockets'[s] = sockets[s]
              /\ s \in Elements(Top.lost) => \E i \in DOMAIN S : s \in Elements(S[i].lost)
           \/ IsOpen(s)' /\ messages'[s] = None /\ Serves(s)
           \/ ~IsOpen(s)' /\ \E i \in DOMAIN S : s \in Elements(S[i].lost),
         \A i \in DOMAIN S :
           S[i].op \in {"share", "drop"} /\ sockets'[S[i].n] # None => Serves(S[i].n)
  PROVE  BufferInv'
<1>1. \A s \in Slot : Serves(s) => Serves(s)'
  BY ServesReplace
<1>2. ASSUME NEW s \in Slot, messages'[s] # sockets'[s]
      PROVE  IF IsOpen(s)' THEN messages'[s] = None /\ Serves(s)' ELSE Lost(s)'
  <2>1. CASE /\ messages'[s] = messages[s] /\ sockets'[s] = sockets[s]
             /\ s \in Elements(Top.lost) => \E i \in DOMAIN S : s \in Elements(S[i].lost)
    <3>1. IsOpen(s)' = IsOpen(s)
      BY <2>1 DEF IsOpen
    <3>2. IF IsOpen(s) THEN messages[s] = None /\ Serves(s) ELSE Lost(s)
      BY <1>2, <2>1 DEF BufferInv
    <3>3. Lost(s) => Lost(s)'
      BY <2>1, LostReplace
    <3>4. QED
      BY <1>1, <2>1, <3>1, <3>2, <3>3
  <2>2. CASE IsOpen(s)' /\ messages'[s] = None /\ Serves(s)
    BY <1>1, <2>2
  <2>3. CASE ~IsOpen(s)' /\ \E i \in DOMAIN S : s \in Elements(S[i].lost)
    BY <2>3, LostHere
  <2>4. QED
    BY <1>2, <2>1, <2>2, <2>3
<1>3. ASSUME NEW i \in DOMAIN stack', stack'[i].op \in {"share", "drop"}, IsOpen(stack[i].n)'
      PROVE  Serves(stack[i].n)'
  <2>1. PICK f \in Frame :
          /\ f = stack'[i]
          /\ f.n \in Slot
          /\ (\E k \in DOMAIN S : f = S[k]) \/ (\E j \in DOMAIN stack : f = stack[j])
    <3>1. \A k \in DOMAIN S : S[k] \in Frame
      OBVIOUS
    <3>2. \A k \in DOMAIN stack : stack[k] \in Frame
      BY DEF TypeOK
    <3>3. \A f \in Frame : f.n \in Slot
      BY DEF Frame
    <3>4. QED
      BY <3>1, <3>2, <3>3, Splice
  <2>2. f.op \in {"share", "drop"} /\ IsOpen(f.n)' /\ sockets'[f.n] # None /\ IsOpen(f.n)
    <3>1. IsOpen(f.n)'
      BY <1>3, <2>1 DEF IsOpen
    <3>2. QED
      BY <1>3, <2>1, <3>1 DEF IsOpen
  <2>3. Serves(f.n)
    BY <2>1, <2>2 DEF BufferInv
  <2>4. Serves(f.n)'
    BY <1>1, <2>1, <2>3
  <2>5. QED
    BY <2>1, <2>4 DEF Serves
<1>4. QED
  BY <1>2, <1>3 DEF BufferInv, Serves, Lost, IsOpen, Elements

\* What a returning call has closed has been dropped.
LEMMA NothingLost ==
  ASSUME TypeOK, StackInv, stack # <<>>,
         Top.op \in {"client", "reply", "cleanup", "list"} \/ Top.lost = <<>>
  PROVE  Elements(Top.lost) = {} /\ Top.lost = <<>>
<1>1. 1 \in DOMAIN stack /\ stack[1] = Top
  BY StackType DEF TypeOK, Top
<1>2. Top.lost = <<>>
  BY <1>1 DEF StackInv, FrameInv
<1>3. QED
  BY <1>2 DEF Elements

\* The calls of a handled line are put on those in progress.
LEMMA BufferPush ==
  ASSUME TypeOK, StackInv, BufferInv, In("client"), UNCHANGED <<messages, sockets>>,
         NEW S \in Seq(Frame), stack' = S \o stack,
         \A i \in DOMAIN S :
           S[i].op \in {"share", "reply", "list"} /\ (S[i].op = "share" => S[i].n = Top.n)
  PROVE  BufferInv'
<1>1. stack # <<>> /\ Top.op = "client" /\ Elements(Top.lost) = {} /\ pc # "exited"
  BY NothingLost DEF In, Running, Top
<1>2. Serves(Top.n)
  BY <1>1, StackType DEF Serves, TypeOK, Top
<1> DEFINE R == S \o <<Top>>
<1>3. /\ R \in Seq(Frame) /\ Replaces(R)
      /\ \A i \in DOMAIN R : (i \in DOMAIN S /\ R[i] = S[i]) \/ R[i] = Top
      /\ Len(S) + 1 \in DOMAIN R /\ R[Len(S) + 1] = Top
  <2>1. /\ R \in Seq(Frame) /\ Replaces(R)
        /\ \A i \in DOMAIN R : (i \in DOMAIN S /\ R[i] = S[i]) \/ (i = Len(S) + 1 /\ R[i] = Top)
        /\ Len(R) = Len(S) + 1
    BY <1>1, PushReplaces
  <2> HIDE DEF R
  <2>2. Len(S) + 1 \in DOMAIN R /\ Len(S) + 1 \notin DOMAIN S
    BY <2>1
  <2>3. QED
    BY <2>1, <2>2
<1> HIDE DEF R
<1>4. \A s \in Slot : IsOpen(s)' = IsOpen(s)
  BY DEF IsOpen
<1>5. \A i \in DOMAIN R : R[i].op \in {"share", "drop"} => Serves(R[i].n)
  BY <1>1, <1>2, <1>3
<1>6. \E i \in DOMAIN R : R[i].op = "client" /\ R[i].n = Top.n
  BY <1>1, <1>3
<1>7. QED
  BY <1>1, <1>3, <1>4, <1>5, <1>6, BufferReplace

\* The innermost call returns.
LEMMA BufferReturn ==
  ASSUME TypeOK, StackInv, BufferInv, pc # "exited", stack # <<>>, Return,
         UNCHANGED <<messages, sockets>>,
         Top.op \in {"reply", "cleanup", "list"} \/ (Top.op = "drop" /\ Top.lost = <<>>)
  PROVE  BufferInv'
<1>1. Elements(Top.lost) = {}
  BY NothingLost
<1>2. <<>> \in Seq(Frame) /\ Replaces(<<>>) /\ DOMAIN <<>> = {}
  BY ReturnReplaces
<1> DEFINE S == <<>>
<1>3. S \in Seq(Frame) /\ Replaces(S) /\ DOMAIN S = {}
  BY <1>2
<1> HIDE DEF S
<1>4. \A s \in Slot : IsOpen(s)' = IsOpen(s)
  BY DEF IsOpen
<1>5. QED
  BY <1>1, <1>3, <1>4, BufferReplace

\* The innermost call goes on.
LEMMA BufferContinue ==
  ASSUME TypeOK, StackInv, BufferInv, pc # "exited", stack # <<>>, Top.op \in {"share", "list"},
         NEW f \in Frame, Continue(f), f.op \in {"share", "drop"} => f.n = Top.n /\ Top.op = "share",
         UNCHANGED messages,
         \A s \in Slot : sockets'[s] = sockets[s] \/ (sockets'[s] = None /\ s \in Elements(f.lost)),
         Elements(Top.lost) \subseteq Elements(f.lost)
  PROVE  BufferInv'
<1> DEFINE S == <<f>>
<1>1. S \in Seq(Frame) /\ Replaces(S) /\ DOMAIN S = {1} /\ S[1] = f
  BY ContinueReplaces
<1> HIDE DEF S
<1>2. \A s \in Slot : IsOpen(s)' => IsOpen(s)
  BY DEF IsOpen
<1>3. 1 \in DOMAIN stack /\ stack[1] = Top /\ Top.n \in Slot
  BY StackType DEF TypeOK, Top
<1>4. f.op \in {"share", "drop"} /\ sockets'[f.n] # None => Serves(f.n)
  BY <1>2, <1>3 DEF BufferInv, IsOpen
<1>5. \A s \in Slot :
        \/ /\ messages'[s] = messages[s] /\ sockets'[s] = sockets[s]
           /\ s \in Elements(Top.lost) => s \in Elements(f.lost)
        \/ ~IsOpen(s)' /\ s \in Elements(f.lost)
  BY DEF IsOpen
<1>6. QED
  BY <1>1, <1>2, <1>4, <1>5, BufferReplace

LEMMA BufferStep ==
  ASSUME IInv, IInv', BufferInv, [Next]_vars
  PROVE  BufferInv'
<1> USE DEF table, heap, scanning, network, news
<1>1. TypeOK /\ StackInv /\ TableInv /\ TypeOK'
  BY DEF IInv, TypeInv
<1>2. stack # <<>> =>
        Top.n \in Slot /\ Top.lost \in Seq(Slot) /\ Top \in Frame /\ 1 \in DOMAIN stack /\ stack[1] = Top
  BY <1>1, StackType DEF TypeOK, Top
<1>3. CASE UNCHANGED vars \/ Clients \/ Select
  BY <1>3, BufferKept DEF vars, Clients, Connect, Send, Hangup, Select
<1>4. CASE Scan
  <2>1. CASE ScanListener \/ SkipSlot \/ ScanDone \/ ScanOverrun
    BY <2>1, BufferKept DEF ScanListener, SkipSlot, ScanDone, ScanOverrun, AtSlot, Running, End
  <2>2. CASE EstablishConnection \/ ReceiveLines \/ ReceiveEnd
    <3>1. stack = <<>> /\ pc # "exited"
      BY <2>2 DEF EstablishConnection, ReceiveLines, ReceiveEnd, AtSlot, Running
    <3>2. \A s \in Slot : messages[s] = sockets[s]
      BY <1>1, <3>1, BuffersAgree
    <3>3. \A s \in Slot : messages'[s] = sockets'[s]
      <4>1. CASE EstablishConnection
        BY <1>1, <3>2, <4>1 DEF EstablishConnection, FillSlot, TypeOK
      <4>2. CASE ReceiveLines
        BY <3>2, <4>2 DEF ReceiveLines
      <4>3. CASE ReceiveEnd
        BY <1>1, <3>2, <4>3 DEF ReceiveEnd, CloseSlot, TypeOK
      <4>4. QED
        BY <2>2, <4>1, <4>2, <4>3
    <3>4. ASSUME NEW i \in DOMAIN stack'
          PROVE  stack'[i].op \in {"share", "drop"} => ~IsOpen(stack[i].n)'
      <4>1. CASE EstablishConnection
        BY <3>1, <4>1 DEF EstablishConnection
      <4>2. CASE ReceiveLines
        BY <4>2 DEF ReceiveLines, Call
      <4>3. CASE ReceiveEnd
        <5>1. n \in Slot /\ stack' = Farewell(n) /\ sockets'[n] = None
          BY <1>1, <4>3 DEF ReceiveEnd, CloseSlot, TypeOK
        <5>2. stack'[i] \in {Call("share", n), Call("cleanup", n)}
          BY <5>1, FarewellFields
        <5>3. stack'[i].n = n
          BY <5>2 DEF Call
        <5>4. QED
          BY <5>1, <5>3 DEF IsOpen
      <4>4. QED
        BY <2>2, <4>1, <4>2, <4>3
    <3>5. QED
      BY <3>3, <3>4 DEF BufferInv
  <2>3. QED
    BY <1>4, <2>1, <2>2 DEF Scan
<1>5. CASE \/ BufferGone \/ LookupNullUser \/ SortNullUser \/ ListFreedUser \/ ShareNullUser
           \/ SharePipe \/ ReplyPipe \/ MuteListFull
  <2>1. UNCHANGED <<stack, messages, sockets>> /\ pc # "exited"
    BY <1>5 DEF BufferGone, LookupNullUser, SortNullUser, ListFreedUser, ShareNullUser, SharePipe,
         ReplyPipe, MuteListFull, End, Command, AtReceiver, AtOther, Sharing, In, Running
  <2>2. QED
    BY <2>1, BufferKept
<1>6. CASE HandleServerExit
  BY <1>6 DEF HandleServerExit, BufferInv
<1>7. CASE Join \/ ShareUserMessage \/ AnswerSender \/ NotifyAll
  <2>1. In("client") /\ UNCHANGED <<messages, sockets>>
    BY <1>7 DEF Join, ShareUserMessage, AnswerSender, NotifyAll, Command
  <2>2. QED
    BY <1>1, <1>7, <2>1, CommandPushes, BufferPush
<1>8. CASE ClientDone \/ SortUsers
  <2>1. In("client") /\ messages[Top.n] # None /\ pc # "exited"
    BY <1>8 DEF ClientDone, SortUsers, Command, HasLine, In, Running
  <2>2. \A s \in Slot : messages[s] = sockets[s]
    BY <1>1, <2>1, BuffersAgree
  <2>3. \A s \in Slot : messages'[s] = sockets'[s]
    <3>1. CASE ClientDone
      BY <2>2, <3>1 DEF ClientDone
    <3>2. CASE SortUsers
      <4>1. PICK q \in Arrangements : MoveSlots(q)
        BY <3>2 DEF SortUsers
      <4>2. q \in [Slot -> Slot]
        BY <4>1 DEF Arrangements
      <4>3. QED
        BY <2>2, <4>1, <4>2 DEF MoveSlots
    <3>3. QED
      BY <1>8, <3>1, <3>2
  <2>4. \A i \in DOMAIN stack' : stack'[i].op \notin {"share", "drop"}
    <3>1. Tail(stack) = <<>> /\ DOMAIN stack = {1} /\ stack[1] = Top /\ Top.op = "client"
      BY <1>1, <1>2, <2>1, ClientAlone DEF In, Top
    <3>2. CASE ClientDone
      BY <3>1, <3>2 DEF ClientDone, Return
    <3>3. CASE SortUsers
      <4>1. PICK s \in Slot : stack' = <<Call("list", s)>> \o stack
        BY <3>3 DEF SortUsers
      <4>2. \A i \in DOMAIN stack' : stack'[i] = Call("list", s) \/ stack'[i] = Top
        <5> DEFINE S == <<Call("list", s)>>
                   R == S \o <<Top>>
        <5>1. S \in Seq(Frame) /\ (\A i \in DOMAIN S : S[i] = Call("list", s)) /\ stack' = S \o stack
          BY <4>1, CallType
        <5> HIDE DEF S
        <5>2. R \in Seq(Frame) /\ Replaces(R) /\ \A i \in DOMAIN R : R[i] = Call("list", s) \/ R[i] = Top
          BY <1>1, <2>1, <5>1, PushReplaces DEF In
        <5> HIDE DEF R
        <5>3. \A i \in DOMAIN stack' : i \in DOMAIN R /\ stack'[i] = R[i]
          BY <1>1, <3>1, <5>2, Splice
        <5>4. QED
          BY <5>2, <5>3
      <4>3. QED
        BY <3>1, <4>2 DEF Call
    <3>4. QED
      BY <1>8, <3>2, <3>3
  <2>5. QED
    BY <2>3, <2>4 DEF BufferInv
<1>9. CASE ListDone \/ DropDone \/ ReplyClosed \/ ReplyDeliver \/ CleanupUser
  <2>1. /\ stack # <<>> /\ pc # "exited" /\ Return /\ UNCHANGED <<messages, sockets>>
        /\ Top.op \in {"reply", "cleanup", "list"} \/ (Top.op = "drop" /\ Top.lost = <<>>)
    BY <1>9 DEF ListDone, DropDone, ReplyClosed, ReplyDeliver, CleanupUser, In, Running, Top
  <2>2. QED
    BY <1>1, <2>1, BufferReturn
<1>10. CASE OutputUserStatus
  <2> DEFINE f == Call("reply", Top.n)
             g == [Top EXCEPT !.ctr = @ + 1]
             S == <<f, g>>
  <2>1. /\ stack # <<>> /\ Top.op = "list" /\ stack' = <<f, g>> \o Tail(stack) /\ pc # "exited"
        /\ UNCHANGED <<messages, sockets>>
    BY <1>10 DEF OutputUserStatus, In, Top, Running
  <2>2. f \in Frame /\ f.op = "reply" /\ g \in Frame /\ g.op = "list"
    <3>1. f \in Frame /\ f.op = "reply"
      BY <1>2, <2>1, CallType DEF Call
    <3>2. g \in Frame /\ g.op = Top.op
      BY <1>1, <2>1, TopUpdates, TopFields DEF TypeOK
    <3>3. QED
      BY <2>1, <3>1, <3>2
  <2> HIDE DEF f, g
  <2>3. S \in Seq(Frame) /\ Replaces(S) /\ \A i \in DOMAIN S : S[i].op \in {"reply", "list"}
    <3>1. S \in Seq(Frame) /\ Replaces(S)
      BY <2>1, <2>2 DEF Replaces
    <3>2. \A i \in DOMAIN S : S[i] = f \/ S[i] = g
      BY <2>2
    <3>3. QED
      BY <2>2, <3>1, <3>2
  <2> HIDE DEF S
  <2>4. \A s \in Slot : IsOpen(s)' = IsOpen(s)
    BY <2>1 DEF IsOpen
  <2>5. Elements(Top.lost) = {}
    BY <1>1, <2>1, NothingLost
  <2>6. QED
    BY <1>1, <2>1, <2>3, <2>4, <2>5, BufferReplace
<1>11. CASE ShareSkipEmpty \/ ShareSkip \/ ShareDeliver \/ ShareStall \/ ShareDone
  <2>1. /\ stack # <<>> /\ Top.op = "share" /\ UNCHANGED <<messages, sockets>> /\ pc # "exited"
        /\ \/ Continue(NextReceiver) \/ Continue([Top EXCEPT !.ctr = @ + 1])
           \/ Continue([Top EXCEPT !.early = TRUE]) \/ Continue([Top EXCEPT !.op = "drop"])
    BY <1>11 DEF ShareSkipEmpty, ShareSkip, ShareDeliver, ShareStall, ShareDone, AtReceiver, AtOther, Sharing,
         In, Running, Top
  <2>2. PICK f \in Frame : Continue(f) /\ f.lost = Top.lost /\ f.n = Top.n
    BY <1>1, <2>1, TopUpdates, TopFields DEF TypeOK
  <2>3. QED
    BY <1>1, <2>1, <2>2, BufferContinue
<1>12. CASE ShareLose
  <2> DEFINE f == [NextReceiver EXCEPT !.lost = Append(@, Top.ctr)]
  <2>1. /\ stack # <<>> /\ Top.op = "share" /\ Top.ctr \in Slot /\ pc # "exited"
        /\ Continue(f) /\ UNCHANGED messages
        /\ sockets' = [sockets EXCEPT ![Top.ctr] = None]
    BY <1>12 DEF ShareLose, AtReceiver, AtOther, Sharing, In, Running, Top, CloseSlot
  <2>2. f \in Frame /\ f.op = "share" /\ f.lost = Append(Top.lost, Top.ctr) /\ f.n = Top.n
    BY <1>1, <2>1, TopUpdates, TopFields DEF TypeOK
  <2> HIDE DEF f
  <2>3. Elements(f.lost) = Elements(Top.lost) \cup {Top.ctr}
    BY <1>2, <2>1, <2>2, ElementsOf
  <2>4. \A s \in Slot : sockets'[s] = sockets[s] \/ (sockets'[s] = None /\ s \in Elements(f.lost))
    BY <1>1, <2>1, <2>3 DEF TypeOK
  <2>5. QED
    BY <1>1, <2>1, <2>2, <2>3, <2>4, BufferContinue
<1>13. CASE DropNext
  <2> DEFINE s == Head(Top.lost)
             f == [Top EXCEPT !.lost = Tail(@)]
             F == Farewell(s)
             R == F \o <<f>>
  <2>1. /\ stack # <<>> /\ Top.op = "drop" /\ Top.lost # <<>> /\ pc # "exited"
        /\ stack' = F \o <<f>> \o Tail(stack) /\ UNCHANGED sockets
        /\ messages' = [messages EXCEPT ![Top.n] = None, ![s] = None]
    BY <1>13 DEF DropNext, In, Running, Top, ForgetBuffers
  <2>2. f \in Frame /\ f.op = "drop" /\ f.lost = Tail(Top.lost) /\ f.n = Top.n /\ s \in Slot
    BY <1>1, <2>1, TopUpdates, TopFields DEF TypeOK
  <2>3. sockets[s] = None /\ Elements(Top.lost) = {s} \cup Elements(f.lost)
    <3>1. Elements(Top.lost) = {s} \cup Elements(f.lost)
      BY <1>2, <2>1, <2>2, ElementsOf
    <3>2. s \in Pending(Top)
      BY <3>1 DEF Pending
    <3>3. QED
      BY <1>1, <1>2, <2>1, <2>2, <3>1, <3>2, PendingClosed DEF OpenSlots, IsOpen
  <2> HIDE DEF f
  <2>4. R \in Seq(Frame) /\ Replaces(R)
    BY <2>1, <2>2, FarewellFields DEF Replaces
  <2>5. /\ \A i \in DOMAIN R : R[i] \in {Call("share", s), Call("cleanup", s), f}
        /\ \E i \in DOMAIN R : R[i] = f
    <3>1. F \in Seq(Frame) /\ \A i \in DOMAIN F : F[i] \in {Call("share", s), Call("cleanup", s)}
      BY <2>2, FarewellFields
    <3> HIDE DEF F
    <3>2. /\ \A i \in DOMAIN R : (i \in DOMAIN F /\ R[i] = F[i]) \/ R[i] = f
          /\ Len(F) + 1 \in DOMAIN R /\ R[Len(F) + 1] = f
      BY <2>2, <3>1
    <3> HIDE DEF R
    <3>3. QED
      BY <3>1, <3>2
  <2> HIDE DEF R, F
  <2>6. \A t \in Slot : IsOpen(t)' = IsOpen(t)
    BY <2>1 DEF IsOpen
  <2>7. IsOpen(Top.n) => Serves(Top.n)
    BY <1>2, <2>1 DEF BufferInv
  <2>8. \A i \in DOMAIN R : R[i].op \in {"share", "drop"} /\ sockets'[R[i].n] # None => Serves(R[i].n)
    <3>1. Call("share", s).n = s /\ Call("cleanup", s).n = s
      BY DEF Call
    <3>2. \A i \in DOMAIN R : R[i].n = s \/ R[i].n = Top.n
      BY <2>2, <2>5, <3>1
    <3>3. sockets'[s] = None /\ (sockets'[Top.n] # None => Serves(Top.n))
      BY <2>1, <2>3, <2>7 DEF IsOpen
    <3>4. QED
      BY <3>2, <3>3
  <2>9. ASSUME NEW t \in Slot
        PROVE  \/ messages'[t] = sockets'[t]
               \/ /\ messages'[t] = messages[t] /\ sockets'[t] = sockets[t]
                  /\ t \in Elements(Top.lost) => \E i \in DOMAIN R : t \in Elements(R[i].lost)
               \/ IsOpen(t)' /\ messages'[t] = None /\ Serves(t)
    <3>1. CASE t = s
      BY <1>1, <1>2, <2>1, <2>2, <2>3, <3>1 DEF TypeOK
    <3>2. CASE t = Top.n /\ t # s
      <4>1. messages'[t] = None /\ sockets'[t] = sockets[t]
        BY <1>1, <1>2, <2>1, <2>2, <3>2 DEF TypeOK
      <4>2. CASE IsOpen(t)
        BY <2>6, <2>7, <3>2, <4>1, <4>2
      <4>3. CASE ~IsOpen(t)
        BY <4>1, <4>3 DEF IsOpen
      <4>4. QED
        BY <4>2, <4>3
    <3>3. CASE t # Top.n /\ t # s
      <4>1. messages'[t] = messages[t] /\ sockets'[t] = sockets[t]
        BY <1>1, <1>2, <2>1, <2>2, <3>3 DEF TypeOK
      <4>2. QED
        BY <2>3, <2>5, <3>3, <4>1
    <3>4. QED
      BY <3>1, <3>2, <3>3
  <2>10. QED
    BY <1>1, <2>1, <2>4, <2>6, <2>8, <2>9, BufferReplace
<1>14. CASE ReplyLose
  <2> DEFINE F == Farewell(Top.n)
  <2>1. /\ stack # <<>> /\ Top.op = "reply" /\ stack' = F \o Tail(stack) /\ pc # "exited"
        /\ sockets' = [sockets EXCEPT ![Top.n] = None]
        /\ messages' = [messages EXCEPT ![Top.n] = None]
    BY <1>14 DEF ReplyLose, In, Running, Top, CloseSlot
  <2>2. F \in Seq(Frame) /\ Replaces(F) /\ \A i \in DOMAIN F : F[i].n = Top.n
    <3>1. F \in Seq(Frame) /\ Replaces(F)
      BY <1>1, <1>2, <2>1, FarewellReplaces
    <3>2. \A i \in DOMAIN F : F[i] \in {Call("share", Top.n), Call("cleanup", Top.n)}
      BY <1>2, <2>1, FarewellFields
    <3>3. QED
      BY <3>1, <3>2 DEF Call
  <2> HIDE DEF F
  <2>3. \A s \in Slot : IF s = Top.n THEN messages'[s] = None /\ sockets'[s] = None
                        ELSE messages'[s] = messages[s] /\ sockets'[s] = sockets[s]
    BY <1>1, <2>1 DEF TypeOK
  <2>4. \A s \in Slot : IsOpen(s)' => IsOpen(s)
    BY <2>3 DEF IsOpen
  <2>5. \A i \in DOMAIN F : sockets'[F[i].n] = None
    BY <1>2, <2>1, <2>2, <2>3
  <2>6. Elements(Top.lost) = {}
    BY <1>1, <2>1, NothingLost
  <2>7. QED
    BY <1>1, <2>1, <2>2, <2>3, <2>4, <2>5, <2>6, BufferReplace
<1>15. QED
  BY <1>3, <1>4, <1>5, <1>6, <1>7, <1>8, <1>9, <1>10, <1>11, <1>12, <1>13, <1>14
     DEF Next, Server, HandleClient, ShowAllStatuses, ShareMessage, Reply

LEMMA BufferInit ==
  ASSUME Init
  PROVE  BufferInv
BY DEF Init, BufferInv

-----------------------------------------------------------------------------
(* NewsInv: every departure is told *)

LEMMA TopNext ==
  ASSUME TypeOK, NEW S \in Seq(Frame), Replaces(S)
  PROVE  /\ S # <<>> => stack' # <<>> /\ Top' = S[1] /\ 1 \in DOMAIN S
         /\ S = <<>> /\ stack' # <<>> => \E j \in DOMAIN stack : j # 1 /\ Top' = stack[j]
<1>1. CASE S # <<>>
  <2>1. 1 \in DOMAIN S
    BY <1>1
  <2>2. 1 \in DOMAIN stack' /\ stack'[1] = S[1]
    BY <2>1, Splice
  <2>3. QED
    BY <1>1, <2>1, <2>2 DEF Top
<1>2. ASSUME S = <<>>, stack' # <<>>
      PROVE  \E j \in DOMAIN stack : j # 1 /\ Top' = stack[j]
  <2>1. Tail(stack) \in Seq(Frame) /\ stack' = Tail(stack)
    BY <1>2, StackType, ConcatEmptySeq DEF Replaces, TypeOK
  <2>2. 1 \in DOMAIN stack' /\ Top' = stack'[1] /\ 1 \notin DOMAIN S
    BY <1>2, <2>1 DEF Top
  <2>3. PICK j \in DOMAIN stack : j # 1 /\ stack'[1] = stack[j]
    BY <2>2, Splice
  <2>4. QED
    BY <2>2, <2>3
<1>3. QED
  BY <1>1, <1>2

\* Unheard in the next state.
UnheardNext(c) == owed'[c] \ garbled'[c]

LEMMA UnheardKept ==
  ASSUME UNCHANGED news
  PROVE  \A c : UnheardNext(c) = Unheard(c)
BY DEF news, Unheard, UnheardNext

\* The innermost call is replaced by the calls S.  What was owed because of a
\* slot to be dropped still is, or S begins to tell it.
LEMMA NewsReplace ==
  ASSUME TypeOK, TypeOK', StackInv, NewsInv, NEW S \in Seq(Frame), Replaces(S), UNCHANGED users,
         \A t \in Slot : sockets'[t] # None => sockets'[t] = sockets[t],
         \A t \in Slot : sockets'[t] # None => \A u \in UnheardNext(sockets[t]) :
           \/ u \in Unheard(sockets[t]) /\ ~Telling(u, t)
           \/ /\ S # <<>> /\ S[1].op = "share" /\ sockets'[S[1].n] = None
              /\ users[S[1].n] = u /\ S[1].ctr <= t
           \/ \E s \in Slot : users[s] = u /\ \E i \in DOMAIN S : s \in Elements(S[i].lost),
         \A s \in Elements(Top.lost) :
           \/ \E i \in DOMAIN S : s \in Elements(S[i].lost)
           \/ users[s] = None
           \/ /\ S # <<>> /\ S[1].op = "share" /\ sockets'[S[1].n] = None
              /\ S[1].n = s /\ S[1].ctr = 1,
         S # <<>> /\ S[1].op = "share" /\ S[1].isuser => sockets'[S[1].n] # None
  PROVE  NewsInv'
<1>1. ASSUME NEW u, NEW t \in Slot,
             S # <<>>, S[1].op = "share", sockets'[S[1].n] = None, users[S[1].n] = u, S[1].ctr <= t
      PROVE  Telling(u, t)'
  BY <1>1, TopNext DEF Telling, IsOpen
<1>2. ASSUME NEW t \in Slot, sockets'[t] # None, NEW u \in UnheardNext(sockets'[t])
      PROVE  Telling(u, t)' \/ \E s \in Slot : Lost(s)' /\ users'[s] = u
  <2>1. sockets[t] = sockets'[t] /\ t \in OpenSlots /\ sockets[t] \in Client /\ u \in Client /\ u # None
    BY <1>2, ClientAssumption DEF OpenSlots, IsOpen, TypeOK, UnheardNext
  <2>2. CASE u \in Unheard(sockets[t]) /\ ~Telling(u, t)
    <3>1. PICK s \in Slot : Lost(s) /\ users[s] = u
      BY <2>1, <2>2 DEF NewsInv
    <3>2. CASE s \in Elements(Top.lost) => \E i \in DOMAIN S : s \in Elements(S[i].lost)
      BY <3>1, <3>2, LostReplace
    <3>3. CASE S # <<>> /\ S[1].op = "share" /\ sockets'[S[1].n] = None /\ S[1].n = s /\ S[1].ctr = 1
      <4>1. S[1].ctr <= t
        BY <3>3, BoundsAssumption DEF Slot
      <4>2. QED
        BY <1>1, <3>1, <3>3, <4>1
    <3>4. QED
      BY <2>1, <3>1, <3>2, <3>3
  <2>3. CASE /\ S # <<>> /\ S[1].op = "share" /\ sockets'[S[1].n] = None
             /\ users[S[1].n] = u /\ S[1].ctr <= t
    BY <1>1, <2>3
  <2>4. CASE \E s \in Slot : users[s] = u /\ \E i \in DOMAIN S : s \in Elements(S[i].lost)
    BY <2>4, LostHere
  <2>5. QED
    BY <1>2, <2>1, <2>2, <2>3, <2>4
<1>3. stack' # <<>> /\ Top'.op = "share" /\ Top'.isuser => sockets'[Top'.n] # None
  <2>1. CASE S # <<>>
    BY <2>1, TopNext
  <2>2. CASE S = <<>>
    <3>1. \A j \in DOMAIN stack : stack[j].op = "share" => j = 1
      BY DEF StackInv
    <3>2. QED
      BY <2>2, <3>1, TopNext
  <2>3. QED
    BY <2>1, <2>2
<1>4. QED
  BY <1>2, <1>3 DEF NewsInv, OpenSlots, IsOpen, Unheard, UnheardNext

LEMMA NewsKept ==
  ASSUME NewsInv, UNCHANGED <<stack, users, sockets, news>>
  PROVE  NewsInv'
BY DEF NewsInv, OpenSlots, IsOpen, Telling, Top, Lost, Elements, Unheard, news

\* Between events, and before a line is handled, nothing is owed.
LEMMA NothingOwed ==
  ASSUME TypeOK, StackInv, NewsInv, stack = <<>> \/ In("client")
  PROVE  \A t \in OpenSlots : Unheard(sockets[t]) = {}
<1>1. \A u, t : ~Telling(u, t)
  BY DEF Telling, In, Top
<1>2. \A s : ~Lost(s)
  <2>1. CASE stack = <<>>
    BY <2>1 DEF Lost
  <2>2. CASE In("client")
    <3>1. DOMAIN stack = {1} /\ stack[1] = Top /\ Top.lost = <<>>
      BY <2>2, ClientAlone DEF In, Top
    <3>2. QED
      BY <3>1 DEF Lost, Elements
  <2>3. QED
    BY <2>1, <2>2
<1>3. QED
  BY <1>1, <1>2 DEF NewsInv

\* So it is after a step that closes no slot.
LEMMA NewsAbsent ==
  ASSUME \A t \in Slot : sockets'[t] # None => UnheardNext(sockets'[t]) = {},
         stack' = <<>> \/ Top'.op # "share" \/ ~Top'.isuser \/ sockets'[Top'.n] # None
  PROVE  NewsInv'
BY DEF NewsInv, OpenSlots, IsOpen, Unheard, UnheardNext

\* Closing a slot owes the others the departure of its user, and nothing else.
LEMMA CloseOwes ==
  ASSUME TypeOK, NEW s \in Slot, CloseSlot(s)
  PROVE  /\ sockets'[s] = None
         /\ \A t \in Slot : sockets'[t] # None =>
              /\ t # s
              /\ sockets'[t] = sockets[t]
              /\ \A u \in UnheardNext(sockets[t]) : u \in Unheard(sockets[t]) \/ (users[s] # None /\ u = users[s])
BY DEF CloseSlot, OweDeparture, TypeOK, Unheard, UnheardNext

\* The loop goes on, or ends, after a slot that is not told anything now.
LEMMA NewsContinue ==
  ASSUME TypeOK, TypeOK', StackInv, NewsInv, In("share"), UNCHANGED <<users, sockets>>,
         NEW f \in Frame, Continue(f), f.n = Top.n, f.lost = Top.lost, f.isuser = Top.isuser,
         \A t \in OpenSlots : UnheardNext(sockets[t]) \subseteq Unheard(sockets[t]),
         \A t \in OpenSlots : \A u \in UnheardNext(sockets[t]) :
           Telling(u, t) => f.op = "share" /\ f.ctr <= t
  PROVE  NewsInv'
<1> DEFINE S == <<f>>
<1>1. stack # <<>> /\ Top.op = "share"
  BY DEF In, Top
<1>2. S \in Seq(Frame) /\ Replaces(S) /\ DOMAIN S = {1} /\ S[1] = f /\ S # <<>>
  BY <1>1, ContinueReplaces
<1> HIDE DEF S
<1>3. ASSUME NEW t \in Slot, sockets'[t] # None, NEW u \in UnheardNext(sockets[t])
      PROVE  \/ u \in Unheard(sockets[t]) /\ ~Telling(u, t)
             \/ f.op = "share" /\ sockets'[f.n] = None /\ users[f.n] = u /\ f.ctr <= t
  <2>1. t \in OpenSlots /\ u \in Unheard(sockets[t])
    BY <1>3 DEF OpenSlots, IsOpen
  <2>2. CASE Telling(u, t)
    <3>1. users[f.n] = u /\ sockets[f.n] = None
      BY <2>2 DEF Telling, IsOpen
    <3>2. QED
      BY <2>1, <2>2, <3>1
  <2>3. QED
    BY <2>1, <2>2
<1>4. f.isuser => sockets'[f.n] # None
  BY <1>1 DEF NewsInv, IsOpen
<1>5. QED
  BY <1>2, <1>3, <1>4, NewsReplace

\* A share_message that has counted every open slot has told them all.
LEMMA DoneTold ==
  ASSUME IInv, ShareDone
  PROVE  \A u, t : t \in OpenSlots => ~Telling(u, t)
<1>1. TypeOK /\ ShareCount /\ In("share") /\ Top.count >= socket_total
  BY DEF IInv, TypeInv, CountInv, ShareDone
<1>2. Top.ctr \in Nat /\ Top.count \in Nat /\ socket_total \in Int
  BY <1>1, StackType DEF TypeOK, In
<1>3. socket_total = Top.count + Cardinality(Ahead)
  BY <1>1 DEF ShareCount
<1>4. IsFiniteSet(Ahead)
  BY <1>1, OpenFinite
<1>5. Cardinality(Ahead) \in Nat /\ (Cardinality(Ahead) = 0 <=> Ahead = {})
  BY <1>4, FS_CardinalityType, FS_EmptySet
<1>6. Ahead = {}
  BY <1>1, <1>2, <1>3, <1>5
<1>7. ASSUME NEW u, NEW t \in OpenSlots, Telling(u, t)
      PROVE  FALSE
  <2>1. t >= Top.ctr
    BY <1>2, <1>7 DEF Telling, OpenSlots, Slot
  <2>2. QED
    BY <1>6, <2>1 DEF Ahead
<1>8. QED
  BY <1>7

LEMMA NewsStep ==
  ASSUME IInv, IInv', BufferInv, NewsInv, NewcomerInv, [Next]_vars
  PROVE  NewsInv'
<1> USE DEF table, heap, scanning, network, news
<1>1. TypeOK /\ StackInv /\ TableInv /\ TypeOK' /\ StackInv'
  BY DEF IInv, TypeInv
<1>2. stack # <<>> =>
        Top.n \in Slot /\ Top.lost \in Seq(Slot) /\ Top \in Frame /\ 1 \in DOMAIN stack /\ stack[1] = Top
        /\ Top.ctr \in Nat
  BY <1>1, StackType DEF TypeOK, Top
<1>3. CASE UNCHANGED vars \/ Clients \/ Select
  BY <1>3, NewsKept DEF vars, Clients, Connect, Send, Hangup, Select
<1>4. CASE Scan
  <2>1. CASE ScanListener \/ SkipSlot \/ ScanDone \/ ScanOverrun
    BY <2>1, NewsKept DEF ScanListener, SkipSlot, ScanDone, ScanOverrun, AtSlot, Running, End
  <2>2. CASE EstablishConnection \/ ReceiveLines
    <3>1. stack = <<>>
      BY <2>2 DEF EstablishConnection, ReceiveLines, AtSlot
    <3>2. \A t \in OpenSlots : Unheard(sockets[t]) = {}
      BY <1>1, <3>1, NothingOwed
    <3>3. \A t \in Slot : sockets'[t] # None => UnheardNext(sockets'[t]) = {}
      <4>1. CASE ReceiveLines
        BY <3>2, <4>1, UnheardKept DEF ReceiveLines, OpenSlots, IsOpen
      <4>2. CASE EstablishConnection
        <5>1. PICK s \in Slot : FillSlot(s, Head(backlog))
          BY <4>2 DEF EstablishConnection
        <5>2. backlog # <<>>
          BY <4>2 DEF EstablishConnection, AtSlot, IInv, TypeInv, AcceptReady, Running
        <5>3. Head(backlog) = backlog[1] /\ 1 \in DOMAIN backlog
          BY <1>1, <5>2 DEF TypeOK
        <5>4. owed[Head(backlog)] = {} /\ UNCHANGED news
          BY <4>2, <5>3 DEF EstablishConnection, NewcomerInv
        <5>5. /\ \A c : UnheardNext(c) = Unheard(c)
              /\ Unheard(Head(backlog)) = {}
          BY <5>4, UnheardKept DEF Unheard
        <5>6. QED
          BY <1>1, <3>2, <5>1, <5>5 DEF FillSlot, OpenSlots, IsOpen, TypeOK
      <4>3. QED
        BY <2>2, <4>1, <4>2
    <3>4. stack' = <<>> \/ Top'.op # "share"
      <4>1. CASE EstablishConnection
        BY <3>1, <4>1 DEF EstablishConnection
      <4>2. CASE ReceiveLines
        BY <4>2 DEF ReceiveLines, Top, Call
      <4>3. QED
        BY <2>2, <4>1, <4>2
    <3>5. QED
      BY <3>3, <3>4, NewsAbsent
  <2>3. CASE ReceiveEnd
    <3>1. /\ stack = <<>> /\ n \in Slot /\ CloseSlot(n) /\ stack' = Farewell(n) /\ UNCHANGED users
      BY <2>3 DEF ReceiveEnd, AtSlot
    <3>2. \A t \in OpenSlots : Unheard(sockets[t]) = {}
      BY <1>1, <3>1, NothingOwed
    <3>3. /\ sockets'[n] = None
          /\ \A t \in Slot : sockets'[t] # None =>
               \A u \in UnheardNext(sockets'[t]) : users[n] # None /\ u = users[n]
      BY <1>1, <3>1, <3>2, CloseOwes DEF OpenSlots, IsOpen
    <3>4. CASE users[n] = None
      <4>1. stack' = <<>>
        BY <3>1, <3>4 DEF Farewell
      <4>2. QED
        BY <3>3, <3>4, <4>1, NewsAbsent
    <3>5. CASE users[n] # None
      <4>1. stack' = <<Call("share", n), Call("cleanup", n)>>
        BY <3>1, <3>5 DEF Farewell
      <4>2. stack' # <<>> /\ Top' = Call("share", n)
        BY <4>1 DEF Top
      <4>3. Top'.op = "share" /\ Top'.n = n /\ Top'.ctr = 1 /\ Top'.isuser = FALSE
        BY <4>2 DEF Call
      <4>4. ASSUME NEW t \in Slot, sockets'[t] # None, NEW u \in UnheardNext(sockets'[t])
            PROVE  Telling(u, t)'
        <5>1. u = users[n] /\ Top'.ctr <= t
          BY <3>3, <4>3, <4>4, BoundsAssumption DEF Slot
        <5>2. QED
          BY <3>1, <3>3, <4>2, <4>3, <5>1 DEF Telling, IsOpen
      <4>5. QED
        BY <4>3, <4>4 DEF NewsInv, OpenSlots, IsOpen, Unheard, UnheardNext
    <3>6. QED
      BY <3>4, <3>5
  <2>4. QED
    BY <1>4, <2>1, <2>2, <2>3 DEF Scan
<1>5. CASE \/ BufferGone \/ LookupNullUser \/ SortNullUser \/ ListFreedUser \/ ShareNullUser
           \/ SharePipe \/ ReplyPipe \/ MuteListFull
  BY <1>5, NewsKept DEF BufferGone, LookupNullUser, SortNullUser, ListFreedUser, ShareNullUser,
       SharePipe, ReplyPipe, MuteListFull, End
<1>6. CASE Join \/ ShareUserMessage \/ AnswerSender \/ NotifyAll \/ HandleServerExit \/ SortUsers \/ ClientDone
  <2>1. In("client") /\ stack # <<>> /\ Top.op = "client"
    BY <1>6 DEF Join, ShareUserMessage, AnswerSender, NotifyAll, HandleServerExit, SortUsers, ClientDone,
         Command, In, Top
  <2>2. \A t \in OpenSlots : Unheard(sockets[t]) = {}
    BY <1>1, <2>1, NothingOwed
  <2>3. \A t \in Slot : sockets'[t] # None => UnheardNext(sockets'[t]) = {}
    <3>1. CASE SortUsers
      <4>1. PICK q \in Arrangements : MoveSlots(q)
        BY <3>1 DEF SortUsers
      <4>2. q \in [Slot -> Slot]
        BY <4>1 DEF Arrangements
      <4>3. \A c : UnheardNext(c) = Unheard(c)
        BY <3>1, UnheardKept DEF SortUsers
      <4>4. QED
        BY <2>2, <4>1, <4>2, <4>3 DEF MoveSlots, OpenSlots, IsOpen
    <3>2. CASE HandleServerExit
      BY <3>2 DEF HandleServerExit
    <3>3. CASE Join \/ ShareUserMessage \/ AnswerSender \/ NotifyAll \/ ClientDone
      BY <2>2, <3>3, UnheardKept DEF Join, ShareUserMessage, AnswerSender, NotifyAll, ClientDone, OpenSlots, IsOpen
    <3>4. QED
      BY <1>6, <3>1, <3>2, <3>3
  <2>4. stack' = <<>> \/ Top'.op # "share" \/ ~Top'.isuser \/ sockets'[Top'.n] # None
    <3>1. CASE ClientDone
      BY <1>1, <2>1, <3>1, ClientAlone DEF ClientDone, Return
    <3>2. CASE HandleServerExit
      BY <2>1, <3>2 DEF HandleServerExit, Top
    <3>3. CASE Join \/ ShareUserMessage \/ AnswerSender \/ NotifyAll \/ SortUsers
      <4>1. PICK S \in Seq(Frame) :
              /\ stack' = S \o stack
              /\ \A i \in DOMAIN S :
                   /\ S[i].op \in {"share", "reply", "list"}
                   /\ S[i].op = "share" => S[i].n = Top.n /\ (S[i].isuser => ShareUserMessage)
        BY <1>1, <2>1, <3>3, CommandPushes
      <4> DEFINE R == S \o <<Top>>
      <4>2. /\ R \in Seq(Frame) /\ Replaces(R) /\ Len(R) = Len(S) + 1
            /\ \A i \in DOMAIN R : (i \in DOMAIN S /\ R[i] = S[i]) \/ R[i] = Top
        BY <1>1, <2>1, <4>1, PushReplaces
      <4> HIDE DEF R
      <4>3. Len(S) \in Nat
        BY <4>1
      <4>4. R # <<>>
        BY <4>2, <4>3
      <4>5. Top' = R[1] /\ 1 \in DOMAIN R
        BY <1>1, <4>2, <4>4, TopNext
      <4>6. Top'.op = "share" => Top'.n = Top.n /\ (Top'.isuser => ShareUserMessage)
        BY <2>1, <4>1, <4>2, <4>5
      <4>7. ASSUME ShareUserMessage
            PROVE  sockets'[Top.n] # None
        <5>1. messages[Top.n] # None /\ pc # "exited" /\ UNCHANGED sockets
          BY <4>7 DEF ShareUserMessage, Command, HasLine, In, Running
        <5>2. messages[Top.n] = sockets[Top.n]
          BY <1>1, <1>2, <2>1, <5>1, BuffersAgree
        <5>3. QED
          BY <5>1, <5>2
      <4>8. QED
        BY <4>6, <4>7
    <3>4. QED
      BY <1>6, <3>1, <3>2, <3>3
  <2>5. QED
    BY <2>3, <2>4, NewsAbsent
<1>7. CASE ListDone \/ DropDone \/ ReplyClosed \/ ReplyDeliver \/ CleanupUser
  <2>1. /\ stack # <<>> /\ Return /\ UNCHANGED <<users, sockets, news>>
        /\ Top.op \in {"reply", "cleanup", "list"} \/ (Top.op = "drop" /\ Top.lost = <<>>)
    BY <1>7 DEF ListDone, DropDone, ReplyClosed, ReplyDeliver, CleanupUser, In, Top
  <2> DEFINE S == <<>>
  <2>2. S \in Seq(Frame) /\ Replaces(S) /\ S = <<>>
    BY <1>1, <2>1, ReturnReplaces
  <2> HIDE DEF S
  <2>3. Elements(Top.lost) = {} /\ \A u, t : ~Telling(u, t)
    BY <1>1, <2>1, NothingLost DEF Telling
  <2>4. QED
    BY <1>1, <2>1, <2>2, <2>3, UnheardKept, NewsReplace
<1>8. CASE OutputUserStatus
  <2> DEFINE f == Call("reply", Top.n)
             g == [Top EXCEPT !.ctr = @ + 1]
             S == <<f, g>>
  <2>1. /\ stack # <<>> /\ Top.op = "list" /\ stack' = <<f, g>> \o Tail(stack)
        /\ UNCHANGED <<users, sockets, news>>
    BY <1>8 DEF OutputUserStatus, In, Top
  <2>2. f \in Frame /\ f.op = "reply" /\ g \in Frame
    BY <1>1, <1>2, <2>1, CallType, TopUpdates DEF TypeOK, Call
  <2> HIDE DEF f, g
  <2>3. S \in Seq(Frame) /\ Replaces(S) /\ S[1] = f
    BY <2>1, <2>2 DEF Replaces
  <2> HIDE DEF S
  <2>4. Elements(Top.lost) = {} /\ \A u, t : ~Telling(u, t)
    BY <1>1, <2>1, NothingLost DEF Telling
  <2>5. QED
    BY <1>1, <2>1, <2>2, <2>3, <2>4, UnheardKept, NewsReplace
<1>9. CASE ShareSkipEmpty
  <2>1. /\ In("share") /\ UNCHANGED <<users, sockets, news>> /\ Continue([Top EXCEPT !.ctr = @ + 1])
        /\ stack # <<>> /\ Top.op = "share" /\ ~IsOpen(Top.ctr)
    BY <1>9 DEF ShareSkipEmpty, Sharing, In, Top
  <2> DEFINE f == [Top EXCEPT !.ctr = @ + 1]
  <2>2. /\ f \in Frame /\ f.n = Top.n /\ f.lost = Top.lost /\ f.isuser = Top.isuser /\ f.op = "share"
        /\ f.ctr = Top.ctr + 1 /\ Continue(f)
    BY <1>1, <2>1, TopUpdates, TopFields DEF TypeOK
  <2> HIDE DEF f
  <2>3. \A t \in OpenSlots : \A u : Telling(u, t) => f.ctr <= t
    BY <1>2, <2>1, <2>2 DEF Telling, OpenSlots, Slot
  <2>4. QED
    BY <1>1, <2>1, <2>2, <2>3, UnheardKept, NewsContinue
<1>10. CASE ShareSkip \/ ShareDeliver
  <2>1. /\ In("share") /\ UNCHANGED <<users, sockets>> /\ Continue(NextReceiver) /\ Sharing
        /\ stack # <<>> /\ Top.op = "share" /\ Top.ctr \in OpenSlots
    BY <1>10 DEF ShareSkip, ShareDeliver, AtReceiver, AtOther, Sharing, In, Top, OpenSlots
  <2> DEFINE f == NextReceiver
  <2>2. /\ f \in Frame /\ f.n = Top.n /\ f.lost = Top.lost /\ f.isuser = Top.isuser /\ f.op = "share"
        /\ f.ctr = Top.ctr + 1 /\ Continue(f)
    BY <1>1, <2>1, TopUpdates, TopFields DEF TypeOK
  <2> HIDE DEF f
  <2>3. \A t \in OpenSlots : UnheardNext(sockets[t]) \subseteq Unheard(sockets[t])
    <3>1. CASE ShareSkip
      BY <3>1, UnheardKept DEF ShareSkip
    <3>2. CASE ShareDeliver
      <4>1. Tell(sockets[Top.ctr]) /\ sockets[Top.ctr] \in Client /\ Top.n \in Slot
        BY <1>1, <1>2, <2>1, <3>2 DEF ShareDeliver, OpenSlots, IsOpen, TypeOK
      <4>2. \A d \in Client : owed'[d] \subseteq owed[d] /\ garbled[d] \subseteq garbled'[d]
        BY <1>1, <4>1, TellType
      <4>3. \A d \in Client : UnheardNext(d) \subseteq Unheard(d)
        BY <4>2 DEF Unheard, UnheardNext
      <4>4. QED
        BY <1>1, <4>3 DEF OpenSlots, IsOpen, TypeOK
    <3>3. QED
      BY <1>10, <3>1, <3>2
  <2>4. ASSUME NEW t \in OpenSlots, NEW u \in UnheardNext(sockets[t]), Telling(u, t)
        PROVE  f.ctr <= t
    <3>1. Top.ctr <= t /\ users[Top.n] = u /\ ~IsOpen(Top.n) /\ t \in Nat
      BY <2>4 DEF Telling, OpenSlots, Slot
    <3>2. t # Top.ctr
      <4>1. CASE ShareSkip
        BY <2>1, <3>1, <4>1 DEF ShareSkip, NewsInv, OpenSlots
      <4>2. CASE ShareDeliver
        <5>1. sockets[Top.ctr] \in Client
          BY <1>1, <2>1 DEF OpenSlots, IsOpen, TypeOK
        <5>2. \/ owed' = [owed EXCEPT ![sockets[Top.ctr]] = @ \ {users[Top.n]}]
              \/ garbled' = [garbled EXCEPT ![sockets[Top.ctr]] = @ \cup {users[Top.n]}]
          BY <3>1, <4>2 DEF ShareDeliver, Tell
        <5>3. u \notin UnheardNext(sockets[Top.ctr])
          BY <1>1, <3>1, <5>1, <5>2 DEF TypeOK, UnheardNext
        <5>4. QED
          BY <2>4, <5>3
      <4>3. QED
        BY <1>10, <4>1, <4>2
    <3>3. QED
      BY <1>2, <2>1, <2>2, <3>1, <3>2
  <2>5. QED
    BY <1>1, <2>1, <2>2, <2>3, <2>4, NewsContinue
<1>11. CASE ShareDone
  <2>1. /\ In("share") /\ UNCHANGED <<users, sockets, news>> /\ stack # <<>>
        /\ Continue([Top EXCEPT !.op = "drop"])
    BY <1>11 DEF ShareDone, In
  <2> DEFINE f == [Top EXCEPT !.op = "drop"]
  <2>2. f \in Frame /\ f.n = Top.n /\ f.lost = Top.lost /\ f.isuser = Top.isuser /\ Continue(f)
    <3>1. f.isuser = Top.isuser
      BY <1>2, <2>1 DEF Frame
    <3>2. QED
      BY <1>1, <2>1, <3>1, TopUpdates, TopFields DEF TypeOK
  <2> HIDE DEF f
  <2>3. QED
    BY <1>1, <1>11, <2>1, <2>2, DoneTold, UnheardKept, NewsContinue
<1>12. CASE ShareLose
  <2> DEFINE f == [NextReceiver EXCEPT !.lost = Append(@, Top.ctr)]
             S == <<f>>
  <2>1. /\ stack # <<>> /\ Top.op = "share" /\ Top.ctr \in Slot /\ Continue(f) /\ UNCHANGED users
        /\ CloseSlot(Top.ctr) /\ Top.ctr # Top.n /\ sockets' = [sockets EXCEPT ![Top.ctr] = None]
    BY <1>12 DEF ShareLose, AtReceiver, AtOther, Sharing, In, Top, CloseSlot
  <2>2. /\ f \in Frame /\ f.op = "share" /\ f.lost = Append(Top.lost, Top.ctr) /\ f.n = Top.n
        /\ f.ctr = Top.ctr + 1 /\ f.isuser = Top.isuser
    BY <1>1, <2>1, TopUpdates, TopFields DEF TypeOK
  <2> HIDE DEF f
  <2>3. Elements(f.lost) = Elements(Top.lost) \cup {Top.ctr}
    BY <1>2, <2>1, <2>2, ElementsOf
  <2>4. S \in Seq(Frame) /\ Replaces(S) /\ DOMAIN S = {1} /\ S[1] = f /\ S # <<>>
    BY <1>1, <2>1, <2>2, ContinueReplaces
  <2> HIDE DEF S
  <2>5. sockets'[Top.n] = sockets[Top.n]
    BY <1>1, <1>2, <2>1 DEF TypeOK
  <2>6. \A t \in Slot : sockets'[t] # None =>
          /\ t # Top.ctr
          /\ sockets'[t] = sockets[t]
          /\ \A u \in UnheardNext(sockets[t]) : u \in Unheard(sockets[t]) \/ u = users[Top.ctr]
    BY <1>1, <2>1, CloseOwes
  <2>7. ASSUME NEW t \in Slot, sockets'[t] # None, NEW u \in UnheardNext(sockets[t])
        PROVE  \/ u \in Unheard(sockets[t]) /\ ~Telling(u, t)
               \/ sockets'[f.n] = None /\ users[f.n] = u /\ f.ctr <= t
               \/ \E s \in Slot : users[s] = u /\ s \in Elements(f.lost)
    <3>1. CASE u = users[Top.ctr]
      BY <2>1, <2>3, <3>1
    <3>2. CASE u \in Unheard(sockets[t]) /\ Telling(u, t)
      <4>1. sockets'[f.n] = None /\ users[f.n] = u /\ Top.ctr <= t
        BY <2>2, <2>5, <3>2 DEF Telling, IsOpen
      <4>2. t # Top.ctr /\ t \in Nat
        BY <2>6, <2>7 DEF Slot
      <4>3. QED
        BY <1>2, <2>1, <2>2, <4>1, <4>2
    <3>3. QED
      BY <2>6, <2>7, <3>1, <3>2
  <2>8. f.isuser => sockets'[f.n] # None
    BY <2>1, <2>2, <2>5 DEF NewsInv, IsOpen
  <2>9. \A t \in Slot : sockets'[t] # None => \A u \in UnheardNext(sockets[t]) :
          \/ u \in Unheard(sockets[t]) /\ ~Telling(u, t)
          \/ /\ S # <<>> /\ S[1].op = "share" /\ sockets'[S[1].n] = None
             /\ users[S[1].n] = u /\ S[1].ctr <= t
          \/ \E s \in Slot : users[s] = u /\ \E i \in DOMAIN S : s \in Elements(S[i].lost)
    BY <2>2, <2>4, <2>7
  <2>10. \A s \in Elements(Top.lost) : \E i \in DOMAIN S : s \in Elements(S[i].lost)
    BY <2>3, <2>4
  <2>11. S # <<>> /\ S[1].op = "share" /\ S[1].isuser => sockets'[S[1].n] # None
    BY <2>4, <2>8
  <2>12. \A t \in Slot : sockets'[t] # None => sockets'[t] = sockets[t]
    BY <2>6
  <2>13. QED
    BY <1>1, <2>1, <2>4, <2>9, <2>10, <2>11, <2>12, NewsReplace
<1>13. CASE DropNext
  <2> DEFINE s == Head(Top.lost)
             f == [Top EXCEPT !.lost = Tail(@)]
             F == Farewell(s)
             R == F \o <<f>>
  <2>1. /\ stack # <<>> /\ Top.op = "drop" /\ Top.lost # <<>>
        /\ stack' = F \o <<f>> \o Tail(stack) /\ UNCHANGED <<sockets, users, news>>
    BY <1>13 DEF DropNext, In, Top
  <2>2. f \in Frame /\ f.op = "drop" /\ f.lost = Tail(Top.lost) /\ s \in Slot
    BY <1>1, <2>1, TopUpdates, TopFields DEF TypeOK
  <2>3. sockets[s] = None /\ Elements(Top.lost) = {s} \cup Elements(f.lost)
    <3>1. Elements(Top.lost) = {s} \cup Elements(f.lost)
      BY <1>2, <2>1, <2>2, ElementsOf
    <3>2. s \in Pending(Top)
      BY <3>1 DEF Pending
    <3>3. QED
      BY <1>1, <1>2, <2>1, <2>2, <3>1, <3>2, PendingClosed DEF OpenSlots, IsOpen
  <2> HIDE DEF f
  <2>4. R \in Seq(Frame) /\ Replaces(R)
    BY <2>1, <2>2, FarewellFields DEF Replaces
  <2>5. \A u, t : ~Telling(u, t)
    BY <2>1 DEF Telling
  <2>6. /\ \E i \in DOMAIN R : R[i] = f
        /\ users[s] # None => R # <<>> /\ R[1] = Call("share", s)
        /\ users[s] = None => R = <<f>>
    <3>1. /\ F \in Seq(Frame)
          /\ users[s] = None => F = <<>>
          /\ users[s] # None => DOMAIN F = {1, 2} /\ F[1] = Call("share", s)
      BY <2>2, FarewellFields
    <3> HIDE DEF F
    <3>2. Len(F) + 1 \in DOMAIN R /\ R[Len(F) + 1] = f /\ \A i \in DOMAIN F : i \in DOMAIN R /\ R[i] = F[i]
      BY <2>2, <3>1
    <3>3. users[s] = None => R = <<f>>
      BY <2>2, <3>1, ConcatEmptySeq
    <3> HIDE DEF R
    <3>4. QED
      BY <2>4, <3>1, <3>2, <3>3
  <2> HIDE DEF R
  <2>7. /\ Call("share", s).op = "share" /\ Call("share", s).n = s /\ Call("share", s).ctr = 1
        /\ Call("share", s).isuser = FALSE
    BY DEF Call
  <2>8. \A x \in Elements(Top.lost) :
          \/ \E i \in DOMAIN R : x \in Elements(R[i].lost)
          \/ users[x] = None
          \/ /\ R # <<>> /\ R[1].op = "share" /\ sockets'[R[1].n] = None
             /\ R[1].n = x /\ R[1].ctr = 1
    BY <2>1, <2>3, <2>6, <2>7
  <2>9. R # <<>> /\ R[1].op = "share" => ~R[1].isuser
    BY <2>2, <2>6, <2>7
  <2>10. QED
    BY <1>1, <2>1, <2>4, <2>5, <2>8, <2>9, UnheardKept, NewsReplace
<1>14. CASE ReplyLose
  <2> DEFINE F == Farewell(Top.n)
  <2>1. /\ stack # <<>> /\ Top.op = "reply" /\ stack' = F \o Tail(stack)
        /\ CloseSlot(Top.n) /\ UNCHANGED users
    BY <1>14 DEF ReplyLose, In, Top
  <2>2. F \in Seq(Frame) /\ Replaces(F)
    BY <1>1, <1>2, <2>1, FarewellReplaces
  <2>3. users[Top.n] = None => F = <<>>
    BY DEF Farewell
  <2>4. users[Top.n] # None => F # <<>> /\ F[1] = Call("share", Top.n)
    BY DEF Farewell
  <2> HIDE DEF F
  <2>5. /\ Call("share", Top.n).op = "share" /\ Call("share", Top.n).n = Top.n
        /\ Call("share", Top.n).ctr = 1 /\ Call("share", Top.n).isuser = FALSE
    BY DEF Call
  <2>6. Elements(Top.lost) = {} /\ \A u, t : ~Telling(u, t)
    BY <1>1, <2>1, NothingLost DEF Telling
  <2>7. /\ sockets'[Top.n] = None
        /\ \A t \in Slot : sockets'[t] # None =>
             /\ sockets'[t] = sockets[t] /\ 1 <= t
             /\ \A u \in UnheardNext(sockets[t]) :
                  u \in Unheard(sockets[t]) \/ (users[Top.n] # None /\ u = users[Top.n])
    <3>1. \A t \in Slot : 1 <= t
      BY BoundsAssumption DEF Slot
    <3>2. Top.n \in Slot /\ CloseSlot(Top.n)
      BY <1>2, <2>1
    <3>3. QED
      BY <1>1, <3>1, <3>2, CloseOwes
  <2>8. QED
    BY <1>1, <2>1, <2>2, <2>3, <2>4, <2>5, <2>6, <2>7, NewsReplace
<1>15. CASE ShareStall
  <2> DEFINE f == [Top EXCEPT !.early = TRUE]
  <2>1. /\ In("share") /\ UNCHANGED <<users, sockets, news>> /\ Continue(f)
        /\ stack # <<>> /\ Top.op = "share"
    BY <1>15 DEF ShareStall, AtReceiver, AtOther, Sharing, In, Top
  <2>2. /\ f \in Frame /\ f.n = Top.n /\ f.lost = Top.lost /\ f.isuser = Top.isuser /\ f.op = "share"
        /\ f.ctr = Top.ctr
    BY <1>1, <2>1, TopUpdates, TopFields DEF TypeOK
  <2> HIDE DEF f
  <2>3. \A t \in OpenSlots : \A u : Telling(u, t) => f.ctr <= t
    BY <2>2 DEF Telling
  <2>4. QED
    BY <1>1, <2>1, <2>2, <2>3, UnheardKept, NewsContinue
<1>16. QED
  BY <1>3, <1>4, <1>5, <1>6, <1>7, <1>8, <1>9, <1>10, <1>11, <1>12, <1>13, <1>14, <1>15
     DEF Next, Server, HandleClient, ShowAllStatuses, ShareMessage, Reply

LEMMA NewsInit ==
  ASSUME Init
  PROVE  NewsInv
BY DEF Init, NewsInv, OpenSlots, IsOpen

-----------------------------------------------------------------------------
(***************************************************************************)
(* Part 5: sessions                                                        *)
(***************************************************************************)

-----------------------------------------------------------------------------
(* What a step can do to the sessions of the clients *)

\* Nobody comes, joins or leaves; the server may come to its end.
Quiet ==
  /\ UNCHANGED <<sockets, users, backlog>>
  /\ \A c \in Client :
       /\ owed'[c] \subseteq owed[c]
       /\ peer'[c] = "idle" => peer[c] = "idle"
       /\ peer'[c] = "gone" <=> peer[c] = "gone"
  /\ pc \in Ended => pc' \in Ended

\* The connection of slot s is closed.
Closes(s) ==
  /\ s \in OpenSlots /\ CloseSlot(s)
  /\ UNCHANGED <<users, backlog, pc>>
  /\ pc \notin Ended

LEMMA QuietKept ==
  ASSUME UNCHANGED <<sockets, users, backlog, owed, peer>>, pc \in Ended => pc' \in Ended
  PROVE  Quiet
BY DEF Quiet

LEMMA QuietDelivery ==
  ASSUME TypeOK, NEW c \in Client, NEW after, WriteOutcome(c, "sent", after),
         peer' = [peer EXCEPT ![c] = after],
         UNCHANGED <<sockets, users, backlog, pc>>,
         \A d \in Client : owed'[d] \subseteq owed[d]
  PROVE  Quiet
<1>1. peer[c] \in {"up", "fin"} /\ after \in {"up", "fin", "dead"}
  BY DEF WriteOutcome
<1>2. \A d \in Client : peer'[d] = IF d = c THEN after ELSE peer[d]
  BY DEF TypeOK
<1>3. QED
  BY <1>1, <1>2 DEF Quiet

LEMMA StepKinds ==
  ASSUME TypeOK, [Next]_vars
  PROVE  \/ EstablishConnection \/ Join \/ HandleServerExit \/ SortUsers \/ Quiet
         \/ \E s \in Slot : Closes(s)
         \/ \E c \in Client : Connect(c)
<1> USE DEF table, heap, scanning, network, news
<1>1. CASE UNCHANGED vars \/ Select \/ ScanListener \/ SkipSlot \/ ReceiveLines \/ ScanDone
  BY <1>1, QuietKept DEF vars, Select, ScanListener, SkipSlot, ReceiveLines, ScanDone, AtSlot, Running, Ended
<1>2. CASE ScanOverrun \/ BufferGone \/ LookupNullUser \/ SortNullUser
           \/ ListFreedUser \/ ShareNullUser \/ SharePipe \/ ReplyPipe
  BY <1>2, QuietKept DEF ScanOverrun, BufferGone, LookupNullUser, SortNullUser,
       ListFreedUser, ShareNullUser, SharePipe, ReplyPipe, End, Ended
<1>3. CASE ClientDone \/ ShareUserMessage \/ AnswerSender \/ MuteListFull \/ NotifyAll
           \/ OutputUserStatus \/ ListDone \/ CleanupUser \/ ReplyClosed
  BY <1>3, QuietKept DEF ClientDone, ShareUserMessage, AnswerSender, MuteListFull, NotifyAll,
       OutputUserStatus, ListDone, CleanupUser, ReplyClosed
<1>4. CASE ShareSkipEmpty \/ ShareSkip \/ ShareStall \/ ShareDone \/ DropNext \/ DropDone
  BY <1>4, QuietKept DEF ShareSkipEmpty, ShareSkip, ShareStall, ShareDone, DropNext, DropDone
<1>5. CASE ReceiveEnd
  BY <1>5 DEF ReceiveEnd, AtSlot, Running, Ended, Closes, OpenSlots
<1>6. CASE ShareLose
  BY <1>6 DEF ShareLose, AtReceiver, AtOther, Sharing, In, Running, Ended, Closes, OpenSlots
<1>7. CASE ReplyLose
  <2>1. Top.n \in Slot
    BY <1>7, StackType DEF ReplyLose, In, TypeOK
  <2>2. QED
    BY <1>7, <2>1 DEF ReplyLose, In, Running, Ended, Closes, OpenSlots
<1>8. CASE ShareDeliver
  <2>1. sockets[Top.ctr] \in Client /\ UNCHANGED <<sockets, users, backlog, pc>>
    BY <1>8 DEF ShareDeliver, AtReceiver, AtOther, Sharing, IsOpen, TypeOK
  <2>2. Tell(sockets[Top.ctr]) /\ Top.n \in Slot
    BY <1>8, StackType DEF ShareDeliver, AtReceiver, AtOther, Sharing, In, TypeOK
  <2>3. \A d \in Client : owed'[d] \subseteq owed[d]
    BY <2>1, <2>2, TellType
  <2>4. PICK after : /\ WriteOutcome(sockets[Top.ctr], "sent", after)
                     /\ peer' = [peer EXCEPT ![sockets[Top.ctr]] = after]
    BY <1>8 DEF ShareDeliver
  <2>5. QED
    BY <2>1, <2>3, <2>4, QuietDelivery
<1>9. CASE ReplyDeliver
  <2>1. Top.n \in Slot
    BY <1>9, StackType DEF ReplyDeliver, In, TypeOK
  <2>2. sockets[Top.n] \in Client
    BY <1>9, <2>1 DEF ReplyDeliver, IsOpen, TypeOK
  <2>3. PICK after : /\ WriteOutcome(sockets[Top.n], "sent", after)
                     /\ peer' = [peer EXCEPT ![sockets[Top.n]] = after]
    BY <1>9 DEF ReplyDeliver
  <2>4. UNCHANGED <<sockets, users, backlog, pc, owed>>
    BY <1>9 DEF ReplyDeliver
  <2>5. QED
    BY <2>2, <2>3, <2>4, QuietDelivery
<1>10. ASSUME NEW c \in Client, NEW kind \in Kind, Send(c, kind)
       PROVE  Quiet
  BY <1>10, QuietKept DEF Send
<1>11. ASSUME NEW c \in Client, Hangup(c)
       PROVE  Quiet
  <2>1. PICK end \in {"fin", "rst"} : peer' = [peer EXCEPT ![c] = end]
    BY <1>11 DEF Hangup
  <2>2. peer[c] = "up" /\ UNCHANGED <<sockets, users, backlog, pc, owed>>
    BY <1>11 DEF Hangup
  <2>3. \A d \in Client : peer'[d] = IF d = c THEN end ELSE peer[d]
    BY <2>1 DEF TypeOK
  <2>4. QED
    BY <2>1, <2>2, <2>3 DEF Quiet
<1>12. QED
  BY <1>1, <1>2, <1>3, <1>4, <1>5, <1>6, <1>7, <1>8, <1>9, <1>10, <1>11
     DEF Next, Server, Scan, HandleClient, ShowAllStatuses, ShareMessage, Reply, Clients

\* A connection that waits or is not made yet has no slot.
LEMMA NotConnected ==
  ASSUME TypeOK, TableInv
  PROVE  /\ \A i \in DOMAIN backlog : backlog[i] \in Client /\ backlog[i] \notin Connected
         /\ \A c \in Client : peer[c] = "idle" => c \notin Connected
         /\ Connected \subseteq Client
<1>1. \A c : c \in Connected => InTable(c)
  BY DEF Connected, OpenSlots, InTable
<1>2. QED
  BY <1>1 DEF TableInv, Fresh, TypeOK, Connected, OpenSlots, IsOpen

\* Of the clients, closing a slot is about one; the others keep theirs.
LEMMA ClosedOne ==
  ASSUME TypeOK, TableInv, NEW s \in Slot, Closes(s)
  PROVE  /\ sockets[s] \in Client /\ sockets[s] \in Connected
         /\ Connected' = Connected \ {sockets[s]}
         /\ peer' = [peer EXCEPT ![sockets[s]] = "gone"]
         /\ \A c \in Client : c \notin Connected => owed'[c] = owed[c]
         /\ \A t \in Slot : sockets'[t] = IF t = s THEN None ELSE sockets[t]
<1>1. sockets[s] \in Client /\ sockets[s] \in Connected
  BY DEF Closes, OpenSlots, IsOpen, TypeOK, Connected
<1>2. \A t \in Slot : sockets'[t] = IF t = s THEN None ELSE sockets[t]
  BY DEF Closes, CloseSlot, TypeOK
<1>3. \A t \in OpenSlots : t # s => sockets[t] # sockets[s]
  BY DEF TableInv, SlotsCoherent, Closes
<1>4. Connected' = Connected \ {sockets[s]}
  BY <1>2, <1>3 DEF Connected, OpenSlots, IsOpen
<1>5. \A c \in Client : c \notin Connected => owed'[c] = owed[c]
  BY DEF Closes, CloseSlot, OweDeparture, Connected
<1>6. QED
  BY <1>1, <1>2, <1>4, <1>5 DEF Closes, CloseSlot

LEMMA Accepted ==
  ASSUME TypeOK, TableInv, AcceptReady, EstablishConnection
  PROVE  \E s \in Slot :
           /\ ~IsOpen(s) /\ backlog # <<>>
           /\ Head(backlog) \in Client /\ Head(backlog) = backlog[1] /\ 1 \in DOMAIN backlog
           /\ Head(backlog) \notin Connected
           /\ \A t \in Slot : sockets'[t] = IF t = s THEN Head(backlog) ELSE sockets[t]
           /\ \A t \in Slot : users'[t] = IF t = s THEN None ELSE users[t]
           /\ Connected' = Connected \cup {Head(backlog)}
           /\ backlog' = Tail(backlog)
           /\ \A i \in DOMAIN backlog' : i + 1 \in DOMAIN backlog /\ backlog'[i] = backlog[i + 1]
           /\ UNCHANGED <<peer, owed, pc>> /\ pc \notin Ended
<1>1. backlog # <<>>
  BY DEF EstablishConnection, AtSlot, AcceptReady, Running
<1>2. backlog \in Seq(Client) /\ Head(backlog) = backlog[1] /\ 1 \in DOMAIN backlog /\ backlog[1] \in Client
  BY <1>1 DEF TypeOK
<1>3. PICK s \in Slot : ~IsOpen(s) /\ FillSlot(s, Head(backlog))
  BY DEF EstablishConnection, FirstFree
<1>4. /\ \A t \in Slot : sockets'[t] = IF t = s THEN Head(backlog) ELSE sockets[t]
      /\ \A t \in Slot : users'[t] = IF t = s THEN None ELSE users[t]
  BY <1>3 DEF FillSlot, TypeOK
<1>5. Head(backlog) # None
  BY <1>2, ClientAssumption
<1>6. Connected' = Connected \cup {Head(backlog)}
  BY <1>3, <1>4, <1>5 DEF Connected, OpenSlots, IsOpen
<1>7. /\ backlog' = Tail(backlog)
      /\ \A i \in DOMAIN backlog' : i + 1 \in DOMAIN backlog /\ backlog'[i] = backlog[i + 1]
  BY <1>1, <1>2 DEF EstablishConnection
<1>8. UNCHANGED <<peer, owed, pc>> /\ pc \notin Ended
  BY DEF EstablishConnection, news, AtSlot, Running, Ended
<1>9. QED
  BY <1>1, <1>2, <1>3, <1>4, <1>6, <1>7, <1>8, NotConnected

LEMMA SortedSame ==
  ASSUME TypeOK, SortUsers
  PROVE  /\ Connected' = Connected
         /\ \E q \in [Slot -> Slot] :
              /\ \A t \in Slot : sockets'[t] = sockets[q[t]] /\ users'[t] = users[q[t]]
              /\ \A s \in Slot : \E t \in Slot : q[t] = s
         /\ UNCHANGED <<peer, backlog, owed, pc>>
<1>1. PICK q \in Arrangements : MoveSlots(q)
  BY DEF SortUsers
<1>2. q \in [Slot -> Slot] /\ \A s \in Slot : \E t \in Slot : q[t] = s
  BY <1>1 DEF Arrangements
<1>3. \A t \in Slot : sockets'[t] = sockets[q[t]] /\ users'[t] = users[q[t]]
  BY <1>1, <1>2 DEF MoveSlots
<1>4. Connected' = Connected
  BY <1>2, <1>3 DEF Connected, OpenSlots, IsOpen
<1>5. UNCHANGED <<peer, backlog, owed, pc>>
  BY DEF SortUsers, network, news
<1>6. QED
  BY <1>2, <1>3, <1>4, <1>5

LEMMA StoppedAll ==
  ASSUME TypeOK, HandleServerExit
  PROVE  /\ Connected' = {}
         /\ \A c \in Client : peer'[c] = IF c \in Connected THEN "gone" ELSE peer[c]
         /\ UNCHANGED <<backlog, owed>>
         /\ pc \notin Ended /\ pc' \in Ended
BY DEF HandleServerExit, Connected, OpenSlots, IsOpen, network, news, Command, In, Running, Ended

LEMMA JoinedOne ==
  ASSUME TypeOK, StackInv, BufferInv, Join
  PROVE  /\ Top.n \in OpenSlots /\ users[Top.n] = None
         /\ users' = [users EXCEPT ![Top.n] = sockets[Top.n]]
         /\ UNCHANGED <<sockets, peer, backlog, owed, pc>> /\ pc \notin Ended
<1>1. /\ In("client") /\ messages[Top.n] # None /\ users[Top.n] = None /\ pc \notin Ended
      /\ users' = [users EXCEPT ![Top.n] = messages[Top.n]]
      /\ UNCHANGED <<sockets, peer, backlog, owed, pc>>
  BY DEF Join, HasLine, In, Running, Ended, network, news
<1>2. Top.n \in Slot /\ pc # "exited"
  BY <1>1, StackType DEF In, Ended, TypeOK
<1>3. messages[Top.n] = sockets[Top.n]
  BY <1>1, <1>2, BuffersAgree
<1>4. QED
  BY <1>1, <1>2, <1>3 DEF OpenSlots, IsOpen

-----------------------------------------------------------------------------
(* The rest of DepartureInv *)

LEMMA NewcomerStep ==
  ASSUME TypeOK, TableInv, AcceptReady, StackInv, BufferInv, NewcomerInv, [Next]_vars
  PROVE  NewcomerInv'
<1>1. CASE EstablishConnection
  BY <1>1, Accepted DEF NewcomerInv
<1>2. CASE Join
  BY <1>2, JoinedOne DEF NewcomerInv
<1>3. CASE HandleServerExit
  BY <1>3, StoppedAll DEF NewcomerInv
<1>4. CASE SortUsers
  BY <1>4, SortedSame DEF NewcomerInv
<1>5. CASE Quiet
  BY <1>5, NotConnected DEF Quiet, NewcomerInv
<1>6. ASSUME NEW s \in Slot, Closes(s)
      PROVE  NewcomerInv'
  <2>1. backlog' = backlog
    BY <1>6 DEF Closes
  <2>2. \A c \in Client : c \notin Connected => owed'[c] = owed[c]
    BY <1>6, ClosedOne
  <2>3. \A c \in Client : peer'[c] = "idle" => peer[c] = "idle"
    BY <1>6, CloseNotIdle DEF Closes, NoneIdle
  <2>4. QED
    BY <2>1, <2>2, <2>3, NotConnected DEF NewcomerInv
<1>7. ASSUME NEW c \in Client, Connect(c)
      PROVE  NewcomerInv'
  <2>1. /\ peer[c] = "idle" /\ backlog' = Append(backlog, c) /\ owed' = owed
        /\ peer' = [peer EXCEPT ![c] = "up"]
    BY <1>7 DEF Connect, news
  <2>2. \A d \in Client : peer'[d] = "idle" => peer[d] = "idle"
    BY <2>1 DEF TypeOK
  <2>3. \A i \in DOMAIN backlog' : backlog'[i] = c \/ (i \in DOMAIN backlog /\ backlog'[i] = backlog[i])
    <3>1. backlog \in Seq(Client)
      BY DEF TypeOK
    <3>2. QED
      BY <2>1, <3>1
  <2>4. QED
    BY <2>1, <2>2, <2>3 DEF NewcomerInv
<1>8. QED
  BY <1>1, <1>2, <1>3, <1>4, <1>5, <1>6, <1>7, StepKinds

LEMMA GoneStep ==
  ASSUME TypeOK, TableInv, AcceptReady, StackInv, BufferInv, GoneInv, [Next]_vars
  PROVE  GoneInv'
<1>1. CASE EstablishConnection
  <2>1. \A c \in Client : peer[c] = "gone" => c # Head(backlog)
    BY <1>1, Accepted DEF GoneInv
  <2>2. QED
    BY <1>1, <2>1, Accepted DEF GoneInv
<1>2. CASE Join
  BY <1>2, JoinedOne DEF GoneInv, Connected, OpenSlots, IsOpen
<1>3. CASE HandleServerExit
  BY <1>3, StoppedAll, NotConnected DEF GoneInv
<1>4. CASE SortUsers
  BY <1>4, SortedSame DEF GoneInv
<1>5. CASE Quiet
  BY <1>5 DEF Quiet, GoneInv, Connected, OpenSlots, IsOpen
<1>6. ASSUME NEW s \in Slot, Closes(s)
      PROVE  GoneInv'
  <2>1. /\ sockets[s] \in Connected /\ Connected' = Connected \ {sockets[s]}
        /\ \A c \in Client : peer'[c] = IF c = sockets[s] THEN "gone" ELSE peer[c]
    BY <1>6, ClosedOne DEF TypeOK
  <2>2. backlog' = backlog
    BY <1>6 DEF Closes
  <2>3. \A i \in DOMAIN backlog : backlog[i] # sockets[s]
    BY <2>1, NotConnected
  <2>4. QED
    BY <2>1, <2>2, <2>3 DEF GoneInv
<1>7. ASSUME NEW c \in Client, Connect(c)
      PROVE  GoneInv'
  <2>1. /\ backlog' = Append(backlog, c) /\ UNCHANGED sockets
        /\ peer' = [peer EXCEPT ![c] = "up"]
    BY <1>7 DEF Connect, table
  <2>2. \A d \in Client : peer'[d] = IF d = c THEN "up" ELSE peer[d]
    BY <2>1 DEF TypeOK
  <2>3. \A i \in DOMAIN backlog' : backlog'[i] = c \/ (i \in DOMAIN backlog /\ backlog'[i] = backlog[i])
    <3>1. backlog \in Seq(Client)
      BY DEF TypeOK
    <3>2. QED
      BY <2>1, <3>1
  <2>4. Connected' = Connected
    BY <2>1 DEF Connected, OpenSlots, IsOpen
  <2>5. QED
    BY <2>2, <2>3, <2>4 DEF GoneInv
<1>8. QED
  BY <1>1, <1>2, <1>3, <1>4, <1>5, <1>6, <1>7, StepKinds

\* What is left to be done for closed connections is left to exactly one call,
\* in every reachable state.
THEOREM DepartureHolds == Spec => []DepartureInv
<1>1. Init => DepartureInv
  <2>1. Init => NewcomerInv /\ GoneInv
    BY DEF Init, NewcomerInv, GoneInv
  <2>2. QED
    BY <2>1, PendingInit, BufferInit, NewsInit DEF DepartureInv
<1>2. IInv /\ IInv' /\ DepartureInv /\ [Next]_vars => DepartureInv'
  BY PendingStep, BufferStep, NewsStep, NewcomerStep, GoneStep DEF DepartureInv, IInv, TypeInv
<1>3. QED
  BY <1>1, <1>2, InvariantHolds, PTL DEF Spec

\* No user is cleaned up twice or while its slot is open, however departures
\* found in the middle of telling other departures nest.
THEOREM CleanupsArePending == Spec => []CleanupsPending
<1>1. ASSUME IInv, DepartureInv
      PROVE  CleanupsPending
  <2>1. TypeOK /\ StackInv /\ PendingInv
    BY <1>1 DEF IInv, TypeInv, DepartureInv
  <2>2. ASSUME NEW i \in DOMAIN stack, stack[i].op = "cleanup"
        PROVE  /\ ~IsOpen(stack[i].n) /\ users[stack[i].n] \in userinfos
               /\ stack[i].n \in Pending(stack[i])
    <3>1. stack[i].n \in Pending(stack[i])
      BY <2>2 DEF Pending
    <3>2. stack[i].n \notin OpenSlots /\ stack[i].n \in Slot
      BY <2>1, <3>1, PendingClosed
    <3>3. QED
      BY <2>1, <2>2, <3>1, <3>2 DEF PendingInv, OpenSlots
  <2>3. ASSUME NEW i \in DOMAIN stack, NEW j \in DOMAIN stack, i # j,
               stack[i].op = "cleanup", stack[j].op = "cleanup"
        PROVE  stack[i].n # stack[j].n
    BY <2>1, <2>2, <2>3 DEF PendingInv
  <2>4. QED
    BY <2>2, <2>3 DEF CleanupsPending
<1>2. QED
  BY <1>1, InvariantHolds, DepartureHolds, PTL

\* Between two events every open slot has its own buffer, and no closed slot
\* has one: what a failed write took from the sender in passing, it is not
\* left without when the next read may come.
THEOREM BuffersAreInPlace == Spec => []BuffersInPlace
<1>1. ASSUME IInv, DepartureInv
      PROVE  BuffersInPlace
  <2>1. TypeOK /\ StackInv /\ BufferInv
    BY <1>1 DEF IInv, TypeInv, DepartureInv
  <2>2. QED
    BY <2>1, BuffersAgree DEF BuffersInPlace, AtRest
<1>2. QED
  BY <1>1, InvariantHolds, DepartureHolds, PTL

\* Between two events every client that is still connected has been told of
\* every named user that left while it was there, or has been sent that news in
\* a line that began too early because its window had been full; those included
\* that were found gone while another departure was told.
THEOREM DeparturesAreTold == Spec => []DeparturesTold
<1>1. ASSUME IInv, DepartureInv
      PROVE  DeparturesTold
  <2>1. TypeOK /\ StackInv /\ NewsInv
    BY <1>1 DEF IInv, TypeInv, DepartureInv
  <2>2. QED
    BY <2>1, NothingOwed DEF DeparturesTold, AtRest
<1>2. QED
  BY <1>1, InvariantHolds, DepartureHolds, PTL

-----------------------------------------------------------------------------
(* ChatServer implements ChatSessions *)

Stage == [c \in Client |-> StageOf(c)]

\* c has joined, and under its own slot.
Named(c) == \E s \in Slot : sockets[s] = c /\ users[s] = c

LEMMA StageIs ==
  ASSUME TypeOK, NEW c \in Client
  PROVE  /\ c \in Connected /\ Named(c) => Stage[c] = "joined"
         /\ c \in Connected /\ ~Named(c) => Stage[c] = "connected"
         /\ c \notin Connected /\ peer[c] = "gone" => Stage[c] = "left"
         /\ c \notin Connected /\ peer[c] # "gone" => Stage[c] = "away"
BY DEF Stage, StageOf, Named

LEMMA StageIsNext ==
  ASSUME TypeOK', NEW c \in Client
  PROVE  /\ c \in Connected' /\ Named(c)' => Stage'[c] = "joined"
         /\ c \in Connected' /\ ~Named(c)' => Stage'[c] = "connected"
         /\ c \notin Connected' /\ peer'[c] = "gone" => Stage'[c] = "left"
         /\ c \notin Connected' /\ peer'[c] # "gone" => Stage'[c] = "away"
BY DEF Stage, StageOf, Named

\* The sessions whose table entries stay what they are keep their stage.
LEMMA SameStage ==
  ASSUME TypeOK, TypeOK', NEW c \in Client,
         c \in Connected' <=> c \in Connected,
         Named(c)' <=> Named(c),
         peer'[c] = "gone" <=> peer[c] = "gone"
  PROVE  Stage'[c] = Stage[c]
BY StageIs, StageIsNext

LEMMA StageFunction ==
  /\ Stage = [c \in Client |-> Stage[c]]
  /\ Stage' = [c \in Client |-> Stage'[c]]
BY DEF Stage

LEMMA PresentConnected ==
  ASSUME TypeOK, TableInv
  PROVE  {c \in Client : Stage[c] \in {"connected", "joined"}} = Connected
BY StageIs, NotConnected

\* The connections in use are as many as the open slots.
LEMMA RoomLeft ==
  ASSUME IInv, EstablishConnection
  PROVE  Cardinality(Connected) < MaxClients
<1>1. /\ TypeOK /\ CountInv /\ stack = <<>> /\ pc # "exited" /\ socket_total < MaxClients + 1
  BY DEF IInv, TypeInv, EstablishConnection, AtSlot, Running
<1>2. socket_total = 1 + Cardinality(OpenSlots) /\ IsFiniteSet(OpenSlots) /\ Cardinality(OpenSlots) \in Nat
  BY <1>1, CountExact, OpenFinite
<1>3. Connected = {sockets[s] : s \in OpenSlots}
  BY DEF Connected
<1>4. IsFiniteSet(Connected) /\ Cardinality(Connected) <= Cardinality(OpenSlots)
  <2> DEFINE f == [s \in OpenSlots |-> sockets[s]]
  <2>1. f \in Surjection(OpenSlots, Connected)
    BY <1>3 DEF Surjection
  <2>2. QED
    BY <1>2, <2>1, FS_Surjection
<1>5. Cardinality(Connected) \in Nat
  BY <1>4, FS_CardinalityType
<1>6. QED
  BY <1>1, <1>2, <1>4, <1>5, BoundsAssumption DEF TypeOK

LEMMA ArriveStep ==
  ASSUME IInv, IInv', GoneInv, EstablishConnection
  PROVE  Sessions!Step
<1>1. TypeOK /\ TypeOK' /\ TableInv /\ AcceptReady
  BY DEF IInv, TypeInv
<1>2. PICK s \in Slot, c \in Client :
        /\ ~IsOpen(s) /\ c \notin Connected
        /\ c = backlog[1] /\ 1 \in DOMAIN backlog
        /\ \A t \in Slot : sockets'[t] = IF t = s THEN c ELSE sockets[t]
        /\ \A t \in Slot : users'[t] = IF t = s THEN None ELSE users[t]
        /\ Connected' = Connected \cup {c}
        /\ UNCHANGED <<peer, pc>> /\ pc \notin Ended
  BY <1>1, Accepted
<1>3. Stage[c] = "away"
  <2>1. peer[c] # "gone"
    BY <1>2 DEF GoneInv
  <2>2. QED
    BY <1>1, <1>2, <2>1, StageIs
<1>4. Stage'[c] = "connected"
  <2>1. \A t \in Slot : sockets[t] # c
    BY <1>2, ClientAssumption DEF Connected, OpenSlots, IsOpen
  <2>2. ~Named(c)'
    BY <1>2, <2>1, ClientAssumption DEF Named
  <2>3. QED
    BY <1>1, <1>2, <2>2, StageIsNext
<1>5. ASSUME NEW d \in Client, d # c
      PROVE  Stage'[d] = Stage[d]
  <2>1. Named(d)' <=> Named(d)
    BY <1>2, <1>5, ClientAssumption DEF Named, IsOpen
  <2>2. QED
    BY <1>1, <1>2, <1>5, <2>1, SameStage
<1>6. Stage' = [Stage EXCEPT ![c] = "connected"]
  BY <1>2, <1>4, <1>5, StageFunction
<1>7. Cardinality(Sessions!Present) < MaxClients
  <2>1. Sessions!Present = {d \in Client : Stage[d] \in {"connected", "joined"}}
    BY DEF Sessions!Present, Stage
  <2>2. Sessions!Present = Connected
    BY <1>1, <2>1, PresentConnected
  <2>3. QED
    BY <2>2, RoomLeft
<1>8. Sessions!Arrive(c)
  <2>1. Sessions!Cardinality(Sessions!Present) = Cardinality(Sessions!Present)
    BY Zenon DEF Sessions!Cardinality, Cardinality
  <2>2. QED
    BY <1>3, <1>6, <1>7, <2>1 DEF Sessions!Arrive, Stage
<1>9. QED
  BY <1>2, <1>8 DEF Sessions!Step

LEMMA NameStep ==
  ASSUME IInv, IInv', BufferInv, Join
  PROVE  Sessions!Step
<1>1. TypeOK /\ TypeOK' /\ TableInv /\ StackInv
  BY DEF IInv, TypeInv
<1>2. PICK s \in Slot :
        /\ s \in OpenSlots /\ users[s] = None
        /\ users' = [users EXCEPT ![s] = sockets[s]]
        /\ UNCHANGED <<sockets, peer, pc>> /\ pc \notin Ended
  BY <1>1, JoinedOne DEF OpenSlots
<1>3. PICK c \in Client : c = sockets[s] /\ c \in Connected /\ Connected' = Connected
  BY <1>1, <1>2 DEF OpenSlots, IsOpen, TypeOK, Connected
<1>4. \A t \in Slot : users'[t] = IF t = s THEN c ELSE users[t]
  BY <1>1, <1>2, <1>3 DEF TypeOK
<1>5. \A t \in Slot : sockets[t] = c => t = s
  BY <1>1, <1>2, <1>3, ClientAssumption DEF TableInv, SlotsCoherent, OpenSlots, IsOpen
<1>6. Stage[c] = "connected"
  <2>1. ~Named(c)
    BY <1>2, <1>3, <1>5, ClientAssumption DEF Named
  <2>2. QED
    BY <1>1, <1>3, <2>1, StageIs
<1>7. Stage'[c] = "joined"
  <2>1. Named(c)'
    BY <1>2, <1>3, <1>4 DEF Named
  <2>2. QED
    BY <1>1, <1>3, <2>1, StageIsNext
<1>8. ASSUME NEW d \in Client, d # c
      PROVE  Stage'[d] = Stage[d]
  <2>1. sockets[s] # d
    BY <1>3, <1>8
  <2>2. Named(d)' <=> Named(d)
    BY <1>2, <1>4, <2>1 DEF Named
  <2>3. QED
    BY <1>1, <1>2, <1>3, <2>2, SameStage
<1>9. Stage' = [Stage EXCEPT ![c] = "joined"]
  BY <1>3, <1>7, <1>8, StageFunction
<1>10. QED
  BY <1>2, <1>3, <1>6, <1>9 DEF Sessions!Step, Sessions!Name, Stage

LEMMA LeaveStep ==
  ASSUME IInv, IInv', NEW s \in Slot, Closes(s)
  PROVE  Sessions!Step
<1>1. TypeOK /\ TypeOK' /\ TableInv
  BY DEF IInv, TypeInv
<1>2. PICK c \in Client :
        /\ c = sockets[s] /\ c \in Connected /\ Connected' = Connected \ {c}
        /\ peer' = [peer EXCEPT ![c] = "gone"]
        /\ \A t \in Slot : sockets'[t] = IF t = s THEN None ELSE sockets[t]
  BY <1>1, ClosedOne
<1>3. UNCHANGED <<users, pc>> /\ pc \notin Ended
  BY DEF Closes
<1>4. Stage'[c] = "left"
  BY <1>1, <1>2, StageIsNext DEF TypeOK
<1>5. ASSUME NEW d \in Client, d # c
      PROVE  Stage'[d] = Stage[d]
  <2>1. Named(d)' <=> Named(d)
    BY <1>2, <1>3, <1>5, ClientAssumption DEF Named
  <2>2. peer'[d] = peer[d]
    BY <1>1, <1>2, <1>5 DEF TypeOK
  <2>3. QED
    BY <1>1, <1>2, <1>5, <2>1, <2>2, SameStage
<1>6. Stage' = [Stage EXCEPT ![c] = "left"]
  BY <1>4, <1>5, StageFunction
<1>7. c \in {d \in Client : Stage[d] \in {"connected", "joined"}}
  BY <1>1, <1>2, PresentConnected
<1>8. QED
  BY <1>3, <1>6, <1>7 DEF Sessions!Step, Sessions!Leave, Sessions!Present, Stage

LEMMA StopStep ==
  ASSUME IInv, IInv', HandleServerExit
  PROVE  Sessions!Stop
<1>1. TypeOK /\ TypeOK' /\ TableInv
  BY DEF IInv, TypeInv
<1>2. /\ Connected' = {}
      /\ \A c \in Client : peer'[c] = IF c \in Connected THEN "gone" ELSE peer[c]
      /\ pc \notin Ended /\ pc' \in Ended
  BY <1>1, StoppedAll
<1>3. ASSUME NEW c \in Client
      PROVE  Stage'[c] = IF c \in Connected THEN "left" ELSE Stage[c]
  BY <1>1, <1>2, StageIs, StageIsNext
<1>4. \A c \in Client : c \in Connected <=> c \in {d \in Client : Stage[d] \in {"connected", "joined"}}
  BY <1>1, PresentConnected
<1>5. Stage' = [c \in Client |-> IF c \in {d \in Client : Stage[d] \in {"connected", "joined"}}
                                 THEN "left" ELSE Stage[c]]
  BY <1>3, <1>4, StageFunction
<1>6. QED
  BY <1>2, <1>5 DEF Sessions!Stop, Sessions!Present, Stage

\* Nobody's session changes.
LEMMA StutterOrStop ==
  ASSUME TypeOK, TypeOK',
         \A c \in Client :
           /\ c \in Connected' <=> c \in Connected
           /\ Named(c)' <=> Named(c)
           /\ peer'[c] = "gone" <=> peer[c] = "gone",
         pc \in Ended => pc' \in Ended
  PROVE  Sessions!Stop \/ UNCHANGED Sessions!vars
<1>1. Stage' = Stage
  BY SameStage, StageFunction
<1>2. (pc' \notin Ended) = (pc \notin Ended) \/ (pc \notin Ended /\ (pc' \notin Ended) = FALSE)
  OBVIOUS
<1>3. QED
  BY <1>1, <1>2 DEF Sessions!Stop, Sessions!vars, Stage

LEMMA SessionsStep ==
  ASSUME IInv, IInv', DepartureInv, [Next]_vars
  PROVE  [Sessions!Next]_(Sessions!vars)
<1>1. TypeOK /\ TypeOK' /\ TableInv /\ BufferInv /\ GoneInv
  BY DEF IInv, TypeInv, DepartureInv
<1>2. CASE EstablishConnection
  BY <1>1, <1>2, ArriveStep DEF Sessions!Next
<1>3. CASE Join
  BY <1>1, <1>3, NameStep DEF Sessions!Next
<1>4. CASE HandleServerExit
  BY <1>4, StopStep DEF Sessions!Next
<1>5. CASE SortUsers
  <2>1. PICK q \in [Slot -> Slot] :
          /\ \A t \in Slot : sockets'[t] = sockets[q[t]] /\ users'[t] = users[q[t]]
          /\ \A s \in Slot : \E t \in Slot : q[t] = s
    BY <1>1, <1>5, SortedSame
  <2>2. \A c \in Client : Named(c)' <=> Named(c)
    BY <2>1 DEF Named
  <2>3. Connected' = Connected /\ UNCHANGED <<peer, pc>>
    BY <1>1, <1>5, SortedSame
  <2>4. QED
    BY <1>1, <2>2, <2>3, StutterOrStop DEF Sessions!Next
<1>6. CASE Quiet
  <2>1. Connected' = Connected /\ \A c \in Client : Named(c)' <=> Named(c)
    BY <1>6 DEF Quiet, Connected, OpenSlots, IsOpen, Named
  <2>2. QED
    BY <1>1, <1>6, <2>1, StutterOrStop DEF Sessions!Next, Quiet
<1>7. ASSUME NEW s \in Slot, Closes(s)
      PROVE  Sessions!Next
  BY <1>7, LeaveStep DEF Sessions!Next
<1>8. ASSUME NEW c \in Client, Connect(c)
      PROVE  [Sessions!Next]_(Sessions!vars)
  <2>1. /\ peer[c] = "idle" /\ peer' = [peer EXCEPT ![c] = "up"] /\ UNCHANGED <<sockets, users, pc>>
    BY <1>8 DEF Connect, table
  <2>2. \A d \in Client : peer'[d] = "gone" <=> peer[d] = "gone"
    BY <1>1, <2>1 DEF TypeOK
  <2>3. Connected' = Connected /\ \A d \in Client : Named(d)' <=> Named(d)
    BY <2>1 DEF Connected, OpenSlots, IsOpen, Named
  <2>4. QED
    BY <1>1, <2>1, <2>2, <2>3, StutterOrStop DEF Sessions!Next
<1>9. QED
  BY <1>1, <1>2, <1>3, <1>4, <1>5, <1>6, <1>7, <1>8, StepKinds

\* Whatever the table goes through, seen from the clients the server only lets
\* them in while there is room, lets them join once, and lets each go once.
THEOREM SessionsAreImplemented == Spec => ImplementsSessions
<1>1. Init => Sessions!Init
  <2>1. Init => Connected = {} /\ \A c \in Client : peer[c] # "gone"
    BY DEF Init, Connected, OpenSlots, IsOpen
  <2>2. Init => \A c \in Client : StageOf(c) = "away"
    BY <2>1 DEF StageOf
  <2>3. Init => pc \notin Ended
    BY DEF Init, Ended
  <2>4. QED
    BY <2>2, <2>3 DEF Sessions!Init
<1>2. IInv /\ IInv' /\ DepartureInv /\ [Next]_vars => [Sessions!Next]_(Sessions!vars)
  BY SessionsStep
<1>3. QED
  BY <1>1, <1>2, InvariantHolds, DepartureHolds, PTL DEF Spec, ImplementsSessions, Sessions!Spec

=============================================================================
