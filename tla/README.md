# A verification project for the CS61C course projects

The repository holds one student's projects and labs of a computer-architecture
course. Most of it is sequential exercises. Two parts keep state while several
actors act on it, and those are what this project models in TLA+, checks with
TLC and proves about with TLAPS:

- the *61C Chatroom* (`projects/proj1-acf`): a server that hosts up to ten
  clients on sockets, and a client;
- the *web page of the cat classifier* (`projects/proj4-acf/web`): the page
  itself, the widgets it is built from, and the agent that is shipped with it.
  Bootstrap and ConvNetJS are other people's code, but they are in the
  repository as source, they are what runs, and nearly all of the page's
  interleavings are theirs.

The other programs (a RISC-V emulator, a CNN with OpenMP loops, exercises in C
and assembly) are in the plan below. Paths are relative to the root of the
sources; `BJ` stands for `projects/proj4-acf/web/js/bootstrap.js`.

## 1. Inventory

| Component | Sources | State | Operations | Status |
|---|---|---|---|---|
| Chat server: event loop and table | `proj1-acf/server.c` | `sockets`, `messages`, `users`, `offsets` (11 slots each), `socket_total`, the heap behind the pointers, `errno`, the C stack | select loop, `establish_connection`, `handle_client`, `share_message`, `reply`, `handle_disconnect` | modelled but for setup and out-of-band data |
| Chat server: commands | `commands.c`, `command_utils.c`, `user_utils.c` | names, nicknames, mute lists | ten commands, `sort_users`, name lookups | what they do to the table; the registry is planned |
| Framing | `client_server_utils.c`, `server.c:197-228` | a byte array per slot, an offset per slot | `find_message_end`, `generate_message`, the loop around them | modelled |
| Chat client | `client.c`, `client_utils.c`, `student_client.c` | two buffers with offsets, the socket | `maintain_connection`, `process_input`, `send_message`, `receive_messages` | modelled but for connecting |
| Modal dialogs | `BJ:35-75`, `BJ:918-1239` | `isShown`, `$backdrop`, the padding saved by each modal; the body's class and padding, handlers on document and window | `show`, `hide`, the callbacks of three transitions, the data-API | modelled but for layout and remote content |
| Tooltips, popovers | `BJ:1259-1702` | `hoverState`, one timeout, the tip's place and classes | `enter`, `leave`, `show`, `hide`, `toggle`, `destroy` | modelled but for contents and placement |
| Carousel | `BJ:306-525` | `sliding`, `interval`, `paused`, deferred calls | `next`, `prev`, `to`, `slide`, `pause`, `cycle` | modelled |
| Collapsing panels | `BJ:544-737` | classes, object and `transitioning` of each panel | `show`, `hide`, `toggle`, the constructor | modelled but for sizes |
| Deep-Q agent | `web/js/convnetjs/deepqlearn.js`, `util.js` | four windows, the experiences, `age`, `epsilon` | `forward`, `backward` | modelled but for the network |
| Classifier's page and server | `web/index.html`, `cnn.py` | what is loaded, what is sampled, which buttons are enabled | load, start, the callbacks | modelled but for drawing |
| Other widgets (alerts, buttons, dropdowns, scrollspy, tabs, affix) | `bootstrap.js` | classes | handlers that act at once | not modelled; tabs are next |
| RISC-V emulator | `proj2-acf/part2.c`, `utils.c`, `riscv.c` | 32 registers, pc, memory | fetch, decode, execute | planned |
| CNN classifier | `proj4-acf/src/cnn.c`, `util.c` | layers, batches | `net_classify_cats`, batches of eight by OpenMP | planned |
| OpenMP lab | `labs/09` | shared sums and arrays | `dotp`, `v_add` in several work-sharing schemes | planned |
| Loop nests, lists, bits | `labs/07`, `labs/01`, `labs/02` | none across calls | transpose, cycle test, shift register | planned as operators |
| Disassembler, assembly labs, circuits, SIMD, Spark, drawing scripts, tests | see `PROJECT.json` | | | not modelled: formatting, generated drawings, third-party code, or no state |

**Interaction.** *Chat.* The server is one thread. `select` reports readable
sockets; the scan calls `establish_connection` for the listener and
`handle_client` for a client; a client's line may be its name, a text
(`share_message` to all others) or a command (`reply` to one). Both writers
close the slot of a receiver whose write fails, in the middle of whatever is in
progress, and then call `handle_disconnect`, which calls `share_message` again.
Clients and server share nothing but byte streams; both cut them into lines with
the same two functions. *Page.* A browser runs one handler at a time, but a
widget's operation is spread over several: it changes classes at once and leaves
the rest to a callback that waits for the end of a CSS transition, which the
browser may announce, and a timer of Bootstrap announces if it does not. In
between, the user and scripts call anything. Modals share the body and the
document; panels of an accordion drop each other's objects; the page's loads and
posts share one list and one array of samples.

**What is hard.** In the chat server not threads, but everything that happens
*between* its system calls and *inside* its nested calls: a client that hangs up
or is reset between the read of a line and the write of another; broadcasts that
lose several receivers and announce each departure, losing more; slots reused
while pointers and offsets still describe their last tenant; the table sorted
under the loops that walk it by index; a stream delivered in arbitrary pieces;
an `errno` that outlives the call it came from. In the page, callbacks that look
at the object's state of *their* time: a modal hidden while it appears, shown
while it goes, or over another; a tip entered while it fades; a slide asked for
during a slide; an object replaced while its panel moves; a reload during a
post. In the agent, windows that move at two different occasions. The hazards in
`PROJECT.json` list these with their lines.

**What makes each component correct.** *Event loop*: every slot's socket,
buffer and user belong together; `socket_total` counts the open sockets; what
is allocated is freed once; those who stay hear of those who leave; ready
connections are served. *Framing*: each connection is a FIFO queue of lines.
*Client*: what is typed is sent once and in order, what arrives is shown once
and in order. *Widgets*: when nothing moves any more, what is seen is what was
asked for last, and nothing is left behind on the page. *Carousel*: one slide at
a time, none on its own under the pointer, and a call that has to wait is made
good. *Agent*: it learns from what happened. *Page*: answers are compared with
the samples they are for, samples are loaded, and the buttons come back.
*Registry*: names and nicknames are unique, and a mute holds for the user it was
set on. *Emulator*: each instruction does what the ISA says. *OpenMP programs*:
no element is processed twice or by nobody, and no update is lost.

## 2. Modules

| Module | What it is |
|---|---|
| `ChatServer` | the event loop at the grain of system calls, its properties, and mutated definitions |
| `ChatSessions` | abstract: sessions begin and end once, within the capacity |
| `ChatInvariant` | the inductive invariants: `IInv` of the table, `DepartureInv` of departures |
| `ChatServerProofs` | their proofs, and the refinement of `ChatSessions` |
| `LineBuffer` | the C buffer as a function on indices: `find_message_end`, `generate_message`, a read into it |
| `MessageFraming` | slots with buffers and offsets, reads of any length, slot reuse, the sort |
| `LineQueue` | abstract: lines are handled one by one, whole, in order |
| `ChatClient` | the client's loop, with the same buffer for the server's messages |
| `FramingProofs` | proofs of `MessageFraming`, and the refinement of `LineQueue` |
| `ClientInvariant`, `ChatClientProofs` | the client's inductive invariant, and its proofs |
| `Transitions` | Bootstrap's support of transitions: a queue of callbacks on elements, in the order of their ends |
| `SharedLemmas` | lemmas that several proofs cite: induction up to a number, loops, the line buffer's operations, the queue of transitions |
| `Modal`, `ModalProofs` | the modals on `Transitions`, and their proofs for any number of modals, triggers and shows |
| `Tooltip`, `TooltipProofs` | a tip, and its proofs for any delays and number of events |
| `Collapse`, `CollapseProofs` | an accordion, and its proofs for any number of panels |
| `Carousel` | the carousel |
| `Brain` | the agent |
| `CatPage` | the page with its server |
| `WebPageProofs` | the proofs of these three: any number of items, any windows and memory, any number of batches. As it extends all of them, their definitions carry the component's name where they would clash (`CarouselInit`, `BrainNext`, `PageTypeOK`, ...) |
| `MC...` | constants for TLC |

A definition called a *mutant* in its comment is no part of the model: it is the
named definition changed as a plausible bug would, and serves to confirm that
the property it is paired with in `PROJECT.json` notices.

### ChatServer

A step is one system call, or the code between two of them. The variables are
the program's globals under their own names; `buffers` and `userinfos` are the
heap (so a pointer can be stale); `n`, `count`, `ready` are the locals of
`handle_connections`; and `stack` holds the calls in progress, innermost first,
with their own loop variables: a frame `share` has `n`, `ctr`, `count` and the
closure list `lost`, as `share_message` has. A write that fails inside a
broadcast closes the slot (`ShareLose`); the loop's end subtracts the closures
(`ShareDone`), and for each of them `DropNext` pushes the farewell, a nested
`share` followed by a `cleanup`. `length` is kept as far as it matters: EAGAIN
makes it negative (`early`), and what is then sent is a line the receiver does
not understand (`Tell`, `garbled`).

The clients (`Connect`, `Send`, `Hangup`) act when the server is blocked in
select or about to write: at other moments it cannot notice. A connection is
`up`, closed (`fin`), reset with the error not yet reported (`rst`), reset and
fatal to write to (`dead`), or `gone`; `Writes` gives the outcomes of a write in
each state, with EAGAIN when `Stalls`.

A step the C program does not survive ends the model in a state that says why:
`sigpipe`, `null_buffer`, `null_user`, `freed`, `overrun`. So the invariants say
what holds up to there, and the runs reach all of these ends.

Abstracted: what a line says beyond its kind; names (`NameOrder` says which may
sort before which); whether a mute applies and whether a mute list is full (left
open); writes that take a part of a line; pieces of lines and `offsets` (these
are `MessageFraming`). Lines a read returns fit the buffer.

### LineBuffer and MessageFraming

Bytes are `Letter`s, `Newline` and `Null`. A buffer is an array whose old
content stays behind the null byte; a fresh one holds anything. `ReceiveBytes`
takes any number of bytes up to what there is and what fits; `Join`,
`HandleMessage`, `SortUsers` and `ClientDone` are the ways round the loop of
`handle_client`. `SortUsers` moves the rows while `serving`, the `n` of
`handle_client`, stays, as in the code, where only the callee's copy is updated.

Assumed: a line with its newline fits the buffer (`proj1-acf/README.md:119`
limits the contents to 771 characters); writes to others succeed (failures are
`ChatServer`'s); a connection is made when it is accepted.

### ChatClient

`maintain_connection` serves the input first, then the socket, from one result
of `select`. `process_input` takes one byte per step, so more input may come in
between (`piped`); at a terminal a user types the next line after the last one
was taken. `send_message` is one step; on a connection the server has closed it
succeeds, and the answer is a reset (`ResetArrives`). `server_message` has its
1025 bytes, and `behind` is the byte of memory after them, which `client.c:204`
writes when a read has filled the array; `Memory` is both, as the string
functions see them. The build has padding there, so what was written stays. What
it is before the first read is a constant (`Beyond`). The branch of
`maintain_connection` for exceptional conditions (`client.c:175`) is left out:
they need out-of-band data, which the server never sends.

### Transitions, Modal, Tooltip and Collapse

Bootstrap waits with `el.one('bsTransitionEnd', f).emulateTransitionEnd(ms)`.
`Transitions` keeps what waits in one queue, ordered by when it is due, in steps
of 150 ms; one `Dispatch` on an element takes all of its callbacks from the queue
(`WithoutElement`) and then runs them in turn, as `one` and the timer's variable
`called` make it; a callback may put new ones behind. `Tick` lets time pass when
nothing is due, and any click or call may come before that.

A method may call another or run a callback at once, so the methods of these
three modules are operators on a state record `s` (`ShowOf`, `HideOf`,
`Complete`, ...), and each action is one entry point: a click, a key, a call, a
due callback. `Modal` keeps each modal's object and element apart from `page`,
what modals share. `Tooltip` follows one element with its tip and its one
timeout (part of the queue). `Collapse` follows an accordion; a panel's object
is a number, so that an old object's callbacks can be told from a new one's, and
`Construct`, `HideActive`, `Forget` are what the plugin does to objects. A
dispatch on a panel runs its callbacks in one step (`Complete`): their order does
not matter, since the end of a hide does not take the class `in` away.

Variables marked *history* in `TypeOK` are not the program's: they remember what
a property needs of the past (the last event, whether calls overlapped).

### Carousel

`sliding`, `interval` and `paused` are the object's fields; `moving` are the
transitions under way; `deferred` are the handlers that `to` attached to `slid`,
and `slids` the timeouts that will trigger it. `SlidTo` and `SlidStay` run the
handlers in turn. Clicks, calls and the interval's ticks are not counted; only
how many calls wait at once is bounded. Options (interval or none, wrap,
animation) are chosen in `Init`.

### Brain

Windows are sequences that move by `Shifted`, as `shift` and `push`. The i-th
pass's state and reward are the number i, so a window that is out of step shows.
Whether a reward is given, learning switched, and which action is taken is left
open.

### CatPage

The page's handlers and timers are one action each (`LoadNext` and `Draw` are
the two ends of `load_batch`, `ImageLoaded` is `onload`, `ImageFails` the image
that cannot be fetched); the server answers the oldest post or fails. A sample
is the batch it is from; an index past the list of loaded batches gives
`NoSample`, which no type allows.

## 3. Runs

| Run | Instance | Shows |
|---|---|---|
| `chat_share` | 3 clients, 3 slots, 4 lines (texts, `show_all_statuses`), resets; symmetric | types, rows, counter, buffers, broadcasts and cleanups through cascades of failed writes, nested farewells and a sort in the middle of a scan |
| `chat_reply` | 3 clients, 2 slots, commands, full windows, resets; symmetric | whoever stays was told of who left, or sent it from a byte too early after a stall, when a reply gives up its own caller and when slots are reused; the loop implements `ChatSessions` |
| `chat_stall` | 3 clients, 2 slots, a full window | violates `EveryDepartureTold` |
| `chat_progress` | 3 clients, 2 slots, texts, listings, resets; fair | every hangup noticed; a connection that waits at a full table is accepted unless the table stays full for good |
| `framing` | 2 connections in 2 slots, lines of 2 and 4 bytes, one a listing, buffers to index 4; fair | each connection implements `LineQueue`; bytes are conserved; every line is handled |
| `client_lines` | 2 lines typed, 2 messages, terminal or pipe; fair | order and completeness of the client; what is written behind `server_message` |
| `modals` | 3 modals (fading, with a static backdrop, without one), 2 toggling elements, 2 shows | the page is released, a shown modal appears, the focus goes back |
| `tooltips` | hover and focus or click, animated or not, delays of none, one or two transitions; 5 events | after the last leave the tip goes, after the last enter it comes |
| `carousels` | 3 items, every combination of options, 3 waiting calls, any number of acts; fair | one slide at a time, deferred calls are made good |
| `collapses` | 3 panels, one perhaps open in the source, 5 clicks and calls | one panel open, panels and objects come to rest, triggers tell the truth |
| `brains` | contexts of 0, 1 and 3, memory of 2, 6 passes, 2 switches | experiences are transitions that took place; training in time |
| `cat_pages` | 2 batches, 3 loads, 3 runs, invalid counts, failing images and posts; fair | answers meet their samples, samples are loaded, the button comes back |

`CHECK_DEADLOCK FALSE` everywhere: users may stop for good, bounds end the
clicks, and processes end.

**Bounds.** *Chat.* Three clients are enough for a broadcast with two receivers
that are both lost, and for a third party who has to be told; the next client
finds either a full table (2 slots) or a reused slot. Names have no fixed order:
each sort may put the rows in any (`AnyOrder`). Four lines are three names
and a text, or two names and two. The buffer of five bytes lets a line fill it
exactly, two lines share a read, and a line be cut at every place; the client's
of six also lets a message and an exit arrive in one read, two short lines
stand behind one another in `input_message`, and a longer one overrun it
(`InputOverrun`). `MaxLines`, `MaxTyped` and `MaxPosted` bound what the
environment writes and nothing else. *Widgets.* Two shows are a show over
another modal, or over the same one on its way out; three panels are the fewest
of which one opens, one closes and one is in the way; five acts or events reach
every exception that the properties name, and all of Bootstrap's durations are
one or two steps of 150 ms (350 ms, the collapse's, and 300 ms, the modal's, are
two: only their order with 150 ms matters). Three calls of `to` wait behind a
slide for the same or different items, and others follow when they are made;
nothing else of the carousel is bounded. *Agent.* Six passes fill the windows,
store two experiences and replace one, with one and with three passes of
context. *Page.* Two batches make loads of different lengths, three loads let
one overtake another and a third find both lists.

**Fairness.** `ChatServer!FairSpec` is `WF_vars(Server)`: the operating system
schedules the process and every one of its steps is either enabled or waits for
a client. Nothing is assumed of clients, except (in the liveness run, where
`Stalls = FALSE`) that they read: against a peer that never reads, the retry
loop of `share_message` makes no progress, and the code promises none.
`MessageFraming!FairSpec` is fair to each slot: the scan visits every slot that
select reports. `ChatClient!FairSpec` is fair to the process only.
`CarouselFairSpec` is fair to `TransitionEnd` and `Slid`: Bootstrap's timer ends
every transition and the timeout of `slid` elapses; nothing has to click, and
nothing has to stop clicking: `Reached` therefore excepts the runs in which
slides go on beginning in the moment before every `slid` (`Overtaken`).
`PageFairSpec` is fair to the browser's timers, to the end of each fetch of an
image, good or bad, and to an answer or a failure of each post. The properties
of modals, tips and panels are stated of states in which nothing waits
(`AtRest`) instead: bounded clicks, and a queue that only gets shorter by time,
always reach one.

**Seen.** Where a property has an exception, the code needs it; TLC finds a
counterexample when the exception is dropped. The runs also reach the ends that
the chat programs do not survive.

- *Chat server.* Commands that look up names while a connection has not sent its
  own (`LookupNullUser`, `ShareNullUser`, `SortNullUser`, although
  `user_utils.c:163-165` warns of it); a failed write in `share_message` frees
  the sender's buffer instead of the lost client's (`server.c:293`), whose
  buffer is never freed; a write that returns EAGAIN moves the message's
  beginning a byte to the front (`server.c:281`); `errno` stays set, so later
  receivers of the message are closed, too; a second write to a client that has
  gone raises SIGPIPE, though `proj1-acf/README.md:125` has the server notify
  the others; a failed reply whose caller goes on with a freed buffer
  (`BufferGone`); a listing that moves the open slots below the scan, which then
  walks past the table (`ScanOverrun`), or its own slot away
  (`MessageFraming!BufferGone`). `proj1-acf/README.md:30` withdraws
  `show_all_statuses` because of a bug it does not describe.
- *Framing.* A client that ends inside a line leaves its offset to the next one
  in the slot, whose name begins with what the new buffer happens to hold (take
  `Fragment` with a member); a listing with names that differ moves the sender,
  whose next read overwrites the start of its buffer (take `NameOrder` with a
  pair).
- *Client.* Of two lines that arrive through a pipe the first is sent twice, and
  a line that is cut loses its beginning (`SentAsTyped` without `piped`); two
  that are together longer than `input_message` are written past its end; a
  client that writes while the server closes is killed by SIGPIPE (`SendPipe`);
  at the end of its standard input it spins; a read that fills `server_message`
  puts the null byte behind the array (`client.c:204`, `behind` in the model).
- *Modal.* A hide during the show leaves the class `in` and the document's focus
  handler on a hidden modal. A show during the fade-out replaces the backdrop
  that the old callback then removes, and leaves the first on the page.
  Overlapping modals restore each other's padding of the body, end each other's
  `modal-open`, and one's hide removes all window handlers. A click on a toggle
  that hides leaves a restorer of the focus for the next show.
- *Tooltip.* An element that is entered while its tip fades out keeps a tip
  without the class `in`, and further enters do not show it. Without animation,
  `hide` called while the element is entered keeps the tip.
- *Carousel.* A later call of `to` may be overtaken by an earlier one that
  waits; with an interval as long as a transition (`data-interval` of 600) a
  slide begins before every `slid`, and a call that waits is never made; a click
  on the indicator of the active item starts the interval under the pointer.
- *Collapse.* A panel that is open in the page's source has no object: a click
  on a second and, before the transition ends, on a third leaves two open. The
  first click on a trigger makes every trigger of the accordion tell by the
  class `in`: that of a panel that is still opening stays `collapsed`.
- *Agent.* A pass that is given no reward is remembered with an earlier one's.
- *Page.* Start is enabled during a load: the answers are then compared with
  other samples. A second load appends the batches again, so that later batches
  are never sampled. A failed post leaves everything disabled, a failed image
  Load and the field. A click on Start with an invalid count enables Load for it
  when the answer comes; a count that is too large waits for an image that never
  comes.

One of these contradicts what the repository says, and has a run that expects a
violation, `chat_stall`: `proj1-acf/README.md:125` says "The server should notify
other clients if a client disconnects", but a client whose window is full when the
farewell is written gets it from a byte before its beginning. (The ends above,
SIGPIPE, a failed reply and an overrun scan, stop the server before it can notify
anyone; the passing runs reach them and name them.)

## 4. Proofs

### Chat server

Proved for any finite or infinite set of clients, any number of slots and any
bound, from `ClientAssumption`, `ListenerAssumption`, `BoundsAssumption`,
`KindAssumption` and `FaultsAssumption` of `ChatServer` (the sentinels are not
clients, there is at least one slot):

- `TypeCorrect`: `Spec => []TypeOK`. Its induction needs `AcceptReady`, which
  says that `accept` finds a connection when the scan calls it.
- `SlotsAreCoherent`: `Spec => []SlotsCoherent`.
- `TotalIsRight`: `Spec => []TotalCountsSockets`.
- `ShareIsInTable`: `Spec => []ShareStaysInTable`.
- `InvariantHolds`: `Spec => []IInv`, from which the others follow.
- `CleanupsArePending`, `BuffersAreInPlace`, `DeparturesAreTold`: `[]` of
  `CleanupsPending`, `BuffersInPlace`, `DeparturesTold`.
- `DepartureHolds`: `Spec => []DepartureInv`, from which these three follow
  together with `IInv`.
- `SessionsAreImplemented`: `Spec => ImplementsSessions`, the refinement of
  `ChatSessions`.

`IInv` consists of named parts, each there because the others are not inductive
without it:

- `TableInv`. That an open slot points to *its own, allocated* user cannot be
  shown from `SlotsCoherent` alone: `cleanup_user` and the cascades free users
  whose pointers stay in closed slots. `OneSlotEach` says a user or buffer is
  pointed to from one slot only, so freeing it cannot free another's; `Fresh`
  says a connection still waiting has left no trace, so a new tenant cannot be
  mistaken for an old one.
- `StackInv`. A `cleanup` frame and the closure lists name closed slots only
  (otherwise a cleanup would free a user in use), a broadcast is always the
  innermost call (so the table cannot be sorted under it), and `handle_client`
  is the outermost.
- `CountInv`. `socket_total` is ahead of the open slots by exactly the closures
  of the innermost broadcast. To stay in the table a broadcast must relate its
  own counter to what is ahead of it: `ShareCount` says that `socket_total` is
  its count plus the open slots from `ctr` on, so a count below the total means
  that an open slot, hence a slot, is ahead.

`DepartureInv` says what is left to do, and who will do it. `IInv` does not
imply it, and each part is needed for the next:

- `PendingInv`: a closed slot whose user has not been dropped is named by one
  place of one call in progress only, a closure list or a cleanup, and its user
  is allocated. Otherwise two nested farewells could free one user.
- `BufferInv`: a slot and its buffer differ in two cases only. An open slot has
  none if it is the one `handle_client` works on, which lost it to
  `server.c:293`; a closed one has one if it is in a closure list. Both end
  before the server is at rest again.
- `NewsInv`: a departure that a client is owed is being told by the innermost
  broadcast, which has yet to come to that client's slot, or its slot is still
  in some closure list; those sent from too early (`garbled`) are no longer
  waited for. When the stack is empty neither is possible, so nobody
  is owed anything.
- `NewcomerInv` and `GoneInv`: who waits or has not come is owed nothing, and
  who was closed has no slot and does not wait: so nothing is owed to a new
  tenant of an old slot, and no session begins twice.

The proofs go through `Next` action by action: types, then stack and table, then
counting (cardinalities through `FiniteSetTheorems`). For what clients see
of the table, `StepKinds` sorts the actions into a few kinds (a slot closes, a
slot is filled, a user is named, the rows are permuted, nothing changes), and
the refinement is shown once for each kind. The refinement maps a client to
the stage `StageOf`: filling a slot is `Arrive`, naming its user `Name`, closing
it `Leave`, an end of the program `Stop`; the sort only permutes the rows, and
everything else stutters.

### Framing

`MessageFraming` for any connections, slots, lines and length of the buffers.

- `FramingTypes`: `Spec => []TypeOK`, for *all* values of the constants: clients
  that die inside a line, listings that move the rows, stale offsets. Its
  induction needs `BuffersInv`: a slot's buffer ends with a null byte and an
  open slot has one. With it every string ends inside its buffer, and so do the
  search from any offset, the copy and the next read (`MessageEndInside`,
  `RemainingInside`, `FirstMessageInside` of `SharedLemmas`).
- `LinesAreQueued`: `Spec /\ [][InPlace]_vars => ImplementsQueue`, and
  `BytesAreKept`: `Spec /\ [][InPlace]_vars => []NothingLost`, for `WholeLines`:
  no client ends inside a line. `InPlace` says of each listing that it does not
  give the sender's row to another connection. Both are needed (see *Seen*): an
  offset stays with its index while the bytes it belongs to go or move. Other
  listings are among the lines: they may permute all the other rows, and may
  leave the sender's empty.
- `TwoSlots`: both without `InPlace`, for two slots and names that need no
  sorting, which holds of the run `framing`.

A listing's rows are those of some `q` in `Arrangements`. `CompactionIs` shows by
induction along the loop of `remove_holes` that it exchanges rows, and that
behind the first i no row in use follows an empty one; so the rows in use end up
in front (`HolesBehind`, by counting), and the sort, which fills as many places
from as many rows, puts no connection in two (`ArrangementsAre`). Where the
sender's row becomes empty `LineInv` fails: the row that was moved has the old
offset. But then the server is `Stopped`, it can only crash (`StoppedStep`), and
`KeptInv`, which has no offsets in it, still says that no byte is lost.

The refinement's invariant is `LineInv`. `RowsInv` says that a connection has
one slot and that an empty slot's offset is zero. `BytesInv` says that the
string in the buffer followed by what was not read yet is *the unhandled lines
put together*, and that no newline is before the offset. `Joined` states this
without recursion: there are places (the existentially quantified `cut`) at
which the lines stand one after another. A read moves bytes from one side to the
other and leaves the sum; `HandleMessage` takes the first line off
(`FirstLineIs`: the first newline found is the first line's end), which is the
queue's `Handle`; a client's `Write` puts a line behind the last place, as the
queue's does.

`NothingLost` says the same byte for byte, with `FlattenSeq`, whose definition is
a recursive function: `FlattenRuns` shows that there is such a function
(`LoopRuns`), `FlattenIs` that `FlattenSeq` is its last value, and `FlattenMore`
that it distributes over `\o`. `JoinedFlat` then turns lines put together by
their places into the same lines flattened, and `HandledInv` (what was handled of
a client are its first lines) splits what was written into what was handled and
what waits.

### Client

`ChatClient` for any input, messages, lengths and bounds: `ClientTypes`
(`[]TypeOK`), `WritesAreContained` (`WritesContained`: behind `server_message`
goes nothing but the null after a read that filled it), `LinesAreSent`
(`[]SentAsTyped`) and `MessagesAreShown` (`[]ShownAsPosted`), all from
`ClientHolds`: `Spec => []ClientInv`. Its parts say where the bytes are:

- `StringInv` and `TerminalInv` for the input. On a terminal the line that is
  being read is split between `input_message` (so many bytes) and `stdin` (the
  others), and it is the only one; when its newline comes the buffer holds that
  line and nothing else, and `send_message` sends it.
- `HeldInv` and `CutInv` for the server's messages, as in `LineInv`: what is
  held and what is on the wire are the messages not shown yet, put together, cut
  short if the link was reset; the bytes before `server_offset` hold no newline.
- `ShownAsPosted` itself, which the first newline makes inductive: the next
  message shown is the next posted, or nothing when the cut comes before.

### Modals

For any number of modals, fading or not and with any kind of backdrop, any
triggers, any number of shows, from `DialogAssumption` and `BoundsAssumption`:
`ModalTypes` (`[]TypeOK`), `PageIsReleased` (`[]PageReleased`), `ShownAppear`
(`[]ShownAppears`) and `FocusIsRestored` (`FocusRestored`, of every step, also of
those after overlapping shows). All follow from `ModalHolds`: `Spec => []ModalInv`.
`ModalInv` is `Steady`, a predicate on the state record the methods work on, so
that it can be said of the state between two callbacks of one dispatch:

- `Sound`. The callbacks stand in the order of their ends and each waits on the
  kind of element it was attached to; `Owned`: a backdrop belongs to one modal and
  whatever waits for one element is one modal's. Without it the removal of a
  backdrop could take another modal's callbacks away.
- `Thrifty`. A show makes a backdrop, and so does a `hideModal` that finds its
  modal shown again (the program does this; it is how a stray backdrop arises).
  Backdrops made, `hideModal`s that wait and modals shown are at most twice the
  shows: each hide spends one that is shown for one that waits. It bounds
  `made`, which `TypeOK` needs.
- `Locked`. The body has the class `modal-open` only while a modal is shown or a
  callback that lifts it waits: this is what makes `PageReleased` true even after
  shows overlapped, when nothing else of the page can be trusted.
- `Restores`. A modal that is shown has no restorer waiting for a show, and of
  those that wait for its hidden event the last is its opener's. A restorer that
  a closing click left behind runs first at the next show, before the new one.
- `Phased`, as long as no show found the body locked. The page is `Free`, or one
  modal has it and is in one of five phases: it comes up, is up, was cut short
  before it appeared, goes down, or its backdrop fades. Each says exactly which
  callbacks wait (`One`, `Two`). So a callback finds what `show` and `hide` left
  for it, although each can come at any moment of the other.

Every method has lemmas that say what it leaves of each part, and `Dispatch`, a
recursive function, carries `Steady` along its run by `UpTo`.

### Tooltips

For any delays up to two transitions and any number of events, from the
assumptions of `Tooltip`: `TooltipTypes` (`[]TypeOK`), `TipsGo` (`[]TipGoes`) and
`TipsCome` (`[]TipComes`), all from `TooltipHolds`: `Spec => []TipInv`, whose parts
are

- `Sound`: a tip without the class `fade` has no transition, and a tip on the page
  of an animated tooltip has the class; the callbacks that wait are due in order.
- `Going`, after a leave: the tip is off the page, or a callback that takes it off
  waits *and* `hoverState` is what that callback asks for when it runs.
- `Coming`, after an enter that did not catch the tip on its way out: the show
  waits, or the tip is there and no `hidden` waits that would find `hoverState`
  null.
- `Tidy`, as long as no script has called: a tip that is not on the page has no
  `shown` waiting, one that is has no `show`, and the `shown` of a tip that is
  there waits last. `Coming` needs it: two callbacks on the tip's element run in
  one dispatch, and a `hidden` after a `shown` would undo it.

### Carousel

For any number of items and waiting calls, from `LengthAssumption`: `TypeCorrect`,
`SlidesDoNotOverlap` (`[]OneSlide`) and `PointerHolds` (`[]HoverHolds`).
`CarouselTypeOK /\ OneSlide` is inductive: `sliding` is set with the only slide and
cleared with it, so `next`, `prev` and `to`, which ask it, cannot begin a second
one, nor can the handlers of `slid`, which run when it is false. `HoverHolds`,
which is proved only and no run checks, is inductive by itself: only `Restart`
starts an interval under the pointer, and it says so.

### Collapsing panels

For any number of panels, clicks and calls, from `CollapseAssumption`:
`CollapseTypes` (`[]TypeOK`), `OneIsOpen` (`[]OnePanelOpen`), `PanelsSettle`
(`[]Settled`) and `TriggersTell` (`[]TriggerTells`), all from `CollapseHolds`:
`Spec => []CollapseInv`. The properties but the first two are stated of rest;
the invariant says what holds on the way there:

- `Sound`, of every panel. `Moves`: the objects that believe to move are exactly
  those whose callbacks wait, a panel looks `collapsing` while any do, and it
  was last asked to open if and only if one of them is a show's. So a dispatch,
  which runs them all, leaves the panel as it was last asked to be, also when
  its object was dropped and made again meanwhile. `Tells`: its trigger was told
  the same, unless it is `mistold`. `Sorted`: what ends first stands first in
  the queue, which is why the time that is left never becomes negative.
- `Orderly`, as long as no panel was opened by anything but a trigger. `Keeps`:
  a panel that is open or moves has an object, and no other object believes to
  move it. This is what `show` relies on when it asks the first such panel's
  object whether something moves: if that object is at rest, its panel is open,
  so it is the one that was asked for, and `show` hides it; the others are on
  their way out. `OrderlyAs` is the same while an object is being made, which
  gets to be the panel's data only after its toggle.

The proof follows the methods: one lemma for each says what it leaves of a sound
state (`HideIs`, `ConstructIs`, `ShowSteps`, `CompleteIs`, ...), a second that
it keeps the order (`HideOrderly`, `ShowOrderly`, ...), and the actions put them
together. `HideActives` and `WithoutElement` are loops, written as recursive
functions: `LoopRuns` shows that such a function exists, and `UpTo`, an
induction over the members of a set, carries a loop's invariant along.

### Agent

For any set of actions, temporal windows, memory, threshold and number of
passes: `ExperiencesAreTrue` (`[]TrueTransitions`), `TrainingIsInTime`
(`[]TrainsInTime`) and `BrainTypes` (`[]BrainTypeOK`). The invariant `BInv`
reads each window from its end: `WindowsInv` says that place `j` belongs to pass
`PassAt(j)`, `RewardsInv` that the end of the reward window is the latest pass's
reward or, while it has none, the reward of the pass before. So when `backward`
shifts the rewards, their second place from the end belongs to the same pass as
that of the other windows. `CountInv` counts: without a switch, experiences are
as many as rewards that were seen with enough context, up to the size of the
memory. For the types, `IsSum` says that the running average's `sum` is that of
its values (there are partial sums that rise to it), so the value it drops can
be subtracted; `AgeInv` that at most one `backward` learns for each pass, so
`age` stays within the bound; and the input of a pass with full context looks
back at places that `WindowsInv` knows to be filled.

### Page

For any number of batches: `PageTypes` (`[]PageTypeOK`), `SamplingIsSafe`
(`SamplesFromLoaded`) and `AnswersMeetSamples` (`[]ResultsMatch`). `ListInv` is
why sampling is safe although loads overlap and the list has duplicates: a load
has put every batch before its own into the list, and no batch stands earlier
than its number says, so the first `num_batches` places exist and hold batches
below `num_batches`. `OneInv` is why answers meet their samples: until Start is
clicked during a load, one load or one run is under way at most, and the buttons
that could begin another are disabled.

### Only model-checked

- Everything under fairness: `Reached`, `LoadComesBack`, `EndNoticed`,
  `BacklogServed`, `LinesHandled`, `MessagesShown` (TLAPS does not reason about
  `ENABLED`).

All other properties of the runs are theorems.

## 5. Plan

In this order; each step comes with its run, its hazards and, where noted, proofs.

1. `ChatCommands`: names, nicknames, mute lists of ten entries, renames, with an
   abstract room (who hears whom) taken from what the commands promise.
   Expected trouble: the mute list is a list of *names*, `unmute` removes the
   last entry, the eleventh mute is silent.
2. The tabs (`BJ:2014-2160`), on `Transitions`.
3. `BatchClassify` (the OpenMP batches and the tail of `cnn.c`) and the lab's
   `dotp` and `v_add`: each index once, no lost update, proofs for any number of
   threads.
4. The RISC-V emulator: sign extension, decoding, and `execute` over words of a
   few bits, each instruction against the ISA's definition; lemmas on words.
5. Partial writes: `send_message` and `share_message` at byte grain (`ChatServer`
   has the stalled write of a whole line only).
6. Lists, shift register and loop nests as operators checked against references.

**Not modelled.** Bootstrap's other widgets act within one handler or follow the
scroll position; layout, contents and remote loading have no bearing on the
control; the detection of transition support is a constant (there is support).
Listeners that prevent an event's default end a method before it does anything.
The network of the agent and the layers of the classifier are floating point.
The disassembler and the drawing scripts are formatting, the circuits are
drawings for an external simulator, SIMD kernels and Spark jobs keep no state.
