------------------------------ MODULE Carousel ------------------------------
(***************************************************************************)
(* Bootstrap's carousel (web/js/bootstrap.js, carousel.js).                *)
(*                                                                         *)
(* A slide from the active item to the next one is a transition of 600 ms, *)
(* during which sliding is true; the event slid follows in a timeout of    *)
(* its own.  The user, scripts and the interval ask for slides at any      *)
(* time: next and prev are dropped while one is under way, and to(pos)     *)
(* waits for slid and then tries again.                                    *)
(*                                                                         *)
(* Abstractions.  The directions of a slide (classes left and right) only  *)
(* matter for its looks.  No listener prevents the event slide.            *)
(***************************************************************************)
EXTENDS Naturals, Sequences

CONSTANTS
  Length,     \* how many items there are
  MaxWaiting  \* bound: calls of to that wait for slid

ASSUME LengthAssumption == Length \in Nat \ {0}
ASSUME WaitingAssumption == MaxWaiting \in Nat

Item == 0..Length - 1

VARIABLES
  options,    \* of this carousel: interval, wrap, and whether slides animate
  active,     \* the items with the class active
  moving,     \* the transitions under way
  indicator,  \* the active indicator
  sliding,    \* this.sliding
  interval,   \* whether this.interval runs
  paused,     \* this.paused
  deferred,   \* the calls of to that wait for slid
  slids,      \* the timeouts that will trigger slid
  hovered,    \* the pointer is on the carousel
  restarted   \* history: cycle was called since it came

place == <<active, moving, indicator, sliding>>
timing == <<interval, paused, restarted>>
carouselVars == <<options, place, timing, deferred, slids, hovered>>

Slide == [from : Item, to : Item]

CarouselTypeOK ==
  /\ options \in [interval : BOOLEAN, wrap : BOOLEAN, animated : BOOLEAN]
  /\ active \in SUBSET Item
  /\ moving \in SUBSET Slide
  /\ indicator \in Item
  /\ sliding \in BOOLEAN
  /\ interval \in BOOLEAN
  /\ paused \in BOOLEAN
  /\ deferred \in Seq(Item)
  /\ slids \in Nat
  /\ hovered \in BOOLEAN
  /\ restarted \in BOOLEAN

\* With data-ride the carousel starts to cycle when the page is loaded.
CarouselInit ==
  /\ options \in [interval : BOOLEAN, wrap : BOOLEAN, animated : BOOLEAN]
  /\ active = {0}
  /\ moving = {}
  /\ indicator = 0
  /\ sliding = FALSE
  /\ interval = options.interval
  /\ paused = FALSE
  /\ deferred = <<>>
  /\ slids = 0
  /\ hovered = FALSE
  /\ restarted = FALSE

-----------------------------------------------------------------------------

Active == CHOOSE i \in active : TRUE

\* Mutant of After: the last item has a neighbour, too.
AfterLast(i) == i + 1

\* getItemForDirection: without wrap, an end of the row is its own neighbour.
After(i) == IF i # Length - 1 THEN i + 1 ELSE IF options.wrap THEN 0 ELSE i
Before(i) == IF i # 0 THEN i - 1 ELSE IF options.wrap THEN Length - 1 ELSE i

\* pause().cycle()
Restart ==
  /\ interval' = options.interval
  /\ paused' = FALSE
  /\ restarted' = TRUE

\* A slide stops the interval and starts it again, if it runs.
KeepCycling ==
  /\ UNCHANGED <<interval, restarted>>
  /\ paused' = (paused /\ ~interval)

\* slide, for an item that is not active.
Depart(to) ==
  /\ indicator' = to
  /\ IF options.animated
     THEN /\ moving' = moving \cup {[from |-> Active, to |-> to]}
          /\ sliding' = TRUE
          /\ UNCHANGED active
     ELSE /\ active' = (active \ {Active}) \cup {to}
          /\ sliding' = FALSE
          /\ UNCHANGED moving
  /\ UNCHANGED slids

SlideTo(to) ==
  IF to \in active
  THEN sliding' = FALSE /\ UNCHANGED <<active, moving, indicator, slids, timing>>
  ELSE Depart(to) /\ KeepCycling

\* Mutant of Idle: slides may overlap.
IdleAlways == TRUE

\* next and prev return while a slide is under way.
Idle == ~sliding

\* A click, a key, a call, or the interval.
NextItem ==
  /\ Idle
  /\ SlideTo(After(Active))
  /\ UNCHANGED <<options, deferred, hovered>>

PrevItem ==
  /\ Idle
  /\ SlideTo(Before(Active))
  /\ UNCHANGED <<options, deferred, hovered>>

IntervalElapses == interval /\ NextItem

\* to(pos), while a slide is under way, for the active item, and otherwise.
ToLater(pos) ==
  /\ sliding
  /\ Len(deferred) < MaxWaiting
  /\ deferred' = Append(deferred, pos)
  /\ UNCHANGED <<options, place, timing, slids, hovered>>

ToActive(pos) ==
  /\ ~sliding
  /\ pos = Active
  /\ Restart
  /\ UNCHANGED <<options, place, deferred, slids, hovered>>

To(pos) ==
  /\ ~sliding
  /\ pos # Active
  /\ SlideTo(pos)
  /\ UNCHANGED <<options, deferred, hovered>>

\* pause() and cycle() as calls.
Pause ==
  /\ interval' = FALSE /\ paused' = TRUE
  /\ UNCHANGED <<options, place, restarted, deferred, slids, hovered>>

Cycle ==
  /\ Restart
  /\ UNCHANGED <<options, place, deferred, slids, hovered>>

\* pause(e) leaves paused alone, and so does cycle(e).
MouseEnter ==
  /\ ~hovered
  /\ hovered' = TRUE
  /\ interval' = FALSE /\ restarted' = FALSE
  /\ UNCHANGED <<options, place, paused, deferred, slids>>

MouseLeave ==
  /\ hovered
  /\ hovered' = FALSE
  /\ interval' = (options.interval /\ ~paused)
  /\ UNCHANGED <<options, place, paused, restarted, deferred, slids>>

Arrive(s) == active' = (active \cup {s.to}) \ {s.from}

\* The active item's transition ends; the timeout of an earlier slide, which
\* takes no time, is over before.
TransitionEnd ==
  /\ slids = 0
  /\ \E s \in moving :
       /\ Arrive(s)
       /\ moving' = moving \ {s}
  /\ sliding' = FALSE
  /\ slids' = 1
  /\ UNCHANGED <<options, indicator, timing, deferred, hovered>>

\* The event slid while another slide is under way: the calls wait on.
SlidTooLate ==
  /\ slids > 0 /\ sliding
  /\ slids' = slids - 1
  /\ UNCHANGED <<options, place, timing, deferred, hovered>>

\* Mutant of Rest: the handlers are removed with the first.
RestNone(k) == <<>>

\* The calls behind the k-th.
Rest(k) == SubSeq(deferred, k + 1, Len(deferred))

\* Otherwise they are made in turn, and the first for another item begins a
\* slide, for whose end the rest wait.
SlidTo(k) ==
  /\ slids > 0 /\ ~sliding
  /\ k \in DOMAIN deferred
  /\ deferred[k] # Active /\ \A j \in 1..k - 1 : deferred[j] = Active
  /\ deferred' = Rest(k)
  /\ moving' = moving \cup {[from |-> Active, to |-> deferred[k]]}
  /\ indicator' = deferred[k] /\ sliding' = TRUE
  /\ IF k = 1 THEN KeepCycling ELSE Restart
  /\ slids' = slids - 1
  /\ UNCHANGED <<options, active, hovered>>

SlidStay ==
  /\ slids > 0 /\ ~sliding
  /\ \A k \in DOMAIN deferred : deferred[k] = Active
  /\ deferred' = <<>>
  /\ IF deferred = <<>> THEN UNCHANGED timing ELSE Restart
  /\ slids' = slids - 1
  /\ UNCHANGED <<options, place, hovered>>

Slid == SlidTooLate \/ SlidStay \/ \E k \in DOMAIN deferred : SlidTo(k)

Requests == \E pos \in Item : ToLater(pos) \/ ToActive(pos) \/ To(pos)

CarouselNext ==
  \/ NextItem \/ PrevItem \/ IntervalElapses \/ Requests
  \/ Pause \/ Cycle \/ MouseEnter \/ MouseLeave
  \/ TransitionEnd \/ Slid

CarouselSpec == CarouselInit /\ [][CarouselNext]_carouselVars

\* The emulation's timer ends every transition, and timeouts elapse.
CarouselFairSpec == CarouselSpec /\ WF_carouselVars(TransitionEnd) /\ WF_carouselVars(Slid)

-----------------------------------------------------------------------------
(* Properties *)

\* One item is active, and one slide at most is under way, from it; the
\* indicator shows where the carousel is or is going; and sliding, by which
\* next, prev and to decide, says whether it is going anywhere.
OneSlide ==
  /\ sliding <=> moving # {}
  /\ moving = {} => active = {indicator}
  /\ \A s \in moving : moving = {s} /\ active = {s.from} /\ indicator = s.to /\ s.from # s.to

\* A carousel under the pointer does not move by itself, unless cycle was
\* called since the pointer came: by a script, or by a click on the indicator
\* of the item it shows.
HoverHolds == hovered /\ ~restarted => ~interval

\* The calls that wait are made: slid finds no slide under way.
SlidInTime == SlidStay \/ \E k \in DOMAIN deferred : SlidTo(k)

\* From some time on slid always comes too late.  Nothing in the code prevents
\* it: an interval as long as a transition begins every slide in the moment
\* between the end of the one before and its slid.
Overtaken == []<><<SlidTooLate>>_carouselVars /\ ~[]<><<SlidInTime>>_carouselVars

\* A call of to that has to wait is made good, its item comes to be active,
\* whatever was asked for before and after, unless slides go on beginning
\* before every slid.
Reached ==
  Overtaken \/
    \A pos \in Item : (\E k \in DOMAIN deferred : deferred[k] = pos) ~> active = {pos}

=============================================================================
