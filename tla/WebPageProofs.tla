---------------------------- MODULE WebPageProofs ----------------------------
(***************************************************************************)
(* The carousel, the classifier's page and the deep-Q agent: for any       *)
(* number of items, of batches and of passes.                              *)
(*                                                                         *)
(* The carousel.  Its types are not inductive: Active is an item only if   *)
(* there is an active one, which OneSlide says.  OneSlide in turn needs    *)
(* that the items are items, so the two are proved together.               *)
(*                                                                         *)
(* The page.  What is sampled has been loaded, because a load has put      *)
(* every batch before its own into the list, and no batch can come earlier *)
(* in the list than its number says; other loads only make the list        *)
(* longer.  Answers meet the samples they are for, because without a start *)
(* during a load at most one load or run is under way, and the buttons     *)
(* that could begin another are disabled.                                  *)
(*                                                                         *)
(* The agent.  Each window, read from its end, is the recent history: what *)
(* forward has put there at the pass that lies as far back.  The window of *)
(* rewards moves with backward instead, and its end is the latest pass's   *)
(* reward, or the one's before while the latest has none.  So the places   *)
(* that backward takes an experience from belong to one pass and the next. *)
(* That training begins in time is counting: while learning is never       *)
(* switched off, experiences are as many as rewards with enough context,   *)
(* up to the size of the memory, which therefore passes the threshold.     *)
(***************************************************************************)
EXTENDS Carousel, CatPage, Brain, SequenceTheorems, FiniteSetTheorems, TLAPS

-----------------------------------------------------------------------------
(***************************************************************************)
(* The carousel                                                            *)
(***************************************************************************)

CarouselInv == CarouselTypeOK /\ OneSlide

-----------------------------------------------------------------------------
(* Helpers *)

\* When nothing moves, the active item is the one of the indicator.
LEMMA ActiveAtRest ==
  ASSUME OneSlide, ~sliding
  PROVE  moving = {} /\ active = {indicator} /\ Active = indicator
  BY DEF OneSlide, Active

\* Neighbours are items.
LEMMA NeighboursAreItems ==
  ASSUME NEW i \in Item
  PROVE  After(i) \in Item /\ Before(i) \in Item
  BY LengthAssumption DEF Item, After, Before

\* What a change of the timing alone may do to its types.
LEMMA TimingTypes ==
  ASSUME CarouselTypeOK, Restart \/ KeepCycling
  PROVE  interval' \in BOOLEAN /\ paused' \in BOOLEAN /\ restarted' \in BOOLEAN
  BY DEF CarouselTypeOK, Restart, KeepCycling

\* One slide from the active item is a slide at a time.
LEMMA UnderWay ==
  ASSUME moving' = {[from |-> indicator, to |-> indicator']}, sliding' = TRUE,
         active' = {indicator}, indicator # indicator'
  PROVE  OneSlide'
  <1>1. ASSUME NEW s \in moving'
        PROVE  moving' = {s} /\ active' = {s.from} /\ indicator' = s.to /\ s.from # s.to
    <2>1. s = [from |-> indicator, to |-> indicator']
      OBVIOUS
    <2>2. s.from = indicator /\ s.to = indicator'
      BY <2>1
    <2> QED BY <2>1, <2>2
  <1>2. moving' # {}
    OBVIOUS
  <1> QED BY <1>1, <1>2 DEF OneSlide

\* slide, for any item, when nothing moves.
LEMMA SlideToKeeps ==
  ASSUME CarouselInv, ~sliding, NEW to \in Item, SlideTo(to),
         UNCHANGED <<options, deferred, hovered>>
  PROVE  CarouselInv'
  <1>1. moving = {} /\ active = {indicator} /\ Active = indicator
    BY ActiveAtRest DEF CarouselInv
  <1>2. CASE to \in active
    BY <1>1, <1>2 DEF CarouselInv, CarouselTypeOK, OneSlide, SlideTo, timing
  <1>3. CASE to \notin active
    <2>1. Depart(to) /\ KeepCycling
      BY <1>3 DEF SlideTo
    <2>2. interval' \in BOOLEAN /\ paused' \in BOOLEAN /\ restarted' \in BOOLEAN
      BY <2>1, TimingTypes DEF CarouselInv
    <2>3. indicator \in Item /\ indicator # to
      BY <1>1, <1>3 DEF CarouselInv, CarouselTypeOK
    <2>4. CASE options.animated
      <3>1. /\ moving' = {[from |-> indicator, to |-> to]}
            /\ sliding' = TRUE /\ active' = active /\ indicator' = to /\ slids' = slids
        BY <1>1, <2>1, <2>4 DEF Depart
      <3>2. CarouselTypeOK'
        BY <2>2, <2>3, <3>1 DEF CarouselInv, CarouselTypeOK, Slide
      <3>3. OneSlide'
        BY <1>1, <2>3, <3>1, UnderWay
      <3> QED BY <3>2, <3>3 DEF CarouselInv
    <2>5. CASE ~options.animated
      <3>1. /\ active' = {to} /\ sliding' = FALSE /\ moving' = {} /\ indicator' = to
            /\ slids' = slids
        BY <1>1, <2>1, <2>5 DEF Depart
      <3>2. CarouselTypeOK'
        BY <2>2, <3>1 DEF CarouselInv, CarouselTypeOK, Slide
      <3>3. OneSlide'
        BY <3>1 DEF OneSlide
      <3> QED BY <3>2, <3>3 DEF CarouselInv
    <2> QED BY <2>4, <2>5
  <1> QED BY <1>2, <1>3

\* A step that leaves the items alone keeps OneSlide.
LEMMA PlaceKeepsOneSlide ==
  ASSUME OneSlide, UNCHANGED place
  PROVE  OneSlide'
  BY DEF OneSlide, place

-----------------------------------------------------------------------------
(* The steps *)

LEMMA RequestsKeep ==
  ASSUME CarouselInv, NEW pos \in Item, ToLater(pos) \/ ToActive(pos) \/ To(pos)
  PROVE  CarouselInv'
  <1>1. CASE ToLater(pos)
    <2>1. deferred' \in Seq(Item)
      BY <1>1 DEF CarouselInv, CarouselTypeOK, ToLater
    <2>2. CarouselTypeOK'
      BY <1>1, <2>1 DEF CarouselInv, CarouselTypeOK, ToLater, place, timing
    <2> QED BY <1>1, <2>2, PlaceKeepsOneSlide DEF CarouselInv, ToLater
  <1>2. CASE ToActive(pos)
    <2>1. interval' \in BOOLEAN /\ paused' \in BOOLEAN /\ restarted' \in BOOLEAN
      BY <1>2, TimingTypes DEF CarouselInv, CarouselTypeOK, ToActive
    <2>2. CarouselTypeOK'
      BY <1>2, <2>1 DEF CarouselInv, CarouselTypeOK, ToActive, place
    <2> QED BY <1>2, <2>2, PlaceKeepsOneSlide DEF CarouselInv, ToActive
  <1>3. CASE To(pos)
    BY <1>3, SlideToKeeps DEF To
  <1> QED BY <1>1, <1>2, <1>3

LEMMA NeighboursKeep ==
  ASSUME CarouselInv, NextItem \/ PrevItem
  PROVE  CarouselInv'
  <1>1. ~sliding
    BY DEF NextItem, PrevItem, Idle
  <1>2. Active \in Item
    BY <1>1, ActiveAtRest DEF CarouselInv, CarouselTypeOK
  <1>3. \E to \in Item : SlideTo(to)
    BY <1>2, NeighboursAreItems DEF NextItem, PrevItem
  <1> QED BY <1>1, <1>3, SlideToKeeps DEF NextItem, PrevItem

\* pause, cycle and the pointer.
LEMMA TimersKeep ==
  ASSUME CarouselInv, Pause \/ Cycle \/ MouseEnter \/ MouseLeave
  PROVE  CarouselInv'
  <1>1. UNCHANGED place
    BY DEF Pause, Cycle, MouseEnter, MouseLeave
  <1>2. /\ interval' \in BOOLEAN /\ paused' \in BOOLEAN /\ restarted' \in BOOLEAN
        /\ hovered' \in BOOLEAN
    <2>1. CASE Pause
      BY <2>1 DEF CarouselInv, CarouselTypeOK, Pause
    <2>2. CASE Cycle
      BY <2>2, TimingTypes DEF CarouselInv, CarouselTypeOK, Cycle
    <2>3. CASE MouseEnter \/ MouseLeave
      BY <2>3 DEF CarouselInv, CarouselTypeOK, MouseEnter, MouseLeave
    <2> QED BY <2>1, <2>2, <2>3
  <1>3. UNCHANGED <<options, deferred, slids>>
    BY DEF Pause, Cycle, MouseEnter, MouseLeave
  <1>4. CarouselTypeOK'
    BY <1>1, <1>2, <1>3 DEF CarouselInv, CarouselTypeOK, place
  <1> QED BY <1>1, <1>4, PlaceKeepsOneSlide DEF CarouselInv

\* The end of a slide makes its target the active item, and nothing moves.
LEMMA TransitionEndKeeps ==
  ASSUME CarouselInv, TransitionEnd
  PROVE  CarouselInv'
  <1>1. PICK s \in moving : Arrive(s) /\ moving' = moving \ {s}
    BY DEF TransitionEnd
  <1>2. /\ moving = {s} /\ active = {s.from} /\ indicator = s.to /\ s.from # s.to
        /\ s.to \in Item
    BY <1>1 DEF CarouselInv, CarouselTypeOK, OneSlide, Slide
  <1>3. active' = {s.to} /\ moving' = {} /\ indicator' = s.to /\ sliding' = FALSE
    BY <1>1, <1>2 DEF TransitionEnd, Arrive
  <1>4. CarouselTypeOK'
    BY <1>2, <1>3 DEF CarouselInv, CarouselTypeOK, Slide, TransitionEnd, timing
  <1>5. OneSlide'
    BY <1>3 DEF OneSlide
  <1> QED BY <1>4, <1>5 DEF CarouselInv

\* A deferred call may begin the next slide.
LEMMA SlidKeeps ==
  ASSUME CarouselInv, Slid
  PROVE  CarouselInv'
  <1>1. CASE SlidTooLate
    <2>1. CarouselTypeOK'
      BY <1>1 DEF CarouselInv, CarouselTypeOK, SlidTooLate, place, timing
    <2> QED BY <1>1, <2>1, PlaceKeepsOneSlide DEF CarouselInv, SlidTooLate
  <1>2. CASE SlidStay
    <2>1. interval' \in BOOLEAN /\ paused' \in BOOLEAN /\ restarted' \in BOOLEAN
      BY <1>2, TimingTypes DEF CarouselInv, CarouselTypeOK, SlidStay, timing
    <2>2. CarouselTypeOK'
      BY <1>2, <2>1 DEF CarouselInv, CarouselTypeOK, SlidStay, place
    <2> QED BY <1>2, <2>2, PlaceKeepsOneSlide DEF CarouselInv, SlidStay
  <1>3. ASSUME NEW k \in DOMAIN deferred, SlidTo(k)
        PROVE  CarouselInv'
    <2> DEFINE to == deferred[k]
    <2>1. moving = {} /\ active = {indicator} /\ Active = indicator
      BY <1>3, ActiveAtRest DEF CarouselInv, SlidTo
    <2>2. to \in Item /\ to # indicator /\ indicator \in Item
      BY <1>3, <2>1 DEF CarouselInv, CarouselTypeOK, SlidTo
    <2>3. deferred' \in Seq(Item)
      BY <1>3 DEF CarouselInv, CarouselTypeOK, SlidTo, Rest
    <2>4. /\ moving' = {[from |-> indicator, to |-> to]} /\ sliding' = TRUE
          /\ active' = active /\ indicator' = to
      BY <1>3, <2>1 DEF SlidTo
    <2>5. interval' \in BOOLEAN /\ paused' \in BOOLEAN /\ restarted' \in BOOLEAN
      BY <1>3, TimingTypes DEF CarouselInv, SlidTo
    <2>6. CarouselTypeOK'
      BY <1>3, <2>2, <2>3, <2>4, <2>5 DEF CarouselInv, CarouselTypeOK, SlidTo, Slide
    <2>7. OneSlide'
      BY <2>1, <2>2, <2>4, UnderWay
    <2> QED BY <2>6, <2>7 DEF CarouselInv
  <1> QED BY <1>1, <1>2, <1>3 DEF Slid

LEMMA NextKeeps ==
  ASSUME CarouselInv, [CarouselNext]_carouselVars
  PROVE  CarouselInv'
  <1>1. CASE NextItem \/ PrevItem \/ IntervalElapses
    BY <1>1, NeighboursKeep DEF IntervalElapses
  <1>2. CASE Requests
    BY <1>2, RequestsKeep DEF Requests
  <1>3. CASE Pause \/ Cycle \/ MouseEnter \/ MouseLeave
    BY <1>3, TimersKeep
  <1>4. CASE TransitionEnd
    BY <1>4, TransitionEndKeeps
  <1>5. CASE Slid
    BY <1>5, SlidKeeps
  <1>6. CASE UNCHANGED carouselVars
    <2>1. CarouselTypeOK'
      BY <1>6 DEF CarouselInv, CarouselTypeOK, carouselVars, place, timing
    <2> QED BY <1>6, <2>1, PlaceKeepsOneSlide DEF CarouselInv, carouselVars
  <1> QED BY <1>1, <1>2, <1>3, <1>4, <1>5, <1>6 DEF CarouselNext

LEMMA InitHolds ==
  ASSUME CarouselInit
  PROVE  CarouselInv
  <1>1. CarouselTypeOK
    <2>1. 0 \in Item
      BY LengthAssumption DEF Item
    <2>2. options.interval \in BOOLEAN
      BY DEF CarouselInit
    <2>3. active \in SUBSET Item /\ moving \in SUBSET Slide /\ indicator \in Item
      BY <2>1 DEF CarouselInit
    <2>4. interval \in BOOLEAN /\ paused \in BOOLEAN /\ sliding \in BOOLEAN
          /\ hovered \in BOOLEAN /\ restarted \in BOOLEAN
      BY <2>2 DEF CarouselInit
    <2>5. deferred \in Seq(Item) /\ slids \in Nat
      BY DEF CarouselInit
    <2> QED BY <2>3, <2>4, <2>5 DEF CarouselInit, CarouselTypeOK
  <1>2. OneSlide
    BY DEF CarouselInit, OneSlide
  <1> QED BY <1>1, <1>2 DEF CarouselInv

LEMMA CInvHolds == CarouselSpec => []CarouselInv
  BY InitHolds, NextKeeps, PTL DEF CarouselSpec

-----------------------------------------------------------------------------
(* The theorems *)

\* The methods and handlers keep every variable in its type: what
\* getItemForDirection and to are asked for is an item.
THEOREM TypeCorrect == CarouselSpec => []CarouselTypeOK
  <1>1. CarouselInv => CarouselTypeOK
    BY DEF CarouselInv
  <1> QED BY <1>1, CInvHolds, PTL

\* With any number of items, one is active and one slide at most is under way,
\* and this.sliding tells whether there is one (slide, next, prev, to).
THEOREM SlidesDoNotOverlap == CarouselSpec => []OneSlide
  <1>1. CarouselInv => OneSlide
    BY DEF CarouselInv
  <1> QED BY <1>1, CInvHolds, PTL

\* mouseenter stops the interval, and only a call of cycle without an event
\* starts it again before mouseleave does.
THEOREM PointerHolds == CarouselSpec => []HoverHolds
  <1>1. CarouselInit => HoverHolds
    BY DEF CarouselInit, HoverHolds
  <1>2. ASSUME HoverHolds, [CarouselNext]_carouselVars
        PROVE  HoverHolds'
    <2>1. CASE Restart /\ UNCHANGED hovered
      BY <2>1 DEF Restart, HoverHolds
    <2>2. CASE KeepCycling /\ UNCHANGED hovered
      BY <1>2, <2>2 DEF KeepCycling, HoverHolds
    <2>3. CASE UNCHANGED <<timing, hovered>>
      BY <1>2, <2>3 DEF timing, HoverHolds
    <2>4. CASE NextItem \/ PrevItem \/ IntervalElapses
      BY <2>2, <2>3, <2>4 DEF NextItem, PrevItem, IntervalElapses, SlideTo
    <2>5. CASE Requests
      BY <2>1, <2>2, <2>3, <2>5 DEF Requests, ToLater, ToActive, To, SlideTo
    <2>6. CASE Pause
      BY <2>6 DEF Pause, HoverHolds
    <2>7. CASE Cycle
      BY <2>1, <2>7 DEF Cycle
    <2>8. CASE MouseEnter \/ MouseLeave
      BY <2>8 DEF MouseEnter, MouseLeave, HoverHolds
    <2>9. CASE TransitionEnd
      BY <2>3, <2>9 DEF TransitionEnd
    <2>10. CASE Slid
      BY <2>1, <2>2, <2>3, <2>10 DEF Slid, SlidTooLate, SlidStay, SlidTo
    <2>11. CASE UNCHANGED carouselVars
      BY <2>3, <2>11 DEF carouselVars
    <2> QED BY <1>2, <2>4, <2>5, <2>6, <2>7, <2>8, <2>9, <2>10, <2>11 DEF CarouselNext
  <1> QED BY <1>1, <1>2, PTL DEF CarouselSpec

-----------------------------------------------------------------------------
(***************************************************************************)
(* The classifier's page                                                   *)
(***************************************************************************)

\* Loads have filled the list as far as they have come.
ListInv ==
  /\ \A k \in DOMAIN loads : loads[k].batch <= Len(loaded_train_batches)
  /\ \A i \in DOMAIN loaded_train_batches : loaded_train_batches[i] < i

PageInv == PageTypeOK /\ ListInv

\* One thing at a time.
OneInv ==
  ~clicks.overlapped =>
    /\ loads # <<>> => Len(loads) = 1 /\ requests = <<>> /\ enabled \cap {"load", "input"} = {}
    /\ requests # <<>> => requests = <<current_samples>> /\ enabled = {}
    /\ ResultsMatch

SamplesInv == PageTypeOK /\ OneInv

LoadUnderWay == [batch : 0..Available, waits : {"timer", "image"}]

-----------------------------------------------------------------------------
(* Helpers *)

LEMMA RemoveAtLemma ==
  ASSUME NEW S, NEW s \in Seq(S), NEW k \in DOMAIN s
  PROVE  /\ RemoveAt(s, k) \in Seq(S)
         /\ Len(RemoveAt(s, k)) = Len(s) - 1
         /\ \A i \in DOMAIN RemoveAt(s, k) : \E j \in DOMAIN s : RemoveAt(s, k)[i] = s[j]
  <1> DEFINE before == SubSeq(s, 1, k - 1)
             after == SubSeq(s, k + 1, Len(s))
  <1>1. k \in 1..Len(s) /\ Len(s) \in Nat
    OBVIOUS
  <1>2. before \in Seq(S) /\ Len(before) = k - 1 /\ \A i \in 1..k - 1 : before[i] = s[i]
    BY <1>1
  <1>3. /\ after \in Seq(S) /\ Len(after) = Len(s) - k
        /\ \A i \in 1..Len(s) - k : after[i] = s[k + i]
    BY <1>1
  <1> HIDE DEF before, after
  <1>4. RemoveAt(s, k) = before \o after
    BY DEF RemoveAt, before, after
  <1>5. before \o after \in Seq(S) /\ Len(before \o after) = Len(s) - 1
    BY <1>1, <1>2, <1>3
  <1>6. ASSUME NEW i \in DOMAIN (before \o after)
        PROVE  \E j \in DOMAIN s : (before \o after)[i] = s[j]
    <2>1. CASE i <= k - 1
      BY <1>1, <1>2, <1>3, <1>5, <2>1
    <2>2. CASE i > k - 1
      <3>1. (before \o after)[i] = after[i - (k - 1)] /\ i - (k - 1) \in 1..Len(s) - k
        BY <1>1, <1>2, <1>3, <1>5, <2>2
      <3>2. PICK m \in 1..Len(s) - k : (before \o after)[i] = after[m]
        BY <3>1
      <3>3. after[m] = s[k + m]
        BY <1>3
      <3>4. k + m \in DOMAIN s
        BY <1>1
      <3> QED BY <3>2, <3>3, <3>4
    <2> QED BY <1>1, <1>5, <2>1, <2>2
  <1> QED BY <1>4, <1>5, <1>6

LEMMA SeqOfFunction ==
  ASSUME NEW S, NEW n \in Nat, NEW f \in [1..n -> S]
  PROVE  f \in Seq(S) /\ Len(f) = n
  OBVIOUS

LEMMA LoadTypes ==
  ASSUME PageInv
  PROVE  /\ Available \in Nat /\ num_samples \in Nat
         /\ loaded_train_batches \in Seq(0..Available - 1)
         /\ loads \in Seq(LoadUnderWay)
         /\ \A k \in DOMAIN loads :
              /\ loads[k] \in LoadUnderWay
              /\ loads[k].batch \in 0..Available
              /\ loads[k].batch <= Len(loaded_train_batches)
  <1>1. /\ Available \in Nat /\ num_samples \in Nat
        /\ loaded_train_batches \in Seq(0..Available - 1)
        /\ loads \in Seq(LoadUnderWay)
    BY PageAssumption DEF PageInv, PageTypeOK, LoadUnderWay, Count
  <1>2. ASSUME NEW k \in DOMAIN loads
        PROVE  /\ loads[k] \in LoadUnderWay
               /\ loads[k].batch \in 0..Available
               /\ loads[k].batch <= Len(loaded_train_batches)
    <2>1. loads[k] \in LoadUnderWay
      BY <1>1
    <2>2. loads[k].batch \in 0..Available
      BY <2>1 DEF LoadUnderWay
    <2>3. loads[k].batch <= Len(loaded_train_batches)
      BY DEF PageInv, ListInv
    <2> QED BY <2>1, <2>2, <2>3
  <1> QED BY <1>1, <1>2

\* What is drawn is in the list, at most as late as there are batches to load.
LEMMA DrawnSamples ==
  ASSUME PageInv, NEW k \in DOMAIN loads, Draw(k)
  PROVE  /\ current_samples' \in Seq(0..Available - 1)
         /\ Len(current_samples') <= Available
         /\ \A j \in DOMAIN current_samples' :
              /\ current_samples'[j] \in 0..num_samples - 1
              /\ Contains(loaded_train_batches, current_samples'[j])
  <1>1. /\ loads[k].batch \in 0..Available /\ loads[k].batch <= Len(loaded_train_batches)
        /\ num_samples \in Nat /\ Available \in Nat /\ Len(loaded_train_batches) \in Nat
        /\ loaded_train_batches \in Seq(0..Available - 1)
    BY LoadTypes
  <1>2. /\ loaded_train_batches \in Seq(0..Available - 1)
        /\ DOMAIN loaded_train_batches = 1..Len(loaded_train_batches)
    BY <1>1
  <1>3. num_samples <= Available /\ num_samples <= Len(loaded_train_batches)
    BY <1>1 DEF Draw
  <1>4. PICK places \in [1..num_samples -> 1..num_samples] :
          current_samples' = [j \in 1..num_samples |-> Sample(places[j])]
    BY DEF Draw
  <1>5. ASSUME NEW j \in 1..num_samples
        PROVE  /\ Sample(places[j]) \in 0..num_samples - 1
               /\ Sample(places[j]) \in 0..Available - 1
               /\ Contains(loaded_train_batches, Sample(places[j]))
    <2>1. places[j] \in 1..num_samples /\ places[j] \in DOMAIN loaded_train_batches
      BY <1>1, <1>2, <1>3
    <2>2. Sample(places[j]) = loaded_train_batches[places[j]]
      BY <2>1 DEF Sample
    <2>3. loaded_train_batches[places[j]] \in 0..Available - 1
      <3> DEFINE B == 0..Available - 1
      <3>1. loaded_train_batches \in Seq(B)
        BY <1>2
      <3> HIDE DEF B
      <3>2. loaded_train_batches[places[j]] \in B
        BY <2>1, <3>1, ElementOfSeq
      <3> QED BY <3>2 DEF B
    <2>4. loaded_train_batches[places[j]] < places[j]
      BY <2>1 DEF PageInv, ListInv
    <2>5. Contains(loaded_train_batches, Sample(places[j]))
      <3>1. places[j] \in 1..Len(loaded_train_batches)
        BY <1>2, <2>1
      <3> QED BY <2>2, <3>1 DEF Contains
    <2> QED BY <1>1, <2>1, <2>2, <2>3, <2>4, <2>5
  <1>6. /\ current_samples' \in [1..num_samples -> 0..Available - 1]
        /\ DOMAIN current_samples' = 1..num_samples
        /\ \A j \in 1..num_samples : current_samples'[j] = Sample(places[j])
    BY <1>4, <1>5
  <1>7. current_samples' \in Seq(0..Available - 1) /\ Len(current_samples') = num_samples
    BY <1>1, <1>6, SeqOfFunction
  <1> QED BY <1>3, <1>5, <1>6, <1>7

-----------------------------------------------------------------------------
(* The steps *)

LEMMA BrowserKeeps ==
  ASSUME PageInv, NEW k \in DOMAIN loads, LoadNext(k) \/ Draw(k) \/ ImageLoaded(k) \/ ImageFails(k)
  PROVE  PageInv'
  <1> DEFINE n == Len(loaded_train_batches)
  <1>1. /\ loads \in Seq(LoadUnderWay) /\ loads[k] \in LoadUnderWay
        /\ n \in Nat /\ Available \in Nat
        /\ loaded_train_batches \in Seq(0..Available - 1)
    BY LoadTypes
  <1>2. CASE LoadNext(k)
    <2>1. /\ loads' \in Seq(LoadUnderWay)
          /\ DOMAIN loads' = DOMAIN loads
          /\ \A j \in DOMAIN loads : loads'[j].batch = loads[j].batch
      BY <1>1, <1>2 DEF LoadNext, LoadUnderWay
    <2>2. PageTypeOK'
      BY <1>2, <2>1 DEF PageInv, PageTypeOK, LoadNext, LoadUnderWay
    <2>3. ListInv'
      BY <1>2, <2>1 DEF PageInv, ListInv, LoadNext
    <2> QED BY <2>2, <2>3 DEF PageInv
  <1>3. CASE Draw(k)
    <2>1. loads' = RemoveAt(loads, k)
      BY <1>3 DEF Draw
    <2>2. /\ loads' \in Seq(LoadUnderWay)
          /\ \A i \in DOMAIN loads' : \E j \in DOMAIN loads : loads'[i] = loads[j]
      BY <1>1, <2>1, RemoveAtLemma
    <2>3. /\ current_samples' \in Seq(0..Available - 1)
          /\ Len(current_samples') <= Available
      BY <1>3, DrawnSamples
    <2>4. PageTypeOK'
      BY <1>3, <2>2, <2>3 DEF PageInv, PageTypeOK, Draw, LoadUnderWay, Samples
    <2>5. ListInv'
      BY <1>3, <2>2 DEF PageInv, ListInv, Draw
    <2> QED BY <2>4, <2>5 DEF PageInv
  <1>4. CASE ImageLoaded(k)
    <2> DEFINE b == loads[k].batch
    <2>1. b \in 0..Available - 1 /\ b <= n
      BY <1>1, <1>4 DEF PageInv, ListInv, ImageLoaded, LoadUnderWay
    <2>2. /\ loaded_train_batches' \in Seq(0..Available - 1)
          /\ Len(loaded_train_batches') = n + 1
          /\ loaded_train_batches'[n + 1] = b
          /\ \A i \in 1..n : loaded_train_batches'[i] = loaded_train_batches[i]
      BY <1>1, <1>4, <2>1 DEF ImageLoaded
    <2>3. /\ loads' \in Seq(LoadUnderWay)
          /\ DOMAIN loads' = DOMAIN loads
          /\ \A j \in DOMAIN loads :
               loads'[j].batch = IF j = k THEN b + 1 ELSE loads[j].batch
      BY <1>1, <1>4, <2>1 DEF ImageLoaded, LoadUnderWay
    <2>4. PageTypeOK'
      BY <1>4, <2>2, <2>3 DEF PageInv, PageTypeOK, ImageLoaded, LoadUnderWay
    <2>5. ASSUME NEW j \in DOMAIN loads'
          PROVE  loads'[j].batch <= Len(loaded_train_batches')
      <3>1. loads[j].batch <= n /\ loads[j].batch \in 0..Available
        BY <2>3, LoadTypes
      <3>2. loads'[j].batch = b + 1 \/ loads'[j].batch = loads[j].batch
        BY <2>3
      <3>3. loads'[j].batch <= n + 1
        BY <1>1, <2>1, <3>1, <3>2
      <3> QED BY <2>2, <3>3
    <2>6. ASSUME NEW i \in DOMAIN loaded_train_batches'
          PROVE  loaded_train_batches'[i] < i
      <3>1. CASE i = n + 1
        BY <1>1, <2>1, <2>2, <3>1
      <3>2. CASE i \in 1..n
        <4>1. loaded_train_batches[i] < i
          BY <1>1, <3>2 DEF PageInv, ListInv
        <4> QED BY <2>2, <3>2, <4>1
      <3>3. i \in 1..n + 1
        BY <1>1, <2>2
      <3> QED BY <1>1, <3>1, <3>2, <3>3
    <2> QED BY <2>4, <2>5, <2>6 DEF PageInv, ListInv
  <1>5. CASE ImageFails(k)
    <2>1. loads' = RemoveAt(loads, k)
      BY <1>5 DEF ImageFails
    <2>2. /\ loads' \in Seq(LoadUnderWay)
          /\ \A i \in DOMAIN loads' : \E j \in DOMAIN loads : loads'[i] = loads[j]
      BY <1>1, <2>1, RemoveAtLemma
    <2>3. clicks' \in [loads : 0..MaxLoads, runs : 0..MaxRuns,
                        overlapped : BOOLEAN, failed : BOOLEAN]
      BY <1>5 DEF PageInv, PageTypeOK, ImageFails
    <2>4. PageTypeOK'
      BY <1>5, <2>2, <2>3 DEF PageInv, PageTypeOK, ImageFails, LoadUnderWay
    <2>5. ListInv'
      BY <1>5, <2>2 DEF PageInv, ListInv, ImageFails
    <2> QED BY <2>4, <2>5 DEF PageInv
  <1> QED BY <1>2, <1>3, <1>4, <1>5

LEMMA UserKeeps ==
  ASSUME PageInv, (\E count \in Count : Type(count)) \/ Load \/ Start
  PROVE  PageInv'
  <1>1. CASE \E count \in Count : Type(count)
    BY <1>1 DEF PageInv, PageTypeOK, ListInv, Type, Widget
  <1>2. CASE Load
    <2>1. /\ loads' \in Seq(LoadUnderWay) /\ Len(loads') = Len(loads) + 1
          /\ \A i \in 1..Len(loads) : loads'[i] = loads[i]
          /\ loads'[Len(loads) + 1].batch = 0
      BY <1>2, PageAssumption DEF PageInv, PageTypeOK, Load, LoadUnderWay
    <2>2. clicks'.loads \in 0..MaxLoads /\ enabled' \subseteq Widget
      BY <1>2, ClicksAssumption DEF PageInv, PageTypeOK, Load
    <2>3. PageTypeOK'
      BY <1>2, <2>1, <2>2 DEF PageInv, PageTypeOK, Load, LoadUnderWay
    <2>4. ASSUME NEW j \in DOMAIN loads'
          PROVE  loads'[j].batch <= Len(loaded_train_batches)
      <3>1. j \in 1..Len(loads) + 1 /\ Len(loads) \in Nat /\ Len(loaded_train_batches) \in Nat
        BY <2>1, LoadTypes
      <3>2. CASE j \in DOMAIN loads
        <4>1. loads[j].batch <= Len(loaded_train_batches) /\ DOMAIN loads = 1..Len(loads)
          BY <3>2, LoadTypes
        <4> QED BY <2>1, <3>2, <4>1
      <3>3. CASE j = Len(loads) + 1
        BY <2>1, <3>1, <3>3
      <3> QED BY <3>1, <3>2, <3>3, LoadTypes
    <2>5. ListInv'
      BY <1>2, <2>4 DEF PageInv, ListInv, Load
    <2> QED BY <2>3, <2>5 DEF PageInv
  <1>3. CASE Start
    <2>1. clicks'.runs \in 0..MaxRuns /\ clicks'.overlapped \in BOOLEAN
      BY <1>3, ClicksAssumption DEF PageInv, PageTypeOK, Start
    <2>2. requests' \in Seq(Samples)
      BY <1>3 DEF PageInv, PageTypeOK, Start, Samples
    <2>3. clicks' \in [loads : 0..MaxLoads, runs : 0..MaxRuns,
                        overlapped : BOOLEAN, failed : BOOLEAN]
      BY <1>3, <2>1 DEF PageInv, PageTypeOK, Start
    <2>4. PageTypeOK'
      BY <1>3, <2>2, <2>3 DEF PageInv, PageTypeOK, Start, Busy
    <2>5. ListInv'
      BY <1>3 DEF PageInv, ListInv, Start
    <2> QED BY <2>4, <2>5 DEF PageInv
  <1> QED BY <1>1, <1>2, <1>3

LEMMA ServerKeeps ==
  ASSUME PageInv, Respond \/ Fail
  PROVE  PageInv'
  <1>1. /\ requests \in Seq(Samples) /\ requests # <<>> /\ current_samples \in Samples
        /\ requests' = Tail(requests)
    BY DEF PageInv, PageTypeOK, Respond, Fail
  <1>2. Head(requests) \in Samples /\ requests' \in Seq(Samples)
    <2> HIDE DEF Samples
    <2> QED BY <1>1
  <1>3. ASSUME Respond PROVE PageTypeOK'
    <2>1. result' \in [answered : Samples, compared : Samples]
      BY <1>1, <1>2, <1>3 DEF Respond
    <2>2. enabled' \subseteq Widget
      BY <1>3 DEF Respond, AfterRun
    <2> QED BY <1>2, <1>3, <2>1, <2>2 DEF PageInv, PageTypeOK, Respond
  <1>4. ASSUME Fail PROVE PageTypeOK'
    <2>1. clicks' \in [loads : 0..MaxLoads, runs : 0..MaxRuns,
                        overlapped : BOOLEAN, failed : BOOLEAN]
      BY <1>4 DEF PageInv, PageTypeOK, Fail
    <2> QED BY <1>2, <1>4, <2>1 DEF PageInv, PageTypeOK, Fail
  <1>5. PageTypeOK'
    BY <1>3, <1>4
  <1>6. ListInv'
    BY DEF PageInv, ListInv, Respond, Fail
  <1> QED BY <1>6, <1>5 DEF PageInv

LEMMA PInvHolds == PageSpec => []PageInv
  <1>1. ASSUME PageInit
        PROVE  PageInv
    BY <1>1, PageAssumption, ClicksAssumption
       DEF PageInit, PageInv, PageTypeOK, ListInv, Count, Widget, Samples
  <1>2. ASSUME PageInv, [PageNext]_pageVars
        PROVE  PageInv'
    <2>1. CASE Browser
      BY <1>2, <2>1, BrowserKeeps DEF Browser
    <2>2. CASE UNCHANGED pageVars
      BY <1>2, <2>2 DEF PageInv, PageTypeOK, ListInv, pageVars
    <2> QED BY <1>2, <2>1, <2>2, UserKeeps, ServerKeeps DEF PageNext
  <1> QED BY <1>1, <1>2, PTL DEF PageSpec

\* Nothing begins while a load or a run is under way.
LEMMA OneInvKeeps ==
  ASSUME SamplesInv, [PageNext]_pageVars
  PROVE  OneInv'
  <1> SUFFICES ASSUME ~clicks'.overlapped
               PROVE  OneInv'
    BY DEF OneInv
  <1>1. CASE \E count \in Count : Type(count)
    BY <1>1 DEF SamplesInv, OneInv, ResultsMatch, Type
  <1>2. CASE Load
    BY <1>2 DEF SamplesInv, PageTypeOK, OneInv, ResultsMatch, Load
  <1>3. ASSUME NEW k \in DOMAIN loads, LoadNext(k) \/ Draw(k) \/ ImageLoaded(k) \/ ImageFails(k)
        PROVE  OneInv'
    <2>1. /\ ~clicks.overlapped /\ loads # <<>> /\ loads \in Seq(LoadUnderWay)
          /\ clicks'.overlapped = clicks.overlapped /\ UNCHANGED <<result, requests>>
      BY <1>3 DEF SamplesInv, PageTypeOK, LoadNext, Draw, ImageLoaded, ImageFails, LoadUnderWay
    <2>2. Len(loads) = 1 /\ requests = <<>> /\ result.answered = result.compared
      BY <2>1 DEF SamplesInv, OneInv, ResultsMatch
    <2>3. CASE LoadNext(k) \/ ImageLoaded(k)
      <3>1. Len(loads') = 1 /\ enabled' = enabled
        BY <2>1, <2>2, <2>3 DEF LoadNext, ImageLoaded
      <3> QED BY <2>1, <2>2, <3>1 DEF SamplesInv, OneInv, ResultsMatch
    <2>4. CASE Draw(k)
      <3>1. loads' \in Seq(LoadUnderWay) /\ Len(loads') = 0
        BY <1>3, <2>1, <2>2, <2>4, RemoveAtLemma, SMTT(30) DEF Draw
      <3>2. loads' = <<>>
        BY <3>1
      <3> QED BY <2>1, <2>2, <3>2 DEF OneInv, ResultsMatch
    <2>5. CASE ImageFails(k)
      <3>1. loads' = RemoveAt(loads, k) /\ enabled' = enabled
        BY <2>5 DEF ImageFails
      <3>2. loads' \in Seq(LoadUnderWay) /\ Len(loads') = 0
        BY <1>3, <2>1, <2>2, <3>1, RemoveAtLemma, SMTT(30)
      <3>3. loads' = <<>>
        BY <3>2
      <3> QED BY <2>1, <2>2, <3>1, <3>3 DEF SamplesInv, OneInv, ResultsMatch
    <2> QED BY <1>3, <2>3, <2>4, <2>5
  <1>4. CASE Start
    <2>1. loads = <<>> /\ ~clicks.overlapped /\ requests = <<>>
      BY <1>4 DEF SamplesInv, PageTypeOK, OneInv, Start
    <2>2. loads' = <<>> /\ requests' = <<current_samples'>> /\ enabled' = {} /\ result' = result
      BY <1>4, <2>1 DEF Start, Busy
    <2> QED BY <2>1, <2>2 DEF SamplesInv, OneInv, ResultsMatch
  <1>5. CASE Respond
    <2>1. /\ requests = <<current_samples>> /\ loads' = <<>>
      BY <1>5 DEF SamplesInv, OneInv, Respond
    <2>2. requests' = <<>> /\ result' = [answered |-> current_samples, compared |-> current_samples]
      BY <1>5, <2>1 DEF Respond
    <2> QED BY <2>1, <2>2 DEF OneInv, ResultsMatch
  <1>6. CASE Fail
    <2>1. /\ requests = <<current_samples>> /\ loads' = <<>> /\ ResultsMatch
          /\ ~clicks.overlapped
      BY <1>6 DEF SamplesInv, PageTypeOK, OneInv, Fail
    <2>2. requests' = <<>> /\ result' = result
      BY <1>6, <2>1 DEF Fail
    <2> QED BY <2>1, <2>2 DEF OneInv, ResultsMatch
  <1>7. CASE UNCHANGED pageVars
    BY <1>7 DEF SamplesInv, OneInv, ResultsMatch, pageVars
  <1> QED BY <1>1, <1>2, <1>3, <1>4, <1>5, <1>6, <1>7 DEF PageNext, Browser

-----------------------------------------------------------------------------
(* The theorems *)

\* The page's variables keep their types: no sample is undefined, and no batch
\* is beyond the last, whatever loads and runs overlap.
THEOREM PageTypes == PageSpec => []PageTypeOK
  <1>1. PageInv => PageTypeOK
    BY DEF PageInv
  <1> QED BY <1>1, PInvHolds, PTL

\* sample_training_instance finds a loaded batch among the first num_batches,
\* though an earlier load may have left the list with others.
THEOREM SamplingIsSafe == PageSpec => SamplesFromLoaded
  <1>1. ASSUME PageInv, [PageNext]_pageVars
        PROVE  current_samples' # current_samples =>
                 \A j \in DOMAIN current_samples' :
                   /\ current_samples'[j] \in 0..num_samples - 1
                   /\ Contains(loaded_train_batches, current_samples'[j])
    <2>1. CASE \E k \in DOMAIN loads : Draw(k)
      BY <1>1, <2>1, DrawnSamples
    <2>2. CASE ~\E k \in DOMAIN loads : Draw(k)
      BY <1>1, <2>2 DEF PageNext, Type, Load, Start, Browser, LoadNext, ImageLoaded, ImageFails, Respond, Fail, pageVars
    <2> QED BY <2>1, <2>2
  <1> QED BY <1>1, PInvHolds, PTL DEF PageSpec, SamplesFromLoaded

\* While Start is not clicked during a load, the callback of post compares the
\* answers with the samples that were posted.
THEOREM AnswersMeetSamples == PageSpec => []ResultsMatch
  <1>1. PageInit => OneInv
    BY DEF PageInit, OneInv, ResultsMatch
  <1>2. PageTypeOK /\ OneInv /\ [PageNext]_pageVars => OneInv'
    BY OneInvKeeps DEF SamplesInv
  <1>3. OneInv => ResultsMatch
    BY DEF OneInv, ResultsMatch
  <1> QED BY <1>1, <1>2, <1>3, PageTypes, PTL DEF PageSpec

-----------------------------------------------------------------------------
(***************************************************************************)
(* The deep-Q agent                                                        *)
(***************************************************************************)

\* An array of n values.
IsArray(w, n) == w = [j \in 1..n |-> w[j]]

IsWindow(w) == IsArray(w, window_size)

\* The pass that place j of a window belongs to.
PassAt(j) == forward_passes - window_size + j

ShapeInv ==
  /\ temporal_window \in Nat
  /\ history \in Seq([action : Action, reward : Nat \cup {None}])
  /\ IsWindow(net_window) /\ IsWindow(state_window)
  /\ IsWindow(action_window) /\ IsWindow(reward_window)

WindowsInv ==
  \A j \in 1..window_size, i \in 1..forward_passes : i = PassAt(j) =>
    /\ state_window[j] = i
    /\ action_window[j] = history[i].action
    /\ i > temporal_window => net_window[j] = InputOf(i)

Rewarded(i) == history[i].reward # None

RewardsInv ==
  LET fp == forward_passes
      latest == reward_window[window_size]
  IN /\ fp > 0 /\ Rewarded(fp) => latest = history[fp].reward
     /\ fp > 1 /\ ~Rewarded(fp) /\ Rewarded(fp - 1) => latest = history[fp - 1].reward

MemoryInv ==
  /\ Len(experience) \in Nat
  /\ IsArray(experience, Len(experience))

BrainInv == ShapeInv /\ WindowsInv /\ RewardsInv /\ MemoryInv /\ TrueTransitions

-----------------------------------------------------------------------------
(* Helpers *)

LEMMA SeqIsArray ==
  ASSUME NEW S, NEW s \in Seq(S)
  PROVE  IsArray(s, Len(s))
  <1>1. s \in [1..Len(s) -> S]
    OBVIOUS
  <1> QED BY <1>1 DEF IsArray

\* shift() and push(x) move every value one place.
LEMMA ShiftedIs ==
  ASSUME NEW n \in Nat \ {0}, NEW w, IsArray(w, n), NEW x
  PROVE  /\ IsArray(Shifted(w, x), n)
         /\ Shifted(w, x)[n] = x
         /\ \A j \in 1..n - 1 : Shifted(w, x)[j] = w[j + 1]
  <1> DEFINE S == {w[j] : j \in 1..n} \cup {x}
  <1>1. w \in [1..n -> S]
    <2>1. w = [j \in 1..n |-> w[j]]
      BY DEF IsArray
    <2> QED BY <2>1
  <1> HIDE DEF S
  <1>2. w \in Seq(S) /\ Len(w) = n
    BY <1>1
  <1>3. x \in S
    BY DEF S
  <1>4. /\ Tail(w) \in Seq(S) /\ Len(Tail(w)) = n - 1
        /\ \A j \in 1..n - 1 : Tail(w)[j] = w[j + 1]
    BY <1>2
  <1>5. /\ Append(Tail(w), x) \in Seq(S) /\ Len(Append(Tail(w), x)) = n
        /\ Append(Tail(w), x)[n] = x
        /\ \A j \in 1..n - 1 : Append(Tail(w), x)[j] = w[j + 1]
    BY <1>3, <1>4
  <1>6. IsArray(Append(Tail(w), x), n)
    BY <1>5, SeqIsArray
  <1> QED BY <1>5, <1>6 DEF Shifted

\* push(x) on an array.
LEMMA AppendIs ==
  ASSUME NEW n \in Nat, NEW s, IsArray(s, n), NEW x
  PROVE  /\ Len(s) = n /\ Len(Append(s, x)) = n + 1
         /\ IsArray(Append(s, x), n + 1)
         /\ Append(s, x)[n + 1] = x
         /\ \A k \in 1..n : Append(s, x)[k] = s[k]
  <1> DEFINE S == {s[k] : k \in 1..n} \cup {x}
  <1>1. s \in [1..n -> S]
    <2>1. s = [k \in 1..n |-> s[k]]
      BY DEF IsArray
    <2> QED BY <2>1
  <1> HIDE DEF S
  <1>2. s \in Seq(S) /\ Len(s) = n
    BY <1>1
  <1>3. x \in S
    BY DEF S
  <1>4. /\ Append(s, x) \in Seq(S) /\ Len(Append(s, x)) = n + 1
        /\ Append(s, x)[n + 1] = x
        /\ \A k \in 1..n : Append(s, x)[k] = s[k]
    BY <1>2, <1>3
  <1>5. IsArray(Append(s, x), n + 1)
    BY <1>4, SeqIsArray
  <1> QED BY <1>2, <1>4, <1>5

LEMMA WindowIsWide == ShapeInv => window_size \in Nat /\ window_size >= 2 /\ window_size >= temporal_window
  BY DEF ShapeInv, window_size

\* The input of a pass depends on the actions before it only.
LEMMA InputStable ==
  ASSUME ShapeInv, temporal_window' = temporal_window,
         NEW i \in Nat, i > temporal_window, i <= forward_passes + 1,
         \A k \in 1..forward_passes : history'[k].action = history[k].action
  PROVE  InputOf(i)' = InputOf(i)
  <1>1. forward_passes \in Nat /\ temporal_window \in Nat
    BY DEF ShapeInv, forward_passes
  <1>2. \A k \in 1..temporal_window : history'[i - k].action = history[i - k].action
    BY <1>1
  <1> QED BY <1>2 DEF InputOf

-----------------------------------------------------------------------------
(* The steps *)

\* A pass that is past is not changed but for its reward.
LEMMA ForwardKeeps ==
  ASSUME BrainInv, NEW action \in Action, forward(action)
  PROVE  BrainInv'
  <1> DEFINE n == window_size
             fp == forward_passes
             t == temporal_window
  <1>1. /\ t \in Nat /\ n \in Nat /\ n >= 2 /\ n >= t /\ n \in Nat \ {0}
        /\ fp \in Nat /\ fp = Len(history)
        /\ history \in Seq([action : Action, reward : Nat \cup {None}])
    BY WindowIsWide DEF BrainInv, ShapeInv, forward_passes
  <1>2. t' = t /\ n' = n /\ UNCHANGED <<reward_window, experience>>
    BY DEF forward, window_size
  <1>3. history' = Append(history, [action |-> action, reward |-> None])
    BY DEF forward
  <1>4. /\ history' \in Seq([action : Action, reward : Nat \cup {None}])
        /\ fp' = fp + 1
        /\ history'[fp + 1] = [action |-> action, reward |-> None]
        /\ \A i \in 1..fp : history'[i] = history[i]
    BY <1>1, <1>3 DEF forward_passes
  <1>5. PICK seen : /\ net_window' = Shifted(net_window, seen)
                    /\ Enough => seen = getNetInput(fp + 1)
    BY DEF forward
  <1>6. /\ state_window' = Shifted(state_window, fp + 1)
        /\ action_window' = Shifted(action_window, action)
    BY DEF forward
  <1>7. /\ IsArray(net_window', n) /\ IsArray(state_window', n) /\ IsArray(action_window', n)
        /\ net_window'[n] = seen /\ state_window'[n] = fp + 1 /\ action_window'[n] = action
        /\ \A j \in 1..n - 1 :
             /\ net_window'[j] = net_window[j + 1]
             /\ state_window'[j] = state_window[j + 1]
             /\ action_window'[j] = action_window[j + 1]
    <2>1. IsArray(net_window, n) /\ IsArray(state_window, n) /\ IsArray(action_window, n)
      BY DEF BrainInv, ShapeInv, IsWindow
    <2>2. net_window' = Shifted(net_window, seen)
      BY <1>5
    <2>3. IsArray(net_window', n) /\ net_window'[n] = seen /\ \A j \in 1..n - 1 : net_window'[j] = net_window[j + 1]
      BY <1>1, <2>1, <2>2, ShiftedIs
    <2>4. IsArray(state_window', n) /\ state_window'[n] = fp + 1
          /\ \A j \in 1..n - 1 : state_window'[j] = state_window[j + 1]
      BY <1>1, <1>6, <2>1, ShiftedIs
    <2>5. IsArray(action_window', n) /\ action_window'[n] = action
          /\ \A j \in 1..n - 1 : action_window'[j] = action_window[j + 1]
      BY <1>1, <1>6, <2>1, ShiftedIs
    <2> QED BY <2>3, <2>4, <2>5
  <1>8. ShapeInv'
    <2>1. IsArray(reward_window', n)
      BY <1>2 DEF BrainInv, ShapeInv, IsWindow
    <2> QED BY <1>1, <1>2, <1>4, <1>7, <2>1 DEF ShapeInv, IsWindow
  <1>9. ASSUME NEW i \in 1..fp, i > t
        PROVE  InputOf(i)' = InputOf(i)
    <2>1. ShapeInv /\ i \in Nat /\ i <= fp + 1
      BY <1>1 DEF BrainInv
    <2>2. \A k \in 1..fp : history'[k].action = history[k].action
      BY <1>4
    <2> QED BY <1>2, <1>9, <2>1, <2>2, InputStable
  <1>10. WindowsInv'
    <2> SUFFICES ASSUME NEW j \in 1..n', NEW i \in 1..fp', i = PassAt(j)'
                 PROVE  /\ state_window'[j] = i
                        /\ action_window'[j] = history'[i].action
                        /\ i > t' => net_window'[j] = InputOf(i)'
      BY DEF WindowsInv
    <2>1. j \in 1..n /\ i \in 1..fp + 1 /\ i = fp + 1 - n + j
      BY <1>1, <1>2, <1>4 DEF PassAt
    <2>2. CASE j = n
      <3>1. i = fp + 1
        BY <1>1, <2>1, <2>2
      <3>2. /\ state_window'[j] = fp + 1 /\ action_window'[j] = action
            /\ net_window'[j] = seen
        BY <1>7, <2>1, <2>2
      <3>3. ASSUME i > t
            PROVE  seen = InputOf(i)'
        <4>1. seen = getNetInput(i)
          <5>1. Enough
            BY <1>1, <3>1, <3>3 DEF Enough
          <5> QED BY <1>5, <3>1, <5>1
        <4>2. ASSUME NEW k \in 1..t
              PROVE  /\ state_window[n + 1 - k] = i - k
                     /\ action_window[n + 1 - k] = history'[i - k].action
          <5>1. n + 1 - k \in 1..n /\ i - k \in 1..fp /\ i - k = PassAt(n + 1 - k)
            BY <1>1, <3>1, <3>3, <4>2 DEF PassAt
          <5>2. /\ state_window[n + 1 - k] = i - k
                /\ action_window[n + 1 - k] = history[i - k].action
            BY <5>1 DEF BrainInv, WindowsInv
          <5> QED BY <1>4, <5>1, <5>2
        <4> QED BY <1>2, <4>1, <4>2 DEF getNetInput, InputOf
      <3> QED BY <1>2, <1>4, <3>1, <3>2, <3>3
    <2>3. CASE j # n
      <3>1. j + 1 \in 1..n /\ i = PassAt(j + 1) /\ i \in 1..fp
        BY <1>1, <2>1, <2>3 DEF PassAt
      <3>2. /\ state_window'[j] = state_window[j + 1]
            /\ action_window'[j] = action_window[j + 1]
            /\ net_window'[j] = net_window[j + 1]
        BY <1>1, <1>7, <2>1, <2>3
      <3>3. /\ state_window[j + 1] = i
            /\ action_window[j + 1] = history[i].action
            /\ i > t => net_window[j + 1] = InputOf(i)
        BY <3>1 DEF BrainInv, WindowsInv
      <3>4. ASSUME i > t
            PROVE  net_window'[j] = InputOf(i)'
        BY <1>9, <3>1, <3>2, <3>3, <3>4
      <3> QED BY <1>2, <1>4, <3>1, <3>2, <3>3, <3>4
    <2> QED BY <2>2, <2>3
  <1>11. RewardsInv'
    BY <1>1, <1>2, <1>4 DEF BrainInv, RewardsInv, Rewarded
  <1>12. MemoryInv'
    BY <1>2 DEF BrainInv, MemoryInv
  <1>13. TrueTransitions'
    <2> SUFFICES ASSUME NEW m \in DOMAIN experience
                 PROVE  \E i \in t + 1..fp :
                          /\ experience[m].state0 = InputOf(i)' /\ experience[m].state1 = InputOf(i + 1)'
                          /\ experience[m].action0 = history'[i].action
                          /\ history'[i].reward # None => experience[m].reward0 = history'[i].reward
      BY <1>1, <1>2, <1>4 DEF TrueTransitions
    <2>1. PICK i \in t + 1..fp - 1 :
            /\ experience[m].state0 = InputOf(i) /\ experience[m].state1 = InputOf(i + 1)
            /\ experience[m].action0 = history[i].action
            /\ history[i].reward # None => experience[m].reward0 = history[i].reward
      BY DEF BrainInv, TrueTransitions
    <2>2. i \in t + 1..fp /\ i \in 1..fp /\ i + 1 \in 1..fp /\ i > t /\ i + 1 > t
      BY <1>1
    <2>3. InputOf(i)' = InputOf(i) /\ InputOf(i + 1)' = InputOf(i + 1)
      BY <1>9, <2>2
    <2> QED BY <1>4, <2>1, <2>2, <2>3
  <1> QED BY <1>8, <1>10, <1>11, <1>12, <1>13 DEF BrainInv

\* backward only gives the latest pass its reward.
LEMMA BackwardHistory ==
  ASSUME ShapeInv, backward
  PROVE  /\ history' \in Seq([action : Action, reward : Nat \cup {None}])
         /\ forward_passes' = forward_passes
         /\ history'[forward_passes].reward = forward_passes
         /\ \A i \in 1..forward_passes : history'[i].action = history[i].action
         /\ \A i \in 1..forward_passes - 1 : history'[i].reward = history[i].reward
  <1> DEFINE fp == forward_passes
             Entry == [action : Action, reward : Nat \cup {None}]
             entry == [history[fp] EXCEPT !.reward = fp]
  <1>1. /\ fp \in Nat /\ fp = Len(history) /\ fp > 0
        /\ history \in Seq(Entry)
        /\ history' = [history EXCEPT ![fp] = entry]
    BY DEF ShapeInv, forward_passes, backward
  <1>2. fp \in DOMAIN history /\ history[fp] \in Entry
    <2> HIDE DEF Entry
    <2> QED BY <1>1
  <1>3. entry \in Entry /\ entry.action = history[fp].action /\ entry.reward = fp
    BY <1>1, <1>2
  <1> HIDE DEF Entry, entry
  <1>4. /\ history' \in Seq(Entry) /\ Len(history') = Len(history)
        /\ history'[fp] = entry
        /\ \A i \in 1..fp : i # fp => history'[i] = history[i]
    BY <1>1, <1>2, <1>3
  <1>5. fp' = fp
    BY <1>4 DEF forward_passes
  <1> QED BY <1>1, <1>3, <1>4, <1>5 DEF Entry

\* What backward remembers is the pass before the latest.
LEMMA NewExperienceIsTrue ==
  ASSUME BrainInv, backward, forward_passes > temporal_window + 1
  PROVE  LET i == forward_passes - 1 IN
         /\ i \in temporal_window + 1..forward_passes - 1
         /\ NewExperience.state0 = InputOf(i) /\ NewExperience.state1 = InputOf(i + 1)
         /\ NewExperience.action0 = history[i].action
         /\ Rewarded(i) => NewExperience.reward0 = history[i].reward
  <1> DEFINE n == window_size
             fp == forward_passes
             t == temporal_window
             i == fp - 1
  <1>1. /\ t \in Nat /\ n \in Nat \ {0} /\ n >= 2 /\ fp \in Nat /\ fp = Len(history)
        /\ fp > t + 1
    BY WindowIsWide DEF BrainInv, ShapeInv, forward_passes
  <1>2. n \in 1..n /\ n - 1 \in 1..n /\ fp \in 1..fp /\ i \in 1..fp /\ i > t /\ fp > t
        /\ fp = PassAt(n) /\ i = PassAt(n - 1) /\ i \in t + 1..i /\ fp = i + 1
    BY <1>1 DEF PassAt
  <1>3. /\ net_window[n] = InputOf(fp) /\ net_window[n - 1] = InputOf(i)
        /\ action_window[n - 1] = history[i].action
    BY <1>2 DEF BrainInv, WindowsInv
  <1>4. ASSUME Rewarded(i)
        PROVE  reward_window'[n - 1] = history[i].reward
    <2>1. IsArray(reward_window, n)
      BY DEF BrainInv, ShapeInv, IsWindow
    <2>2. /\ reward_window' = Shifted(reward_window, fp)
          /\ Last(history).reward = None
      BY DEF backward
    <2>3. history \in Seq([action : Action, reward : Nat \cup {None}])
      BY DEF BrainInv, ShapeInv
    <2>4. Last(history) = history[fp]
      BY <1>1 DEF Last
    <2>5. ~Rewarded(fp)
      BY <2>2, <2>4 DEF Rewarded
    <2>6. reward_window[n] = history[i].reward
      BY <1>1, <1>4, <2>5 DEF BrainInv, RewardsInv
    <2>7. n - 1 \in 1..n - 1 /\ (n - 1) + 1 = n
      BY <1>1
    <2>8. Shifted(reward_window, fp)[n - 1] = reward_window[(n - 1) + 1]
      BY <1>1, <2>1, <2>7, ShiftedIs
    <2> QED BY <2>2, <2>6, <2>7, <2>8
  <1> QED BY <1>2, <1>3, <1>4 DEF NewExperience

LEMMA BackwardKeeps ==
  ASSUME BrainInv, backward
  PROVE  BrainInv'
  <1> DEFINE n == window_size
             fp == forward_passes
             t == temporal_window
  <1>1. /\ t \in Nat /\ n \in Nat \ {0} /\ n >= 2 /\ fp \in Nat /\ fp = Len(history) /\ fp > 0
        /\ history \in Seq([action : Action, reward : Nat \cup {None}])
    BY WindowIsWide DEF BrainInv, ShapeInv, forward_passes, backward
  <1>2. t' = t /\ n' = n /\ UNCHANGED windows
    BY DEF backward, window_size
  <1>3. history' = [history EXCEPT ![fp].reward = fp]
    BY DEF backward
  <1>4. /\ history' \in Seq([action : Action, reward : Nat \cup {None}])
        /\ fp' = fp
        /\ history'[fp].reward = fp
        /\ \A i \in 1..fp : history'[i].action = history[i].action
        /\ \A i \in 1..fp - 1 : history'[i].reward = history[i].reward
    BY <1>1, BackwardHistory DEF BrainInv
  <1>5. /\ IsArray(reward_window', n) /\ reward_window'[n] = fp
    <2>1. reward_window' = Shifted(reward_window, fp) /\ IsArray(reward_window, n)
      BY DEF backward, BrainInv, ShapeInv, IsWindow
    <2> QED BY <1>1, <2>1, ShiftedIs
  <1>6. ASSUME NEW i \in 1..fp, i > t
        PROVE  InputOf(i)' = InputOf(i)
    <2>1. ShapeInv /\ i \in Nat /\ i <= fp + 1
      BY <1>1 DEF BrainInv
    <2> QED BY <1>2, <1>4, <1>6, <2>1, InputStable
  <1>7. ShapeInv'
    <2>1. IsArray(net_window', n) /\ IsArray(state_window', n) /\ IsArray(action_window', n)
      BY <1>2 DEF BrainInv, ShapeInv, IsWindow, windows
    <2> QED BY <1>1, <1>2, <1>4, <1>5, <2>1 DEF ShapeInv, IsWindow
  <1>8. WindowsInv'
    <2> SUFFICES ASSUME NEW j \in 1..n', NEW i \in 1..fp', i = PassAt(j)'
                 PROVE  /\ state_window'[j] = i
                        /\ action_window'[j] = history'[i].action
                        /\ i > t' => net_window'[j] = InputOf(i)'
      BY DEF WindowsInv
    <2>1. j \in 1..n /\ i \in 1..fp /\ i = PassAt(j)
      BY <1>2, <1>4 DEF PassAt
    <2>2. /\ state_window[j] = i
          /\ action_window[j] = history[i].action
          /\ i > t => net_window[j] = InputOf(i)
      BY <2>1 DEF BrainInv, WindowsInv
    <2> QED BY <1>2, <1>4, <1>6, <2>1, <2>2 DEF windows
  <1>9. RewardsInv'
    BY <1>1, <1>2, <1>4, <1>5, NoneAssumption DEF RewardsInv, Rewarded
  <1>10. MemoryInv' /\ TrueTransitions'
    <2> DEFINE True(e) ==
                 \E i \in t + 1..fp - 1 :
                   /\ e.state0 = InputOf(i)' /\ e.state1 = InputOf(i + 1)'
                   /\ e.action0 = history'[i].action
                   /\ history'[i].reward # None => e.reward0 = history'[i].reward
    <2>1. ASSUME NEW e, NEW i \in t + 1..fp - 1,
                 e.state0 = InputOf(i), e.state1 = InputOf(i + 1),
                 e.action0 = history[i].action,
                 history[i].reward # None => e.reward0 = history[i].reward
          PROVE  True(e)
      <3>1. i \in 1..fp - 1 /\ i \in 1..fp /\ i + 1 \in 1..fp /\ i > t /\ i + 1 > t
        BY <1>1
      <3>2. InputOf(i)' = InputOf(i) /\ InputOf(i + 1)' = InputOf(i + 1)
        BY <1>6, <3>1
      <3> QED BY <1>4, <2>1, <3>1, <3>2
    <2>2. \A m \in DOMAIN experience : True(experience[m])
      <3> SUFFICES ASSUME NEW m \in DOMAIN experience PROVE True(experience[m])
        OBVIOUS
      <3>1. PICK i \in t + 1..fp - 1 :
              /\ experience[m].state0 = InputOf(i) /\ experience[m].state1 = InputOf(i + 1)
              /\ experience[m].action0 = history[i].action
              /\ history[i].reward # None => experience[m].reward0 = history[i].reward
        BY DEF BrainInv, TrueTransitions
      <3> QED BY <2>1, <3>1
    <2>3. fp > t + 1 => True(NewExperience)
      BY <2>1, NewExperienceIsTrue DEF Rewarded
    <2> HIDE DEF True
    <2>4. Len(experience) \in Nat /\ IsArray(experience, Len(experience))
      BY DEF BrainInv, MemoryInv
    <2>5. /\ Len(experience') \in Nat /\ IsArray(experience', Len(experience'))
          /\ \A m \in DOMAIN experience' : True(experience'[m])
      <3>1. CASE UNCHANGED experience
        BY <2>2, <2>4, <3>1
      <3>2. CASE fp > t + 1 /\ experience' = Append(experience, NewExperience)
        <4>1. /\ Len(experience') = Len(experience) + 1
              /\ IsArray(experience', Len(experience) + 1)
              /\ experience'[Len(experience) + 1] = NewExperience
              /\ \A k \in 1..Len(experience) : experience'[k] = experience[k]
          BY <2>4, <3>2, AppendIs
        <4>2. DOMAIN experience' = 1..Len(experience) + 1 /\ DOMAIN experience = 1..Len(experience)
          BY <2>4, <4>1 DEF IsArray
        <4> QED BY <2>2, <2>3, <2>4, <3>2, <4>1, <4>2
      <3>3. ASSUME fp > t + 1, NEW ri \in 1..ExperienceSize,
                   experience' = [experience EXCEPT ![ri] = NewExperience]
            PROVE  /\ Len(experience') \in Nat /\ IsArray(experience', Len(experience'))
                   /\ \A m \in DOMAIN experience' : True(experience'[m])
        <4>1. DOMAIN experience' = DOMAIN experience /\ DOMAIN experience = 1..Len(experience)
          BY <2>4, <3>3 DEF IsArray
        <4>2. \A m \in DOMAIN experience' : experience'[m] = experience[m] \/ experience'[m] = NewExperience
          BY <3>3
        <4>3. experience' = [m \in 1..Len(experience) |-> experience'[m]]
          BY <3>3, <4>1
        <4>4. IsArray(experience', Len(experience))
          BY <4>3 DEF IsArray
        <4>5. Len(experience') = Len(experience)
          BY <2>4, <4>4, AppendIs
        <4> QED BY <2>2, <2>3, <2>4, <3>3, <4>1, <4>2, <4>4, <4>5
      <3>4. \/ UNCHANGED experience
            \/ fp > t + 1 /\ experience' = Append(experience, NewExperience)
            \/ fp > t + 1 /\ \E ri \in 1..ExperienceSize :
                               experience' = [experience EXCEPT ![ri] = NewExperience]
        BY DEF backward, Remember
      <3> QED BY <3>1, <3>2, <3>3, <3>4
    <2>6. MemoryInv'
      BY <2>5 DEF MemoryInv
    <2>7. TrueTransitions'
      BY <1>2, <1>4, <2>5 DEF TrueTransitions, True
    <2> QED BY <2>6, <2>7
  <1> QED BY <1>7, <1>8, <1>9, <1>10 DEF BrainInv

-----------------------------------------------------------------------------
(* The experiences *)

LEMMA BInvHolds == BrainSpec => []BrainInv
  <1>1. ASSUME BrainInit
        PROVE  BrainInv
    <2>1. /\ temporal_window \in Nat /\ history = <<>> /\ experience = <<>>
          /\ net_window = Empty /\ state_window = Empty
          /\ action_window = Empty /\ reward_window = Empty
      BY <1>1, WindowAssumption DEF BrainInit
    <2>2. IsArray(Empty, window_size)
      BY DEF IsArray, Empty
    <2>3. ShapeInv
      BY <2>1, <2>2 DEF ShapeInv, IsWindow
    <2>4. forward_passes = 0
      BY <2>1 DEF forward_passes
    <2>5. WindowsInv /\ RewardsInv
      BY <2>4 DEF WindowsInv, RewardsInv
    <2>6. MemoryInv /\ TrueTransitions
      BY <2>1 DEF MemoryInv, IsArray, TrueTransitions
    <2> QED BY <2>3, <2>5, <2>6 DEF BrainInv
  <1>2. ASSUME BrainInv, [BrainNext]_brainVars
        PROVE  BrainInv'
    <2>1. CASE ToggleLearning \/ UNCHANGED brainVars
      <3>1. UNCHANGED <<temporal_window, windows, reward_window, experience, history>>
        BY <2>1 DEF ToggleLearning, brainVars
      <3>2. window_size' = window_size /\ forward_passes' = forward_passes
        BY <3>1 DEF window_size, forward_passes
      <3>3. \A i : InputOf(i)' = InputOf(i)
        BY <3>1 DEF InputOf
      <3>4. ShapeInv' /\ RewardsInv' /\ MemoryInv'
        BY <1>2, <3>1, <3>2 DEF BrainInv, ShapeInv, RewardsInv, MemoryInv, IsWindow, Rewarded, windows
      <3>5. WindowsInv'
        BY <1>2, <3>1, <3>2, <3>3 DEF BrainInv, WindowsInv, PassAt, windows
      <3>6. TrueTransitions'
        BY <1>2, <3>1, <3>2, <3>3 DEF BrainInv, TrueTransitions
      <3> QED BY <3>4, <3>5, <3>6 DEF BrainInv
    <2> QED BY <1>2, <2>1, ForwardKeeps, BackwardKeeps DEF BrainNext, Forward
  <1> QED BY <1>1, <1>2, PTL DEF BrainSpec

\* backward puts an experience together from four windows that move at two
\* occasions; it is always a transition that took place, with its reward if it
\* had one.
THEOREM ExperiencesAreTrue == BrainSpec => []TrueTransitions
  <1>1. BrainInv => TrueTransitions
    BY DEF BrainInv
  <1> QED BY <1>1, BInvHolds, PTL

-----------------------------------------------------------------------------
(* Training in time.  A brain that is left to learn has as many experiences *)
(* as it has seen rewards with enough context before, up to its size.      *)

Seen == {i \in temporal_window + 2..forward_passes : Rewarded(i)}

CountInv ==
  /\ toggles \in Nat
  /\ toggles = 0 =>
       LET seen == Cardinality(Seen)
           due == IF seen > StartThreshold THEN seen - StartThreshold ELSE 0
       IN /\ learning
          /\ Len(experience) = IF seen < ExperienceSize THEN seen ELSE ExperienceSize
          /\ StartThreshold < ExperienceSize =>
               average_loss = IF due < WindowSize THEN due ELSE WindowSize

LEMMA SeenIsFinite ==
  ASSUME ShapeInv
  PROVE  IsFiniteSet(Seen) /\ Cardinality(Seen) \in Nat
  <1>1. temporal_window + 2 \in Int /\ forward_passes \in Int
    BY DEF ShapeInv, forward_passes
  <1>2. IsFiniteSet(temporal_window + 2..forward_passes)
    BY <1>1, FS_Interval
  <1>3. Seen \subseteq temporal_window + 2..forward_passes
    BY DEF Seen
  <1> QED BY <1>2, <1>3, FS_Subset, FS_CardinalityType

\* A reward is one more that is seen, when it has the context.
LEMMA BackwardSees ==
  ASSUME BrainInv, backward
  PROVE  Cardinality(Seen') = IF forward_passes > temporal_window + 1
                              THEN Cardinality(Seen) + 1 ELSE Cardinality(Seen)
  <1> DEFINE fp == forward_passes
             t == temporal_window
  <1>1. /\ t \in Nat /\ fp \in Nat /\ fp = Len(history) /\ fp > 0 /\ ShapeInv
        /\ history \in Seq([action : Action, reward : Nat \cup {None}])
    BY DEF BrainInv, ShapeInv, forward_passes, backward
  <1>2. history' = [history EXCEPT ![fp].reward = fp] /\ t' = t /\ Last(history).reward = None
    BY DEF backward
  <1>3. /\ history'[fp].reward = fp /\ fp' = fp
        /\ \A i \in 1..fp - 1 : history'[i].reward = history[i].reward
    BY <1>1, BackwardHistory
  <1>4. Rewarded(fp)' /\ ~Rewarded(fp)
    BY <1>1, <1>2, <1>3, NoneAssumption DEF Rewarded, Last
  <1>5. \A i \in 1..fp - 1 : Rewarded(i)' <=> Rewarded(i)
    BY <1>3 DEF Rewarded
  <1>6. CASE fp > t + 1
    <2>1. Seen' = Seen \cup {fp}
      BY <1>1, <1>2, <1>3, <1>4, <1>5, <1>6 DEF Seen, Rewarded
    <2>2. fp \notin Seen
      BY <1>4 DEF Seen
    <2> QED BY <1>1, <1>6, <2>1, <2>2, SeenIsFinite, FS_AddElement
  <1>7. CASE ~(fp > t + 1)
    <2>1. t + 2..fp = {}
      BY <1>1, <1>7
    <2>2. Seen' = {} /\ Seen = {}
      BY <1>2, <1>3, <2>1 DEF Seen
    <2> QED BY <1>7, <2>2
  <1> QED BY <1>6, <1>7

LEMMA CountKeeps ==
  ASSUME BrainInv, CountInv, [BrainNext]_brainVars
  PROVE  CountInv'
  <1> DEFINE fp == forward_passes
             t == temporal_window
             S == Cardinality(Seen)
  <1>1. /\ t \in Nat /\ fp \in Nat /\ fp = Len(history) /\ ShapeInv
        /\ history \in Seq([action : Action, reward : Nat \cup {None}])
        /\ S \in Nat /\ Len(experience) \in Nat
    BY SeenIsFinite DEF BrainInv, ShapeInv, MemoryInv, forward_passes
  <1>2. ASSUME NEW action \in Action, forward(action)
        PROVE  CountInv'
    <2>1. /\ history' = Append(history, [action |-> action, reward |-> None])
          /\ UNCHANGED <<temporal_window, experience, learning, average_loss, toggles>>
      BY <1>2 DEF forward
    <2>2. /\ fp' = fp + 1 /\ history'[fp + 1].reward = None
          /\ \A i \in 1..fp : history'[i] = history[i]
      BY <1>1, <2>1 DEF forward_passes
    <2>3. Seen' = Seen
      BY <1>1, <2>1, <2>2 DEF Seen, Rewarded
    <2> QED BY <2>1, <2>3 DEF CountInv
  <1>3. CASE backward
    <2>1. UNCHANGED <<learning, toggles>>
      BY <1>3 DEF backward
    <2>2. Cardinality(Seen') = IF fp > t + 1 THEN S + 1 ELSE S
      BY <1>3, BackwardSees
    <2> SUFFICES ASSUME toggles = 0 PROVE CountInv'
      BY <2>1 DEF CountInv
    <2>3. learning /\ Remember /\ Train
      BY <1>3 DEF CountInv, backward
    <2>4. ~(fp > t + 1) => S = 0
      <3>1. ~(fp > t + 1) => Seen = {}
        BY <1>1 DEF Seen
      <3> QED BY <3>1, FS_EmptySet
    <2>5. Len(experience) = IF S < ExperienceSize THEN S ELSE ExperienceSize
      BY DEF CountInv
    <2>6. Len(experience') = IF fp > t + 1 /\ Len(experience) < ExperienceSize
                             THEN Len(experience) + 1 ELSE Len(experience)
      <3>1. IsArray(experience, Len(experience))
        BY DEF BrainInv, MemoryInv
      <3>2. CASE fp > t + 1 /\ Len(experience) < ExperienceSize
        <4>1. experience' = Append(experience, NewExperience)
          BY <2>3, <3>2 DEF Remember
        <4> QED BY <1>1, <3>1, <3>2, <4>1, AppendIs
      <3>3. CASE fp > t + 1 /\ ~(Len(experience) < ExperienceSize)
        <4>1. PICK ri \in 1..ExperienceSize :
                experience' = [experience EXCEPT ![ri] = NewExperience]
          BY <2>3, <3>3 DEF Remember
        <4>2. experience' = [m \in 1..Len(experience) |-> experience'[m]]
          BY <3>1, <4>1 DEF IsArray
        <4>3. IsArray(experience', Len(experience))
          BY <4>2 DEF IsArray
        <4> QED BY <1>1, <3>3, <4>3, AppendIs
      <3>4. CASE ~(fp > t + 1)
        BY <2>3, <3>4 DEF Remember
      <3> QED BY <3>2, <3>3, <3>4
    <2>7. average_loss' = IF Len(experience') > StartThreshold /\ average_loss < WindowSize
                          THEN average_loss + 1 ELSE average_loss
      BY <2>3 DEF Train
    <2>8. learning' /\ toggles' = 0
      BY <2>1, <2>3
    <2> DEFINE S2 == Cardinality(Seen')
               due == IF S > StartThreshold THEN S - StartThreshold ELSE 0
               due2 == IF S2 > StartThreshold THEN S2 - StartThreshold ELSE 0
    <2>9. StartThreshold < ExperienceSize =>
            average_loss = IF due < WindowSize THEN due ELSE WindowSize
      BY DEF CountInv
    <2> HIDE DEF S
    <2>10. Len(experience') = IF S2 < ExperienceSize THEN S2 ELSE ExperienceSize
      BY <1>1, <2>2, <2>4, <2>5, <2>6, MemoryAssumption
    <2>11. StartThreshold < ExperienceSize =>
             average_loss' = IF due2 < WindowSize THEN due2 ELSE WindowSize
      BY <1>1, <2>2, <2>4, <2>7, <2>9, <2>10, MemoryAssumption, WindowAssumption
    <2> QED BY <2>8, <2>10, <2>11 DEF CountInv
  <1>4. CASE ToggleLearning
    BY <1>4 DEF ToggleLearning, CountInv
  <1>5. CASE UNCHANGED brainVars
    <2>1. UNCHANGED <<temporal_window, history, experience, learning, average_loss, toggles>>
      BY <1>5 DEF brainVars
    <2>2. Seen' = Seen
      BY <2>1 DEF Seen, Rewarded, forward_passes
    <2> QED BY <2>1, <2>2 DEF CountInv
  <1> QED BY <1>2, <1>3, <1>4, <1>5 DEF BrainNext, Forward

\* forward and backward count on experience.length: while learning is never
\* switched off, a batch is trained at each reward from the first on for which
\* more experiences than start_learn_threshold have been seen.
THEOREM TrainingIsInTime == BrainSpec => []TrainsInTime
  <1>1. ASSUME BrainInit
        PROVE  CountInv
    <2>1. /\ temporal_window \in Nat /\ forward_passes = 0 /\ Len(experience) = 0
          /\ toggles = 0 /\ learning /\ average_loss = 0
      BY <1>1, WindowAssumption DEF BrainInit, forward_passes
    <2>2. Seen = {}
      BY <2>1 DEF Seen
    <2>3. Cardinality(Seen) = 0
      BY <2>2, FS_EmptySet
    <2> QED BY <2>1, <2>3, MemoryAssumption, WindowAssumption DEF CountInv
  <1>2. CountInv => TrainsInTime
    BY DEF CountInv, TrainsInTime, Seen, Rewarded
  <1> QED BY <1>1, <1>2, BInvHolds, CountKeeps, PTL DEF BrainSpec

-----------------------------------------------------------------------------
(* Types.  The windows hold what forward puts there: an input that looks    *)
(* back reads places that have been filled.  The running average subtracts *)
(* the value it drops, so that its sum stays one has to be known what the  *)
(* sum is of: acc are the sums of the first values.                        *)

IsSum(v, sum) ==
  \E acc \in [0..Len(v) -> Nat] :
    /\ acc[0] = 0 /\ acc[Len(v)] = sum
    /\ \A k \in 1..Len(v) : acc[k] = acc[k - 1] + v[k]
    /\ \A j, k \in 0..Len(v) : j <= k => acc[j] <= acc[k]

\* One backward at most for each pass.
AgeInv ==
  /\ age \in Nat /\ age <= forward_passes
  /\ forward_passes > 0 /\ ~Rewarded(forward_passes) => age < forward_passes
  /\ forward_passes <= MaxPasses

BrainTypesInv == BrainTypeOK /\ AgeInv /\ IsSum(average_reward.v, average_reward.sum)

LEMMA PassIs == Pass \subseteq Nat /\ MaxPasses \in Nat
  BY BoundsAssumption DEF Pass

\* The sum of the values with another behind them, and then without the first.
LEMMA AppendSum ==
  ASSUME NEW v \in Seq(Nat), NEW sum, IsSum(v, sum), NEW x \in Nat
  PROVE  /\ IsSum(Append(v, x), sum + x) /\ sum \in Nat
  <1>1. PICK n \in Nat : n = Len(v)
    OBVIOUS
  <1>2. PICK acc \in [0..n -> Nat] :
          /\ acc[0] = 0 /\ acc[n] = sum
          /\ \A k \in 1..n : acc[k] = acc[k - 1] + v[k]
          /\ \A j, k \in 0..n : j <= k => acc[j] <= acc[k]
    BY <1>1 DEF IsSum
  <1>3. PICK w : w = Append(v, x)
    OBVIOUS
  <1>4. Len(w) = n + 1 /\ w[n + 1] = x /\ \A k \in 1..n : w[k] = v[k]
    BY <1>1, <1>3
  <1>5. PICK new : new = [k \in 0..n + 1 |-> IF k = n + 1 THEN sum + x ELSE acc[k]]
    OBVIOUS
  <1>6. sum \in Nat
    BY <1>1, <1>2
  <1>7. new[n + 1] = sum + x /\ \A k \in 0..n : new[k] = acc[k] /\ acc[k] \in Nat /\ acc[k] <= sum
    <2>1. new[n + 1] = sum + x
      BY <1>1, <1>5
    <2>2. ASSUME NEW k \in 0..n
          PROVE  new[k] = acc[k] /\ acc[k] \in Nat /\ acc[k] <= sum
      <3>1. k # n + 1 /\ k \in 0..n + 1 /\ n \in 0..n /\ k <= n
        BY <1>1
      <3>2. acc[k] <= acc[n]
        BY <1>2, <3>1
      <3> QED BY <1>2, <1>5, <3>1, <3>2
    <2> QED BY <2>1, <2>2
  <1>8. \A k \in 0..n + 1 : k = n + 1 \/ k \in 0..n
    BY <1>1
  <1>9. new \in [0..n + 1 -> Nat]
    BY <1>5, <1>6, <1>7, <1>8
  <1>10. ASSUME NEW k \in 1..n + 1
         PROVE  new[k] = new[k - 1] + w[k]
    <2>1. CASE k = n + 1
      <3>1. k - 1 = n /\ n \in 0..n
        BY <1>1, <2>1
      <3> QED BY <1>2, <1>4, <1>7, <2>1, <3>1
    <2>2. CASE k # n + 1
      <3>1. k \in 1..n /\ k \in 0..n /\ k - 1 \in 0..n
        BY <1>1, <2>2
      <3> QED BY <1>2, <1>4, <1>7, <3>1
    <2> QED BY <2>1, <2>2
  <1>11. ASSUME NEW j \in 0..n + 1, NEW k \in 0..n + 1, j <= k
         PROVE  new[j] <= new[k]
    <2>1. CASE k = n + 1
      BY <1>6, <1>7, <1>8, <2>1
    <2>2. CASE k # n + 1
      <3>1. j \in 0..n /\ k \in 0..n
        BY <1>1, <1>11, <2>2
      <3> QED BY <1>2, <1>7, <1>11, <3>1
    <2> QED BY <2>1, <2>2
  <1>12. 0 \in 0..n
    BY <1>1
  <1>13. IsSum(w, sum + x)
    BY <1>2, <1>4, <1>7, <1>9, <1>10, <1>11, <1>12 DEF IsSum
  <1> QED BY <1>3, <1>6, <1>13

LEMMA TailSum ==
  ASSUME NEW v \in Seq(Nat), v # <<>>, NEW sum \in Nat, IsSum(v, sum)
  PROVE  IsSum(Tail(v), sum - Head(v)) /\ sum - Head(v) \in Nat
  <1>1. PICK n \in Nat : n + 1 = Len(v)
    <2>1. Len(v) \in Nat /\ Len(v) # 0
      OBVIOUS
    <2>2. Len(v) - 1 \in Nat /\ (Len(v) - 1) + 1 = Len(v)
      BY <2>1
    <2> QED BY <2>2
  <1>2. PICK acc \in [0..n + 1 -> Nat] :
          /\ acc[0] = 0 /\ acc[n + 1] = sum
          /\ \A k \in 1..n + 1 : acc[k] = acc[k - 1] + v[k]
          /\ \A j, k \in 0..n + 1 : j <= k => acc[j] <= acc[k]
    BY <1>1 DEF IsSum
  <1>3. PICK w, first : w = Tail(v) /\ first = Head(v)
    OBVIOUS
  <1>4. Len(w) = n /\ \A k \in 1..n : w[k] = v[k + 1]
    BY <1>1, <1>3
  <1>5. first = v[1] /\ first \in Nat /\ acc[1] = first
    <2>1. first = v[1] /\ first \in Nat
      BY <1>3
    <2>2. 1 \in 1..n + 1 /\ 1 - 1 = 0
      BY <1>1
    <2>3. acc[1] = acc[1 - 1] + v[1]
      BY <1>2, <2>2
    <2> QED BY <1>2, <2>1, <2>2, <2>3
  <1>6. PICK new : new = [k \in 0..n |-> acc[k + 1] - first]
    OBVIOUS
  <1>7. \A k \in 0..n : new[k] = acc[k + 1] - first /\ new[k] \in Nat /\ acc[k + 1] \in Nat
    <2> SUFFICES ASSUME NEW k \in 0..n
                 PROVE  new[k] = acc[k + 1] - first /\ new[k] \in Nat /\ acc[k + 1] \in Nat
      OBVIOUS
    <2>1. 1 \in 0..n + 1 /\ k + 1 \in 0..n + 1 /\ 1 <= k + 1
      BY <1>1
    <2>2. acc[1] <= acc[k + 1] /\ acc[k + 1] \in Nat
      BY <1>2, <2>1
    <2>3. new[k] = acc[k + 1] - first
      BY <1>6
    <2>4. first <= acc[k + 1] /\ first \in Nat
      BY <1>5, <2>2
    <2>5. PICK a : a = acc[k + 1]
      OBVIOUS
    <2>6. a \in Nat /\ first <= a /\ new[k] = a - first
      BY <2>2, <2>3, <2>4, <2>5
    <2>7. new[k] \in Nat
      BY <2>4, <2>6
    <2> QED BY <2>5, <2>6, <2>7
  <1>8. new \in [0..n -> Nat]
    BY <1>6, <1>7
  <1>9. new[0] = 0 /\ new[n] = sum - first
    <2>1. 0 \in 0..n /\ n \in 0..n /\ 0 + 1 = 1
      BY <1>1
    <2>2. new[0] = acc[0 + 1] - first /\ new[n] = acc[n + 1] - first
      BY <1>7, <2>1
    <2> QED BY <1>2, <1>5, <2>1, <2>2
  <1>10. ASSUME NEW k \in 1..n
         PROVE  new[k] = new[k - 1] + w[k]
    <2>1. k \in 0..n /\ k - 1 \in 0..n /\ (k - 1) + 1 = k /\ k + 1 \in 1..n + 1 /\ (k + 1) - 1 = k
      BY <1>1
    <2>2. acc[k + 1] = acc[k] + v[k + 1] /\ new[k] = acc[k + 1] - first /\ new[k - 1] = acc[k] - first
      BY <1>2, <1>7, <2>1
    <2>3. v[k + 1] \in Nat
      <3>1. k + 1 \in 1..Len(v)
        BY <1>1, <2>1
      <3> QED BY <3>1, ElementOfSeq
    <2>4. acc[k] \in Nat /\ w[k] = v[k + 1]
      <3>1. k \in 0..n + 1
        BY <1>1
      <3> QED BY <1>2, <1>4, <3>1
    <2>5. PICK old, x : old = acc[k] /\ x = v[k + 1]
      OBVIOUS
    <2>6. new[k] = (old + x) - first /\ new[k - 1] = old - first /\ w[k] = x
      BY <2>2, <2>4, <2>5
    <2>7. old \in Nat /\ x \in Nat /\ first \in Nat
      BY <1>5, <2>3, <2>4, <2>5
    <2> QED BY <2>6, <2>7
  <1>11. ASSUME NEW j \in 0..n, NEW k \in 0..n, j <= k
         PROVE  new[j] <= new[k]
    <2>1. j + 1 \in 0..n + 1 /\ k + 1 \in 0..n + 1 /\ j + 1 <= k + 1
      BY <1>1, <1>11
    <2>2. acc[j + 1] <= acc[k + 1]
      BY <1>2, <2>1
    <2> QED BY <1>5, <1>7, <2>2
  <1>12. IsSum(w, sum - first)
    BY <1>4, <1>8, <1>9, <1>10, <1>11 DEF IsSum
  <1>13. sum - first \in Nat
    <2>1. n \in 0..n
      BY <1>1
    <2> QED BY <1>7, <1>9, <2>1
  <1> QED BY <1>3, <1>12, <1>13

\* Window.add keeps the sum the sum of the values that are there.
LEMMA AddedIs ==
  ASSUME NEW w \in [v : Seq(Pass), sum : Nat], IsSum(w.v, w.sum), NEW x \in Pass
  PROVE  Added(w, x) \in [v : Seq(Pass), sum : Nat] /\ IsSum(Added(w, x).v, Added(w, x).sum)
  <1>1. PICK v, sum, r : v = w.v /\ sum = w.sum /\ r = Added(w, x)
    OBVIOUS
  <1>2. v \in Seq(Pass) /\ v \in Seq(Nat) /\ sum \in Nat /\ x \in Nat /\ IsSum(v, sum)
    <2>1. v \in Seq(Pass) /\ sum \in Nat /\ x \in Nat
      BY <1>1, PassIs
    <2>2. v \in Seq(Nat)
      <3>1. Len(v) \in Nat /\ v = [i \in 1..Len(v) |-> v[i]] /\ \A i \in 1..Len(v) : v[i] \in Nat
        BY <2>1, PassIs
      <3> QED BY <3>1
    <2> QED BY <1>1, <2>1, <2>2
  <1>3. CASE Len(v) = WindowSize
    <2>1. v # <<>>
      BY <1>2, <1>3, WindowAssumption
    <2>2. PICK rest, less : rest = Tail(v) /\ less = sum - Head(v)
      OBVIOUS
    <2>3. IsSum(rest, less) /\ less \in Nat
      BY <1>2, <2>1, <2>2, TailSum
    <2>4. rest \in Seq(Pass) /\ rest \in Seq(Nat) /\ Head(v) \in Nat
      BY <1>2, <2>1, <2>2
    <2>5. IsSum(Append(rest, x), less + x)
      BY <1>2, <2>3, <2>4, AppendSum
    <2>6. less + x = sum + x - Head(v)
      BY <1>2, <2>2, <2>4
    <2>7. r = [v |-> Append(rest, x), sum |-> sum + x - Head(v)]
      BY <1>1, <1>3, <2>2 DEF Added, Shifted
    <2>8. r.v = Append(rest, x) /\ r.sum = less + x
      BY <2>6, <2>7
    <2>9. Append(rest, x) \in Seq(Pass) /\ less + x \in Nat
      BY <1>2, <2>3, <2>4
    <2>10. r \in [v : Seq(Pass), sum : Nat]
      BY <2>6, <2>7, <2>9
    <2> QED BY <1>1, <2>5, <2>8, <2>10
  <1>4. CASE Len(v) # WindowSize
    <2>1. IsSum(Append(v, x), sum + x)
      BY <1>2, AppendSum
    <2>2. r = [v |-> Append(v, x), sum |-> sum + x]
      BY <1>1, <1>4 DEF Added
    <2>3. Append(v, x) \in Seq(Pass) /\ sum + x \in Nat
      BY <1>2
    <2>4. r \in [v : Seq(Pass), sum : Nat]
      BY <2>2, <2>3
    <2>5. r.v = Append(v, x) /\ r.sum = sum + x
      BY <2>2
    <2> QED BY <1>1, <2>1, <2>4, <2>5
  <1> QED BY <1>3, <1>4

\* A value pushed behind an array.
LEMMA ShiftedInto ==
  ASSUME NEW n \in Nat \ {0}, NEW S, NEW w \in [1..n -> S], NEW x \in S
  PROVE  Shifted(w, x) \in [1..n -> S]
  <1>1. w \in Seq(S) /\ Len(w) = n /\ w # <<>>
    <2>1. w \in Seq(S) /\ Len(w) = n
      OBVIOUS
    <2> QED BY <2>1, EmptySeq
  <1>2. Tail(w) \in Seq(S) /\ Len(Tail(w)) = n - 1
    BY <1>1
  <1>3. Append(Tail(w), x) \in Seq(S) /\ Len(Append(Tail(w), x)) = n
    BY <1>2
  <1> QED BY <1>3, LenProperties DEF Shifted

\* What forward gives the network: the places it looks back at are filled.
LEMMA NetInputIs ==
  ASSUME BrainInv, BrainTypeOK, forward_passes < MaxPasses, Enough
  PROVE  getNetInput(forward_passes + 1) \in NetInput
  <1> DEFINE n == window_size
             fp == forward_passes
             t == temporal_window
  <1>1. /\ t \in Nat /\ n \in Nat /\ n >= 2 /\ n >= t /\ fp \in Nat /\ fp = Len(history)
        /\ fp + 1 > t /\ MaxPasses \in Nat
    BY WindowIsWide, PassIs DEF BrainInv, ShapeInv, forward_passes, Enough
  <1>2. ASSUME NEW k \in 1..t
        PROVE  <<state_window[n + 1 - k], action_window[n + 1 - k]>> \in Pair
    <2>1. PICK i, j : i = fp + 1 - k /\ j = n + 1 - k
      OBVIOUS
    <2>2. j \in 1..n /\ i \in 1..fp /\ i = PassAt(j)
      BY <1>1, <2>1 DEF PassAt
    <2>3. state_window[j] = i /\ action_window[j] = history[i].action
      BY <2>2 DEF BrainInv, WindowsInv
    <2>4. i \in Pass
      BY <1>1, <2>2 DEF Pass
    <2>5. history[i].action \in Action
      <3>1. history \in Seq([action : Action, reward : Pass \cup {None}]) /\ i \in 1..Len(history)
        BY <1>1, <2>2 DEF BrainTypeOK
      <3>2. history[i] \in [action : Action, reward : Pass \cup {None}]
        BY <3>1, ElementOfSeq
      <3> QED BY <3>2
    <2> QED BY <2>1, <2>3, <2>4, <2>5 DEF Pair
  <1>3. [k \in 1..t |-> <<state_window[n + 1 - k], action_window[n + 1 - k]>>] \in Seq(Pair)
    <2>1. [k \in 1..t |-> <<state_window[n + 1 - k], action_window[n + 1 - k]>>] \in [1..t -> Pair]
      BY <1>2, Zenon
    <2>2. \A f \in [1..t -> Pair] : f \in Seq(Pair)
      BY <1>1
    <2> QED BY <2>1, <2>2
  <1>4. fp + 1 \in Pass
    BY <1>1 DEF Pass
  <1> QED BY <1>3, <1>4 DEF getNetInput, NetInput

LEMMA ForwardTypes ==
  ASSUME BrainInv, BrainTypesInv, NEW action \in Action, forward(action)
  PROVE  BrainTypesInv'
  <1> DEFINE n == window_size
             fp == forward_passes
             Entry == [action : Action, reward : Pass \cup {None}]
  <1>1. /\ BrainTypeOK /\ AgeInv /\ n \in Nat \ {0} /\ fp \in Nat /\ fp = Len(history)
        /\ fp < MaxPasses /\ MaxPasses \in Nat
    BY WindowIsWide, PassIs DEF BrainTypesInv, BrainInv, ShapeInv, forward_passes, forward
  <1>2. /\ history' = Append(history, [action |-> action, reward |-> None])
        /\ UNCHANGED <<temporal_window, reward_window, experience, learning, age,
                       average_reward, average_loss, toggles>>
    BY DEF forward
  <1>3. n' = n
    BY <1>2 DEF window_size
  <1>4. PICK seen \in NetInput : net_window' = Shifted(net_window, seen)
    <2>1. <<>> \in NetInput
      BY DEF NetInput
    <2>2. Enough => getNetInput(fp + 1) \in NetInput
      BY <1>1, NetInputIs
    <2> QED BY <2>1, <2>2 DEF forward
  <1>5. net_window' \in [1..n -> NetInput \cup {None}]
    BY <1>1, <1>4, ShiftedInto DEF BrainTypeOK
  <1>6. state_window' \in [1..n -> Pass \cup {None}]
    <2>1. fp + 1 \in Pass
      BY <1>1 DEF Pass
    <2> QED BY <1>1, <2>1, ShiftedInto DEF BrainTypeOK, forward
  <1>7. action_window' \in [1..n -> Action \cup {None}]
    BY <1>1, ShiftedInto DEF BrainTypeOK, forward
  <1>8. /\ history' \in Seq(Entry) /\ fp' = fp + 1
        /\ history'[fp + 1].reward = None
    <2>1. history \in Seq(Entry)
      BY <1>1 DEF BrainTypeOK
    <2>2. [action |-> action, reward |-> None] \in Entry
      OBVIOUS
    <2> HIDE DEF Entry
    <2>3. /\ history' \in Seq(Entry) /\ Len(history') = Len(history) + 1
          /\ history'[Len(history) + 1] = [action |-> action, reward |-> None]
      BY <1>2, <2>1, <2>2, AppendProperties
    <2> QED BY <1>1, <2>3 DEF forward_passes
  <1>9. epsilon' \in EpsilonMin..Whole \cup {0}
    BY <1>1, StepsAssumption DEF forward, BrainTypeOK, Annealed, Whole, AgeInv
  <1>10. BrainTypeOK'
    BY <1>1, <1>2, <1>3, <1>5, <1>6, <1>7, <1>8, <1>9 DEF BrainTypeOK
  <1>11. AgeInv'
    BY <1>1, <1>2, <1>8 DEF AgeInv, Rewarded
  <1>12. IsSum(average_reward'.v, average_reward'.sum)
    BY <1>2 DEF BrainTypesInv
  <1> QED BY <1>10, <1>11, <1>12 DEF BrainTypesInv

\* The input of a pass that had its context.
LEMMA InputType ==
  ASSUME BrainInv, BrainTypesInv, NEW i \in 1..forward_passes, i > temporal_window
  PROVE  InputOf(i) \in NetInput
  <1> DEFINE fp == forward_passes
             t == temporal_window
  <1>1. /\ t \in Nat /\ fp \in Nat /\ fp = Len(history) /\ fp <= MaxPasses /\ MaxPasses \in Nat
        /\ history \in Seq([action : Action, reward : Pass \cup {None}])
    BY PassIs DEF BrainInv, ShapeInv, forward_passes, BrainTypesInv, BrainTypeOK, AgeInv
  <1>2. ASSUME NEW k \in 1..t
        PROVE  <<i - k, history[i - k].action>> \in Pair
    <2>1. i - k \in 1..Len(history) /\ i - k \in Pass
      BY <1>1 DEF Pass
    <2>2. history[i - k] \in [action : Action, reward : Pass \cup {None}]
      BY <1>1, <2>1, ElementOfSeq
    <2> QED BY <2>1, <2>2 DEF Pair
  <1>3. [k \in 1..t |-> <<i - k, history[i - k].action>>] \in Seq(Pair)
    <2>1. [k \in 1..t |-> <<i - k, history[i - k].action>>] \in [1..t -> Pair]
      BY <1>2, Zenon
    <2>2. \A f \in [1..t -> Pair] : f \in Seq(Pair)
      BY <1>1
    <2> QED BY <2>1, <2>2
  <1>4. i \in Pass
    BY <1>1 DEF Pass
  <1> QED BY <1>3, <1>4 DEF InputOf, NetInput

\* Whatever backward remembers, it comes from places that were filled.
LEMMA ExperienceIs ==
  ASSUME BrainInv, BrainTypesInv, backward, forward_passes > temporal_window + 1,
         reward_window' \in [1..window_size -> Pass \cup {None}]
  PROVE  NewExperience \in [state0 : NetInput, action0 : Action,
                            reward0 : Pass \cup {None}, state1 : NetInput]
  <1> DEFINE n == window_size
             fp == forward_passes
             t == temporal_window
             i == fp - 1
  <1>1. /\ t \in Nat /\ n \in Nat \ {0} /\ n >= 2 /\ fp \in Nat /\ fp = Len(history)
        /\ fp > t + 1
        /\ history \in Seq([action : Action, reward : Pass \cup {None}])
    BY WindowIsWide DEF BrainInv, ShapeInv, forward_passes, BrainTypesInv, BrainTypeOK
  <1>2. n \in 1..n /\ n - 1 \in 1..n /\ fp \in 1..fp /\ i \in 1..fp /\ i > t /\ fp > t
        /\ fp = PassAt(n) /\ i = PassAt(n - 1)
    BY <1>1 DEF PassAt
  <1>3. /\ net_window[n] = InputOf(fp) /\ net_window[n - 1] = InputOf(i)
        /\ action_window[n - 1] = history[i].action
    BY <1>2 DEF BrainInv, WindowsInv
  <1>4. net_window[n] \in NetInput /\ net_window[n - 1] \in NetInput
    BY <1>2, <1>3, InputType
  <1>5. action_window[n - 1] \in Action
    <2>1. history[i] \in [action : Action, reward : Pass \cup {None}]
      BY <1>1, <1>2, ElementOfSeq
    <2> QED BY <1>3, <2>1
  <1>6. reward_window'[n - 1] \in Pass \cup {None}
    BY <1>2
  <1> QED BY <1>4, <1>5, <1>6 DEF NewExperience

LEMMA BackwardTypes ==
  ASSUME BrainInv, BrainTypesInv, backward
  PROVE  BrainTypesInv'
  <1> DEFINE n == window_size
             fp == forward_passes
             Entry == [action : Action, reward : Pass \cup {None}]
             Record == [state0 : NetInput, action0 : Action,
                        reward0 : Pass \cup {None}, state1 : NetInput]
  <1>1. /\ BrainTypeOK /\ AgeInv /\ n \in Nat \ {0} /\ fp \in Nat /\ fp = Len(history)
        /\ fp > 0 /\ fp <= MaxPasses /\ MaxPasses \in Nat /\ fp \in Pass
    BY WindowIsWide, PassIs DEF BrainTypesInv, BrainInv, ShapeInv, AgeInv, forward_passes, backward, Pass
  <1>2. UNCHANGED <<temporal_window, net_window, state_window, action_window, learning, epsilon, toggles>>
    BY DEF backward, windows
  <1>3. n' = n
    BY <1>2 DEF window_size
  <1>4. reward_window' \in [1..n -> Pass \cup {None}]
    BY <1>1, ShiftedInto DEF BrainTypeOK, backward
  <1>5. history \in Seq(Entry)
    BY <1>1 DEF BrainTypeOK
  <1>6. /\ history' \in Seq(Entry) /\ fp' = fp /\ history'[fp].reward = fp
    <2> DEFINE entry == [history[fp] EXCEPT !.reward = fp]
    <2>1. fp \in 1..Len(history)
      BY <1>1
    <2>2. history[fp] \in Entry
      <3> HIDE DEF Entry
      <3> QED BY <1>5, <2>1, ElementOfSeq
    <2>3. entry \in Entry /\ entry.reward = fp
      BY <1>1, <2>2
    <2>4. history' = [history EXCEPT ![fp] = entry]
      BY DEF backward
    <2> HIDE DEF Entry, entry
    <2>5. history' \in Seq(Entry) /\ Len(history') = Len(history) /\ history'[fp] = entry
      BY <1>5, <2>1, <2>3, <2>4, ExceptSeq
    <2> QED BY <1>1, <2>3, <2>5 DEF forward_passes
  <1>7. /\ average_reward' \in [v : Seq(Pass), sum : Nat]
        /\ IsSum(average_reward'.v, average_reward'.sum)
    <2>1. PICK w : w = average_reward
      OBVIOUS
    <2>2. w \in [v : Seq(Pass), sum : Nat] /\ IsSum(w.v, w.sum)
      BY <2>1 DEF BrainTypesInv, BrainTypeOK
    <2>3. Added(w, fp) \in [v : Seq(Pass), sum : Nat] /\ IsSum(Added(w, fp).v, Added(w, fp).sum)
      BY <1>1, <2>2, AddedIs
    <2>4. average_reward' = Added(w, fp)
      BY <2>1 DEF backward
    <2> QED BY <2>3, <2>4
  <1>8. age < fp /\ age \in Nat
    <2>1. Last(history) = history[fp]
      BY <1>1 DEF Last
    <2> QED BY <1>1, <2>1 DEF backward, AgeInv, Rewarded
  <1>9. age' \in Nat /\ age' <= fp
    BY <1>1, <1>8 DEF backward
  <1>10. experience' \in Seq(Record) /\ Len(experience') <= ExperienceSize
    <2>1. experience \in Seq(Record) /\ Len(experience) <= ExperienceSize
      BY <1>1 DEF BrainTypeOK
    <2>2. fp > temporal_window + 1 => NewExperience \in Record
      BY <1>4, ExperienceIs
    <2> HIDE DEF Record
    <2>3. Len(experience) \in Nat /\ ExperienceSize \in Nat
      BY <2>1, MemoryAssumption
    <2>4. CASE UNCHANGED experience
      BY <2>1, <2>4
    <2>5. CASE /\ fp > temporal_window + 1 /\ Len(experience) < ExperienceSize
               /\ experience' = Append(experience, NewExperience)
      <3>1. experience' \in Seq(Record) /\ Len(experience') = Len(experience) + 1
        BY <2>1, <2>2, <2>5, AppendProperties
      <3> QED BY <2>3, <2>5, <3>1
    <2>6. ASSUME fp > temporal_window + 1, ~(Len(experience) < ExperienceSize),
                 NEW ri \in 1..ExperienceSize, experience' = [experience EXCEPT ![ri] = NewExperience]
          PROVE  experience' \in Seq(Record) /\ Len(experience') <= ExperienceSize
      <3>1. ri \in 1..Len(experience)
        BY <2>1, <2>3, <2>6
      <3>2. experience' \in Seq(Record) /\ Len(experience') = Len(experience)
        BY <2>1, <2>2, <2>6, <3>1, ExceptSeq
      <3> QED BY <2>1, <3>2
    <2>7. \/ UNCHANGED experience
          \/ /\ fp > temporal_window + 1 /\ Len(experience) < ExperienceSize
             /\ experience' = Append(experience, NewExperience)
          \/ /\ fp > temporal_window + 1 /\ ~(Len(experience) < ExperienceSize)
             /\ \E ri \in 1..ExperienceSize : experience' = [experience EXCEPT ![ri] = NewExperience]
      BY DEF backward, Remember
    <2> QED BY <2>4, <2>5, <2>6, <2>7
  <1>11. average_loss' \in 0..WindowSize
    <2>1. average_loss \in 0..WindowSize /\ WindowSize \in Nat \ {0}
      BY <1>1, WindowAssumption DEF BrainTypeOK
    <2>2. Train \/ average_loss' = average_loss
      BY DEF backward
    <2> QED BY <2>1, <2>2 DEF Train
  <1>12. BrainTypeOK'
    <2>1. age' \in 0..MaxPasses
      BY <1>1, <1>9
    <2> QED BY <1>1, <1>2, <1>3, <1>4, <1>6, <1>7, <1>10, <1>11, <2>1 DEF BrainTypeOK
  <1>13. AgeInv'
    BY <1>1, <1>6, <1>9, NoneAssumption DEF AgeInv, Rewarded
  <1> QED BY <1>7, <1>12, <1>13 DEF BrainTypesInv

\* The running average of the rewards is one of what it holds: what was added
\* and not dropped, which is never less than nothing (util.js); and what the
\* network is given and what is remembered never has a place that was not
\* filled (deepqlearn.js).
THEOREM BrainTypes == BrainSpec => []BrainTypeOK
  <1>1. ASSUME BrainInit
        PROVE  BrainTypesInv
    <2>1. temporal_window \in Nat
      BY <1>1, WindowAssumption DEF BrainInit
    <2>2. forward_passes = 0
      BY <1>1 DEF BrainInit, forward_passes
    <2>3. /\ \A S : <<>> \in Seq(S)
          /\ Len(<<>>) = 0
      BY EmptySeq
    <2>4. average_reward \in [v : Seq(Pass), sum : Nat]
      BY <1>1, <2>3 DEF BrainInit
    <2>5. BrainTypeOK
      BY <1>1, <2>1, <2>3, <2>4, WindowAssumption, MemoryAssumption, StepsAssumption, BoundsAssumption
      DEF BrainInit, BrainTypeOK, Empty, Whole
    <2>6. AgeInv
      BY <1>1, <2>2, PassIs DEF BrainInit, AgeInv
    <2>7. IsSum(<<>>, 0)
      <3> DEFINE acc == [k \in 0..0 |-> 0]
      <3>1. acc \in [0..Len(<<>>) -> Nat] /\ acc[0] = 0 /\ \A k \in 0..0 : acc[k] = 0
        BY <2>3
      <3> HIDE DEF acc
      <3>2. \A k \in 1..0 : FALSE
        OBVIOUS
      <3> QED BY <2>3, <3>1, <3>2 DEF IsSum
    <2> QED BY <1>1, <2>5, <2>6, <2>7 DEF BrainInit, BrainTypesInv
  <1>2. ASSUME BrainInv, BrainTypesInv, [BrainNext]_brainVars
        PROVE  BrainTypesInv'
    <2>1. CASE ToggleLearning
      <3>1. UNCHANGED <<temporal_window, windows, reward_window, experience, age,
                        epsilon, average_reward, average_loss, history>>
        BY <2>1 DEF ToggleLearning
      <3>2. learning' \in BOOLEAN /\ toggles' \in 0..MaxToggles
        BY <1>2, <2>1, BoundsAssumption DEF BrainTypesInv, BrainTypeOK, ToggleLearning
      <3>3. window_size' = window_size /\ forward_passes' = forward_passes
        BY <3>1 DEF window_size, forward_passes
      <3>4. BrainTypeOK'
        BY <1>2, <3>1, <3>2, <3>3 DEF BrainTypesInv, BrainTypeOK, windows
      <3>5. AgeInv'
        BY <1>2, <3>1, <3>3 DEF BrainTypesInv, AgeInv, Rewarded
      <3> QED BY <1>2, <3>1, <3>4, <3>5 DEF BrainTypesInv
    <2>2. CASE UNCHANGED brainVars
      <3>1. window_size' = window_size /\ forward_passes' = forward_passes
        BY <2>2 DEF window_size, forward_passes, brainVars
      <3>2. BrainTypeOK'
        BY <1>2, <2>2, <3>1 DEF BrainTypesInv, BrainTypeOK, windows, brainVars
      <3>3. AgeInv'
        BY <1>2, <2>2, <3>1 DEF BrainTypesInv, AgeInv, Rewarded, brainVars
      <3> QED BY <1>2, <2>2, <3>2, <3>3 DEF BrainTypesInv, brainVars
    <2> QED BY <1>2, <2>1, <2>2, ForwardTypes, BackwardTypes DEF BrainNext, Forward
  <1>3. BrainTypesInv => BrainTypeOK
    BY DEF BrainTypesInv
  <1> QED BY <1>1, <1>2, <1>3, BInvHolds, PTL DEF BrainSpec

=============================================================================
