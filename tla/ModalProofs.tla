----------------------------- MODULE ModalProofs ------------------------------
(***************************************************************************)
(* The modals of a page, however many there are and however often they are *)
(* shown.                                                                  *)
(***************************************************************************)
EXTENDS Modal, SharedLemmas

Object ==
  [isShown : BOOLEAN, backdrop : Nat, originalBodyPad : Nat, ignoreBackdropClick : BOOLEAN,
   pressed : BOOLEAN, clickers : Nat, displayed : BOOLEAN, in : BOOLEAN,
   opener : Trigger \cup {None}, onShow : Seq(Trigger), onHidden : Seq(Trigger)]

Page ==
  [backdrops : SUBSET (Nat \ {0}), made : Nat, modalOpen : BOOLEAN, bodyPad : Nat,
   focusin : Dialog \cup {None}, resize : SUBSET Dialog, focus : Trigger \cup {None},
   shows : Nat, overlapped : BOOLEAN]

El == ({"element", "dialog"} \X Dialog) \cup ({"backdrop"} \X (Nat \ {0}))
Name == {"appear", "shown", "hideModal", "remove", "hidden"}
Call == Name \X Dialog
Wait == Waits(El, Call)

\* The states on which the methods work.
State == [modal : [Dialog -> Object], page : Page, queue : Seq(Wait)]

\* What waits for the transitions of the modal, of its dialog and of a backdrop.
Fit(w) ==
  /\ w.call[1] = "shown" => w.el = DialogOf(w.call[2])
  /\ w.call[1] = "hideModal" => w.el = Element(w.call[2])
  /\ w.call[1] \in {"appear", "remove", "hidden"} =>
       w.el \in {"backdrop"} \X (Nat \ {0}) /\ w.left <= BackdropTime

\* The callback shown does nothing but to trigger an event.
Serious(w) == w.call[1] # "shown"

Orderly(q) == q \in Seq(Wait) /\ Sorted(q) /\ \A i \in DOMAIN q : Fit(q[i])

\* A backdrop belongs to one modal, and what waits for one element is one's, too.
Owned(s) ==
  /\ \A m \in Dialog : s.modal[m].backdrop <= s.page.made
  /\ \A m, n \in Dialog : s.modal[m].backdrop = s.modal[n].backdrop => m = n \/ s.modal[m].backdrop = 0
  /\ \A i \in DOMAIN s.queue :
       /\ s.queue[i].el[1] = "backdrop" => s.queue[i].el[2] <= s.page.made
       /\ \A m \in Dialog : s.queue[i].el = BackdropEl(s.modal[m].backdrop) => s.queue[i].call[2] = m
       /\ \A j \in DOMAIN s.queue :
            s.queue[i].el = s.queue[j].el => s.queue[i].call[2] = s.queue[j].call[2]

\* What is counted and saved.
Bounded(s) ==
  /\ s.page.bodyPad <= s.page.shows
  /\ \A b \in s.page.backdrops : b <= s.page.made
  /\ \A m \in Dialog : /\ s.modal[m].originalBodyPad <= s.page.shows
                       /\ s.modal[m].clickers <= s.page.made

Sound(s) == s \in State /\ Orderly(s.queue) /\ Owned(s) /\ Bounded(s)

\* A show makes one backdrop, and allows for one hideModal that makes another.
Hiding(q) == {i \in DOMAIN q : q[i].call[1] = "hideModal"}
Shown(s) == {m \in Dialog : s.modal[m].isShown}
Spent(s) == s.page.made + Cardinality(Hiding(s.queue)) + Cardinality(Shown(s))
Thrifty(s) == IsFiniteSet(Shown(s)) /\ Spent(s) <= 2 * s.page.shows

\* The page is locked as long as a modal is shown or on its way out.
Lifts(w) == w.call[1] \in {"hideModal", "remove"}
Pending(q) == \E i \in DOMAIN q : Lifts(q[i])
Locked(s) == s.page.modalOpen => Shown(s) # {} \/ Pending(s.queue)

\* The restorer that comes last is the opener's.
Restores(s) ==
  \A m \in Dialog : s.modal[m].opener # None =>
    /\ s.modal[m].isShown => s.modal[m].onShow = <<>>
    /\ s.modal[m].onHidden # <<>> => Last(s.modal[m].onHidden) = s.modal[m].opener

-----------------------------------------------------------------------------
(* One modal at a time *)

Quiet(q) == \A i \in DOMAIN q : ~Serious(q[i])

One(q, el, call) ==
  \E i \in DOMAIN q : /\ q[i].el = el /\ q[i].call = call
                      /\ \A k \in DOMAIN q : Serious(q[k]) => k = i

\* The modal is hidden before it has appeared.
Two(q, b, m) ==
  \E i, j \in DOMAIN q : /\ i < j
                         /\ q[i].el = BackdropEl(b) /\ q[i].call = <<"appear", m>>
                         /\ q[j].el = Element(m) /\ q[j].call = <<"hideModal", m>>
                         /\ \A k \in DOMAIN q : Serious(q[k]) => k = i \/ k = j

Idle(o) == ~o.isShown /\ ~o.displayed /\ o.backdrop = 0

Free(s) ==
  /\ ~s.page.modalOpen /\ s.page.bodyPad = 0 /\ s.page.backdrops = {}
  /\ \A n \in Dialog : Idle(s.modal[n])
  /\ Quiet(s.queue)

\* The page is m's.
Own(s, m) ==
  /\ s.page.modalOpen /\ s.modal[m].originalBodyPad = 0
  /\ s.page.backdrops = {s.modal[m].backdrop} \ {0}
  /\ s.modal[m].backdrop # 0 <=> m \in WithBackdrop
  /\ \A n \in Dialog : n = m \/ Idle(s.modal[n])

Veiled(m) == m \in Fading /\ m \in WithBackdrop

ComesUp(s, m) ==
  /\ Own(s, m) /\ Veiled(m) /\ s.modal[m].isShown /\ m \in s.page.resize
  /\ One(s.queue, BackdropEl(s.modal[m].backdrop), <<"appear", m>>)

IsUp(s, m) ==
  /\ Own(s, m) /\ s.modal[m].isShown /\ m \in s.page.resize
  /\ s.modal[m].displayed /\ s.page.focusin = m
  /\ Quiet(s.queue)

CutShort(s, m) ==
  /\ Own(s, m) /\ Veiled(m) /\ ~s.modal[m].isShown
  /\ Two(s.queue, s.modal[m].backdrop, m)

GoesDown(s, m) ==
  /\ Own(s, m) /\ m \in Fading /\ ~s.modal[m].isShown
  /\ One(s.queue, Element(m), <<"hideModal", m>>)

Lifting(s, m) ==
  /\ Own(s, m) /\ Veiled(m) /\ ~s.modal[m].isShown /\ ~s.modal[m].displayed
  /\ One(s.queue, BackdropEl(s.modal[m].backdrop), <<"remove", m>>)

Phased(s) ==
  \/ Free(s)
  \/ \E m \in Dialog : \/ ComesUp(s, m) \/ IsUp(s, m) \/ CutShort(s, m)
                       \/ GoesDown(s, m) \/ Lifting(s, m)

Steady(s) ==
  /\ Sound(s) /\ Thrifty(s) /\ Locked(s) /\ Restores(s)
  /\ ~s.page.overlapped => Phased(s)
  /\ s.page.shows <= MaxShows

ModalInv == Steady(Now)

-----------------------------------------------------------------------------
(* The queue *)

LEMMA WaitsAre ==
  ASSUME NEW q \in Seq(Wait)
  PROVE  /\ Len(q) \in Nat /\ DOMAIN q = 1..Len(q)
         /\ \A i \in 1..Len(q) : /\ q[i] \in Wait /\ q[i].el \in El /\ q[i].call \in Call
                                 /\ q[i].left \in 0..2
<1>1. \A w \in Wait : w.el \in El /\ w.call \in Call /\ w.left \in 0..2
  BY DEF Wait, Waits
<1>2. QED
  BY <1>1

LEMMA HidingFinite ==
  ASSUME NEW q \in Seq(Wait)
  PROVE  /\ IsFiniteSet(Hiding(q)) /\ Cardinality(Hiding(q)) \in Nat
         /\ \A S \in SUBSET (DOMAIN q) : IsFiniteSet(S) /\ Cardinality(S) \in Nat
<1>1. Len(q) \in Nat /\ DOMAIN q = 1..Len(q)
  BY WaitsAre
<1>2. IsFiniteSet(DOMAIN q)
  BY <1>1, FS_Interval
<1>3. ASSUME NEW S \in SUBSET (DOMAIN q)
      PROVE  IsFiniteSet(S) /\ Cardinality(S) \in Nat
  BY <1>2, FS_Subset, FS_CardinalityType
<1>4. QED
  BY <1>3 DEF Hiding

\* What stands in the queue when something more waits.
LEMMA AwaitOrderly ==
  ASSUME NEW q, Orderly(q), NEW el \in El, NEW call \in Call, NEW d \in 0..2,
         NEW w, w = Waiting(el, call, d), Fit(w), NEW r, r = Await(q, el, call, d)
  PROVE  /\ Orderly(r) /\ \E k, f : Awaited(q, r, k, w) /\ Places(q, r, f, k)
         /\ w.el = el /\ w.call = call /\ w.left = d
<1>1. q \in Seq(Wait) /\ Sorted(q)
  BY DEF Orderly
<1>2. r \in Seq(Wait) /\ Sorted(r) /\ \E k : Awaited(q, r, k, w)
  BY <1>1, AwaitIs DEF Wait
<1>3. PICK k : Awaited(q, r, k, w)
  BY <1>2
<1>4. Inserted(q, r, k, w)
  BY <1>3 DEF Awaited
<1>5. k \in Nat /\ k + 1 \in 1..Len(r) /\ r[k + 1] = w /\ \E f : Places(q, r, f, k)
  BY <1>1, <1>4, InsertedPlaces
<1>6. PICK f : Places(q, r, f, k)
  BY <1>5
<1>7. /\ DOMAIN r = 1..Len(r) /\ DOMAIN q = 1..Len(q)
  BY <1>1, <1>2, WaitsAre
<1>8. ASSUME NEW j \in DOMAIN r
      PROVE  r[j] = w \/ \E i \in DOMAIN q : r[j] = q[i]
  <2>1. j = k + 1 \/ \E i \in 1..Len(q) : f[i] = j
    BY <1>6, <1>7 DEF Places
  <2>2. \A i \in 1..Len(q) : r[f[i]] = q[i]
    BY <1>6 DEF Places
  <2>3. QED
    BY <1>5, <1>7, <2>1, <2>2
<1>9. Orderly(r)
  BY <1>2, <1>8 DEF Orderly
<1>10. w.el = el /\ w.call = call /\ w.left = d
  BY DEF Waiting
<1>11. QED
  BY <1>3, <1>6, <1>9, <1>10

LEMMA AwaitFine ==
  ASSUME NEW q, Orderly(q), NEW el \in El, NEW call \in Call, NEW d \in 0..2,
         NEW w, w = Waiting(el, call, d), Fit(w), NEW r, r = Await(q, el, call, d)
  PROVE  /\ Orderly(r)
         /\ \A j \in DOMAIN r : (r[j].el = el /\ r[j].call = call) \/ \E i \in DOMAIN q : r[j] = q[i]
         /\ \A i \in DOMAIN q : \E j \in DOMAIN r : r[j] = q[i]
         /\ \E j \in DOMAIN r : r[j].call = call
         /\ Quiet(q) /\ call[1] # "shown" => One(r, el, call)
         /\ Quiet(q) /\ call[1] = "shown" => Quiet(r)
         /\ \A e, c : One(q, e, c) /\ call[1] = "shown" => One(r, e, c)
         /\ \A b, m : One(q, BackdropEl(b), <<"appear", m>>) /\ BackdropTime <= d
                        /\ el = Element(m) /\ call = <<"hideModal", m>> => Two(r, b, m)
<1>1. q \in Seq(Wait) /\ Orderly(r) /\ w.el = el /\ w.call = call /\ w.left = d
  BY AwaitOrderly DEF Orderly
<1>2. PICK k, f : Awaited(q, r, k, w) /\ Places(q, r, f, k)
  BY AwaitOrderly
<1>3. /\ DOMAIN r = 1..Len(r) /\ DOMAIN q = 1..Len(q) /\ Len(r) \in Nat /\ Len(q) \in Nat
  BY <1>1, WaitsAre DEF Orderly
<1>4. k \in Nat /\ k + 1 \in DOMAIN r /\ r[k + 1] = w
  BY <1>1, <1>2, <1>3, InsertedPlaces DEF Awaited
<1>5. /\ \A i \in DOMAIN q : f[i] \in DOMAIN r /\ r[f[i]] = q[i] /\ f[i] # k + 1
      /\ \A i \in DOMAIN q : f[i] < k + 1 <=> i <= k
      /\ \A j \in DOMAIN r : j = k + 1 \/ \E i \in DOMAIN q : f[i] = j
  BY <1>2, <1>3 DEF Places
<1>6. \A j \in DOMAIN r : j = k + 1 \/ \E i \in DOMAIN q : f[i] = j /\ r[j] = q[i]
  BY <1>5
<1>7. Quiet(q) /\ call[1] # "shown" => One(r, el, call)
  <2>1. ASSUME Quiet(q)
        PROVE  One(r, el, call)
    <3>1. \A j \in DOMAIN r : Serious(r[j]) => j = k + 1
      BY <1>6, <2>1 DEF Quiet
    <3>2. QED
      BY <1>1, <1>4, <3>1 DEF One
  <2>2. QED
    BY <2>1
<1>8. Quiet(q) /\ call[1] = "shown" => Quiet(r)
  BY <1>1, <1>4, <1>6 DEF Quiet, Serious
<1>9. ASSUME NEW e, NEW c, One(q, e, c), call[1] = "shown"
      PROVE  One(r, e, c)
  <2>1. PICK i \in DOMAIN q : /\ q[i].el = e /\ q[i].call = c
                              /\ \A n \in DOMAIN q : Serious(q[n]) => n = i
    BY <1>9 DEF One
  <2>2. \A j \in DOMAIN r : Serious(r[j]) => j = f[i]
    BY <1>1, <1>4, <1>6, <1>9, <2>1 DEF Serious
  <2>3. QED
    BY <1>5, <2>1, <2>2 DEF One
<1>10. ASSUME NEW b, NEW m, One(q, BackdropEl(b), <<"appear", m>>), BackdropTime <= d,
              el = Element(m), call = <<"hideModal", m>>
       PROVE  Two(r, b, m)
  <2>1. PICK i \in DOMAIN q : /\ q[i].el = BackdropEl(b) /\ q[i].call = <<"appear", m>>
                              /\ \A n \in DOMAIN q : Serious(q[n]) => n = i
    BY <1>10 DEF One
  <2>2. q[i].left <= BackdropTime /\ q[i].left \in 0..2 /\ q[i].call[1] = "appear"
    BY <1>1, <1>3, <2>1, WaitsAre DEF Orderly, Fit
  <2>3. q[i].left <= w.left
    BY <1>1, <1>10, <2>2 DEF BackdropTime
  <2>4. i <= k
    <3>1. \A j \in (k + 1)..Len(q) : ~(q[j].left <= w.left)
      BY <1>2 DEF Awaited
    <3>2. QED
      BY <1>3, <1>4, <2>3, <3>1
  <2>5. f[i] < k + 1 /\ f[i] \in DOMAIN r /\ r[f[i]] = q[i]
    BY <1>5, <2>4
  <2>6. \A j \in DOMAIN r : Serious(r[j]) => j = f[i] \/ j = k + 1
    BY <1>6, <2>1
  <2>7. /\ r[f[i]].el = BackdropEl(b) /\ r[f[i]].call = <<"appear", m>>
        /\ r[k + 1].el = Element(m) /\ r[k + 1].call = <<"hideModal", m>>
    BY <1>1, <1>4, <1>10, <2>1, <2>5
  <2>8. QED
    BY <1>4, <2>5, <2>6, <2>7 DEF Two
<1>11. \A j \in DOMAIN r : (r[j].el = el /\ r[j].call = call) \/ \E i \in DOMAIN q : r[j] = q[i]
  BY <1>1, <1>4, <1>6
<1>12. \A i \in DOMAIN q : \E j \in DOMAIN r : r[j] = q[i]
  BY <1>5
<1>13. \E j \in DOMAIN r : r[j].call = call
  BY <1>1, <1>4
<1>14. QED
  BY <1>1, <1>7, <1>8, <1>9, <1>10, <1>11, <1>12, <1>13

\* One hideModal waits more, or none.
LEMMA AwaitHides ==
  ASSUME NEW q, Orderly(q), NEW el \in El, NEW call \in Call, NEW d \in 0..2,
         NEW w, w = Waiting(el, call, d), Fit(w), NEW r, r = Await(q, el, call, d)
  PROVE  /\ Cardinality(Hiding(r)) <= Cardinality(Hiding(q)) + 1
         /\ call[1] # "hideModal" => Cardinality(Hiding(r)) <= Cardinality(Hiding(q))
<1>1. q \in Seq(Wait) /\ r \in Seq(Wait) /\ w.call = call
  BY AwaitOrderly DEF Orderly
<1>2. PICK k, f : Awaited(q, r, k, w) /\ Places(q, r, f, k)
  BY AwaitOrderly
<1>3. DOMAIN r = 1..Len(r) /\ DOMAIN q = 1..Len(q)
  BY <1>1, WaitsAre
<1>4. k \in Nat /\ k + 1 \in DOMAIN r /\ r[k + 1] = w
  BY <1>1, <1>2, <1>3, InsertedPlaces DEF Awaited
<1>5. PICK S, T : S = Hiding(q) /\ T = Hiding(r) \ {k + 1}
  OBVIOUS
<1>6. /\ IsFiniteSet(S) /\ Cardinality(S) \in Nat
      /\ IsFiniteSet(T) /\ Cardinality(T) \in Nat
      /\ Cardinality(Hiding(r)) \in Nat
  <2>1. T \in SUBSET (DOMAIN r)
    BY <1>5 DEF Hiding
  <2>2. QED
    BY <1>1, <1>5, <2>1, HidingFinite
<1>7. PICK g : g = [i \in S |-> f[i]]
  OBVIOUS
<1>8. g \in Surjection(S, T)
  <2>1. \A i \in S : f[i] \in T
    BY <1>2, <1>3, <1>5 DEF Places, Hiding
  <2>2. \A j \in T : \E i \in S : f[i] = j
    BY <1>2, <1>3, <1>5 DEF Places, Hiding
  <2>3. QED
    BY <1>7, <2>1, <2>2 DEF Surjection
<1>9. Cardinality(T) <= Cardinality(S)
  BY <1>6, <1>8, FS_Surjection
<1>10. Cardinality(T \cup {k + 1}) = Cardinality(T) + 1
  BY <1>5, <1>6, FS_AddElement
<1>11. CASE k + 1 \in Hiding(r)
  <2>1. Hiding(r) = T \cup {k + 1}
    BY <1>5, <1>11
  <2>2. call[1] = "hideModal"
    BY <1>1, <1>4, <1>11 DEF Hiding
  <2>3. QED
    BY <1>5, <1>6, <1>9, <1>10, <2>1, <2>2
<1>12. CASE k + 1 \notin Hiding(r)
  <2>1. Hiding(r) = T
    BY <1>5, <1>12
  <2>2. QED
    BY <1>5, <1>6, <1>9, <2>1
<1>13. QED
  BY <1>11, <1>12

LEMMA WithoutFine ==
  ASSUME NEW q, Orderly(q), NEW el, NEW r, r = WithoutElement(q, el)
  PROVE  /\ Orderly(r)
         /\ \A j \in DOMAIN r : r[j].el # el /\ \E i \in DOMAIN q : r[j] = q[i]
         /\ \A i \in DOMAIN q : q[i].el = el \/ \E j \in DOMAIN r : r[j] = q[i]
         /\ Quiet(q) => Quiet(r)
         /\ \A e, c : One(q, e, c) /\ e = el => Quiet(r)
         /\ \A e, c : One(q, e, c) /\ e # el => One(r, e, c)
         /\ \A b, m : Two(q, b, m) /\ el = BackdropEl(b) => One(r, Element(m), <<"hideModal", m>>)
         /\ \A b, m : Two(q, b, m) /\ el # BackdropEl(b) /\ el # Element(m) => Two(r, b, m)
<1>1. q \in Seq(Wait) /\ Sorted(q)
  BY DEF Orderly
<1>2. r \in Seq(Wait) /\ Sorted(r) /\ \E f : Picked(q, r, f, Len(q), el)
  BY <1>1, WithoutIs DEF Wait
<1>3. PICK f : Picked(q, r, f, Len(q), el)
  BY <1>2
<1>4. /\ DOMAIN r = 1..Len(r) /\ DOMAIN q = 1..Len(q) /\ Len(r) \in Nat /\ Len(q) \in Nat
  BY <1>1, <1>2, WaitsAre
<1>5. /\ \A i \in DOMAIN r : f[i] \in DOMAIN q /\ r[i] = q[f[i]] /\ q[f[i]].el # el
      /\ \A i, j \in DOMAIN r : i < j => f[i] < f[j]
      /\ \A j \in DOMAIN q : q[j].el # el => \E i \in DOMAIN r : f[i] = j
  BY <1>3, <1>4 DEF Picked
<1>6. \A i, j \in DOMAIN r : i # j => f[i] # f[j]
  <2>1. ASSUME NEW i \in DOMAIN r, NEW j \in DOMAIN r, i # j
        PROVE  f[i] # f[j]
    <3>1. f[i] \in Nat /\ f[j] \in Nat /\ (i < j \/ j < i)
      BY <1>4, <1>5, <2>1
    <3>2. QED
      BY <1>5, <3>1
  <2>2. QED
    BY <2>1
<1>7. Orderly(r)
  BY <1>2, <1>5 DEF Orderly
<1>8. Quiet(q) => Quiet(r)
  BY <1>5 DEF Quiet
<1>9. ASSUME NEW e, NEW c, One(q, e, c)
      PROVE  /\ e = el => Quiet(r)
             /\ e # el => One(r, e, c)
  <2>1. PICK i \in DOMAIN q : /\ q[i].el = e /\ q[i].call = c
                              /\ \A n \in DOMAIN q : Serious(q[n]) => n = i
    BY <1>9 DEF One
  <2>2. e = el => Quiet(r)
    BY <1>5, <2>1 DEF Quiet
  <2>3. ASSUME e # el
        PROVE  One(r, e, c)
    <3>1. PICK j \in DOMAIN r : f[j] = i
      BY <1>5, <2>1, <2>3
    <3>2. \A n \in DOMAIN r : Serious(r[n]) => n = j
      BY <1>5, <1>6, <2>1, <3>1
    <3>3. QED
      BY <1>5, <2>1, <3>1, <3>2 DEF One
  <2>4. QED
    BY <2>2, <2>3
<1>10. ASSUME NEW b, NEW m, Two(q, b, m)
       PROVE  /\ el = BackdropEl(b) => One(r, Element(m), <<"hideModal", m>>)
              /\ el # BackdropEl(b) /\ el # Element(m) => Two(r, b, m)
  <2>1. PICK i, j \in DOMAIN q :
              /\ i < j
              /\ q[i].el = BackdropEl(b) /\ q[i].call = <<"appear", m>>
              /\ q[j].el = Element(m) /\ q[j].call = <<"hideModal", m>>
              /\ \A k \in DOMAIN q : Serious(q[k]) => k = i \/ k = j
    BY <1>10 DEF Two
  <2>2. BackdropEl(b) # Element(m)
    BY DEF BackdropEl, Element
  <2>3. ASSUME el = BackdropEl(b)
        PROVE  One(r, Element(m), <<"hideModal", m>>)
    <3>1. PICK n \in DOMAIN r : f[n] = j
      BY <1>5, <2>1, <2>2, <2>3
    <3>2. \A k \in DOMAIN r : Serious(r[k]) => k = n
      BY <1>5, <1>6, <2>1, <2>3, <3>1
    <3>3. QED
      BY <1>5, <2>1, <3>1, <3>2 DEF One
  <2>4. ASSUME el # BackdropEl(b), el # Element(m)
        PROVE  Two(r, b, m)
    <3>1. PICK n \in DOMAIN r : f[n] = j
      BY <1>5, <2>1, <2>4
    <3>2. PICK l \in DOMAIN r : f[l] = i
      BY <1>5, <2>1, <2>4
    <3>3. \A k \in DOMAIN r : Serious(r[k]) => k = l \/ k = n
      BY <1>5, <1>6, <2>1, <3>1, <3>2
    <3>4. l < n
      BY <1>4, <1>5, <2>1, <3>1, <3>2
    <3>5. QED
      BY <1>5, <2>1, <3>1, <3>2, <3>3, <3>4 DEF Two
  <2>5. QED
    BY <2>3, <2>4
<1>11. \A j \in DOMAIN r : r[j].el # el /\ \E i \in DOMAIN q : r[j] = q[i]
  BY <1>5
<1>12. \A i \in DOMAIN q : q[i].el = el \/ \E j \in DOMAIN r : r[j] = q[i]
  BY <1>5
<1>13. QED
  BY <1>7, <1>8, <1>9, <1>10, <1>11, <1>12

\* And what has waited is taken away.
HidingOn(q, el) == {i \in Hiding(q) : q[i].el = el}

LEMMA WithoutHides ==
  ASSUME NEW q, Orderly(q), NEW el, NEW r, r = WithoutElement(q, el)
  PROVE  Cardinality(Hiding(r)) + Cardinality(HidingOn(q, el)) <= Cardinality(Hiding(q))
<1>1. q \in Seq(Wait) /\ Sorted(q)
  BY DEF Orderly
<1>2. r \in Seq(Wait) /\ Sorted(r) /\ \E f : Picked(q, r, f, Len(q), el)
  BY <1>1, WithoutIs DEF Wait
<1>3. PICK f : Picked(q, r, f, Len(q), el)
  BY <1>2
<1>4. /\ DOMAIN r = 1..Len(r) /\ DOMAIN q = 1..Len(q) /\ Len(r) \in Nat /\ Len(q) \in Nat
  BY <1>1, <1>2, WaitsAre
<1>5. /\ \A i \in DOMAIN r : f[i] \in DOMAIN q /\ r[i] = q[f[i]] /\ q[f[i]].el # el
      /\ \A i, j \in DOMAIN r : i < j => f[i] < f[j]
      /\ \A j \in DOMAIN q : q[j].el # el => \E i \in DOMAIN r : f[i] = j
  BY <1>3, <1>4 DEF Picked
<1>6. \A i, j \in DOMAIN r : i # j => f[i] # f[j]
  <2>1. ASSUME NEW i \in DOMAIN r, NEW j \in DOMAIN r, i # j
        PROVE  f[i] # f[j]
    <3>1. f[i] \in Nat /\ f[j] \in Nat /\ (i < j \/ j < i)
      BY <1>4, <1>5, <2>1
    <3>2. QED
      BY <1>5, <3>1
  <2>2. QED
    BY <2>1
<1>7. PICK S, T : S = HidingOn(q, el) /\ T = {i \in Hiding(q) : q[i].el # el}
  OBVIOUS
<1>8. /\ IsFiniteSet(S) /\ Cardinality(S) \in Nat /\ IsFiniteSet(T) /\ Cardinality(T) \in Nat
      /\ IsFiniteSet(Hiding(r)) /\ Cardinality(Hiding(r)) \in Nat
  <2>1. S \in SUBSET (DOMAIN q) /\ T \in SUBSET (DOMAIN q)
    BY <1>7 DEF Hiding, HidingOn
  <2>2. QED
    BY <1>1, <1>2, <2>1, HidingFinite
<1>9. PICK g : g = [j \in Hiding(r) |-> f[j]]
  OBVIOUS
<1>10. g \in Injection(Hiding(r), T)
  <2>1. \A j \in Hiding(r) : f[j] \in T
    BY <1>5, <1>7 DEF Hiding
  <2>2. \A i, j \in Hiding(r) : f[i] = f[j] => i = j
    BY <1>6 DEF Hiding
  <2>3. g \in [Hiding(r) -> T] /\ \A j \in Hiding(r) : g[j] = f[j]
    BY <1>9, <2>1
  <2>4. \A i, j \in Hiding(r) : g[i] = g[j] => i = j
    BY <2>2, <2>3
  <2>5. QED
    BY <2>3, <2>4 DEF Injection, IsInjective
<1>11. Cardinality(Hiding(r)) <= Cardinality(T)
  BY <1>8, <1>10, FS_Injection
<1>12. S \cup T = Hiding(q) /\ S \cap T = {}
  BY <1>7 DEF HidingOn
<1>13. Cardinality(S \cup T) = Cardinality(S) + Cardinality(T) - Cardinality(S \cap T)
  BY <1>8, FS_Union
<1>14. Cardinality(S \cap T) = 0
  BY <1>12, FS_EmptySet
<1>15. Cardinality(Hiding(q)) = Cardinality(S) + Cardinality(T)
  BY <1>8, <1>12, <1>13, <1>14
<1>16. Cardinality(Hiding(r)) + Cardinality(S) <= Cardinality(Hiding(q))
  BY <1>8, <1>11, <1>15
<1>17. QED
  BY <1>7, <1>16

LEMMA PassesFine ==
  ASSUME NEW q, Orderly(q), q # <<>>, ~IsDue(q), NEW r, r = TimePasses(q)
  PROVE  /\ Orderly(r) /\ DOMAIN r = DOMAIN q
         /\ \A i \in DOMAIN q : r[i].el = q[i].el /\ r[i].call = q[i].call
         /\ Hiding(r) = Hiding(q)
         /\ Quiet(q) => Quiet(r)
         /\ \A e, c : One(q, e, c) => One(r, e, c)
         /\ \A b, m : Two(q, b, m) => Two(r, b, m)
<1>1. q \in Seq(Wait) /\ Sorted(q)
  BY DEF Orderly
<1>2. /\ r \in Seq(Wait) /\ Sorted(r) /\ r # <<>> /\ Len(r) = Len(q)
      /\ \A i \in 1..Len(q) : r[i].el = q[i].el /\ r[i].call = q[i].call
  BY <1>1, PassesIs DEF Wait
<1>3. DOMAIN r = DOMAIN q /\ DOMAIN q = 1..Len(q)
  BY <1>1, <1>2, WaitsAre
<1>4. \A i \in DOMAIN q : r[i].left <= q[i].left
  <2>1. \A i \in DOMAIN q : q[i].left \in 0..2 /\ q[i] \in Wait
    BY <1>1, <1>3, WaitsAre
  <2>2. \A w \in Wait : [w EXCEPT !.left = @ - 1].left = w.left - 1
    BY DEF Wait, Waits
  <2>3. \A i \in DOMAIN q : r[i].left = q[i].left - 1
    BY <2>1, <2>2 DEF TimePasses
  <2>4. QED
    BY <2>1, <2>3
<1>5. Orderly(r)
  <2>1. \A i \in DOMAIN r : r[i].left \in 0..2 /\ q[i].left \in 0..2
    BY <1>1, <1>2, <1>3, WaitsAre
  <2>2. \A i \in DOMAIN r : Fit(r[i])
    BY <1>2, <1>3, <1>4, <2>1 DEF Orderly, Fit, BackdropTime
  <2>3. QED
    BY <1>2, <1>3, <2>2 DEF Orderly
<1>6. \A i \in DOMAIN q : Serious(r[i]) => Serious(q[i])
  BY <1>2, <1>3 DEF Serious
<1>7. QED
  BY <1>2, <1>3, <1>5, <1>6 DEF Hiding, Quiet, One, Two

-----------------------------------------------------------------------------
(* What the methods consist of *)

LEMMA StateIs ==
  ASSUME NEW s \in State
  PROVE  /\ s = [modal |-> s.modal, page |-> s.page, queue |-> s.queue]
         /\ s.modal \in [Dialog -> Object] /\ s.page \in Page /\ s.queue \in Seq(Wait)
BY DEF State

\* Only the modal m is changed, and the page.
Alone(s, t, m) == t \in State /\ \A n \in Dialog : n = m \/ t.modal[n] = s.modal[n]

\* What waits on the elements of m waits for m.
LEMMA FitOwn ==
  ASSUME NEW w \in Wait, Fit(w), NEW m \in Dialog
  PROVE  w.el \in {Element(m), DialogOf(m)} => w.call[2] = m
<1>1. w.call \in Name \X Dialog /\ w.el \in El
  BY DEF Wait, Waits, Call
<1>2. w.call[1] \in Name
  BY <1>1
<1>3. CASE w.call[1] = "shown"
  BY <1>3 DEF Fit, DialogOf, Element
<1>4. CASE w.call[1] = "hideModal"
  BY <1>4 DEF Fit, DialogOf, Element
<1>5. CASE w.call[1] \in {"appear", "remove", "hidden"}
  BY <1>5 DEF Fit, DialogOf, Element
<1>6. QED
  BY <1>2, <1>3, <1>4, <1>5 DEF Name

LEMMA ElsAre ==
  /\ \A m, n \in Dialog : Element(m) # DialogOf(n)
  /\ \A m \in Dialog, b \in Nat : Element(m) # BackdropEl(b) /\ DialogOf(m) # BackdropEl(b)
  /\ \A b, c \in Nat : BackdropEl(b) = BackdropEl(c) => b = c
  /\ \A m, n \in Dialog : (Element(m) = Element(n) => m = n) /\ (DialogOf(m) = DialogOf(n) => m = n)
  /\ \A m \in Dialog : Element(m) \in El /\ DialogOf(m) \in El
  /\ \A b \in Nat \ {0} : BackdropEl(b) \in El
  /\ \A b \in Nat : BackdropEl(b)[1] = "backdrop" /\ BackdropEl(b)[2] = b
  /\ \A m \in Dialog : Element(m)[1] # "backdrop" /\ DialogOf(m)[1] # "backdrop"
  /\ BackdropEl(0) \notin El
BY DEF Element, DialogOf, BackdropEl, El

LEMMA SoundKept ==
  ASSUME NEW s, Sound(s), NEW m \in Dialog, NEW t, Alone(s, t, m), Orderly(t.queue),
         s.page.made <= t.page.made, s.page.shows <= t.page.shows,
         \/ t.modal[m].backdrop \in {0, s.modal[m].backdrop}
         \/ t.modal[m].backdrop = t.page.made /\ t.page.made = s.page.made + 1,
         t.page.bodyPad <= t.page.shows, \A b \in t.page.backdrops : b <= t.page.made,
         t.modal[m].originalBodyPad <= t.page.shows, t.modal[m].clickers <= t.page.made,
         \A j \in DOMAIN t.queue :
           \/ \E i \in DOMAIN s.queue : t.queue[j].el = s.queue[i].el /\ t.queue[j].call = s.queue[i].call
           \/ /\ t.queue[j].call[2] = m
              /\ t.queue[j].el \in {Element(m), DialogOf(m), BackdropEl(t.modal[m].backdrop)}
  PROVE  Sound(t)
<1>1. /\ t \in State /\ s \in State
      /\ \A n \in Dialog : n = m \/ t.modal[n] = s.modal[n]
  BY DEF Alone, Sound
<1>2. /\ \A n \in Dialog : s.modal[n] \in Object /\ t.modal[n] \in Object
      /\ s.page \in Page /\ t.page \in Page /\ s.queue \in Seq(Wait) /\ t.queue \in Seq(Wait)
  BY <1>1 DEF State
<1>3. /\ s.page.made \in Nat /\ t.page.made \in Nat /\ s.page.shows \in Nat /\ t.page.shows \in Nat
      /\ \A n \in Dialog : /\ s.modal[n].backdrop \in Nat /\ t.modal[n].backdrop \in Nat
                           /\ s.modal[n].originalBodyPad \in Nat /\ s.modal[n].clickers \in Nat
  BY <1>2 DEF Object, Page
<1>4. Bounded(t)
  <2>1. ASSUME NEW n \in Dialog
        PROVE  t.modal[n].originalBodyPad <= t.page.shows /\ t.modal[n].clickers <= t.page.made
    <3>1. CASE n = m
      BY <3>1
    <3>2. CASE n # m
      <4>1. t.modal[n] = s.modal[n]
        BY <1>1, <3>2
      <4>2. s.modal[n].originalBodyPad <= s.page.shows /\ s.modal[n].clickers <= s.page.made
        BY DEF Sound, Bounded
      <4>3. QED
        BY <1>3, <4>1, <4>2
    <3>3. QED
      BY <3>1, <3>2
  <2>2. QED
    BY <2>1 DEF Bounded
<1>5. /\ \A n \in Dialog : s.modal[n].backdrop <= s.page.made
      /\ \A n, l \in Dialog : s.modal[n].backdrop = s.modal[l].backdrop => n = l \/ s.modal[n].backdrop = 0
      /\ \A i \in DOMAIN s.queue :
           /\ s.queue[i].el[1] = "backdrop" => s.queue[i].el[2] <= s.page.made
           /\ \A n \in Dialog : s.queue[i].el = BackdropEl(s.modal[n].backdrop) => s.queue[i].call[2] = n
           /\ \A j \in DOMAIN s.queue :
                s.queue[i].el = s.queue[j].el => s.queue[i].call[2] = s.queue[j].call[2]
  BY DEF Sound, Owned
<1>6. \A n \in Dialog : t.modal[n].backdrop <= t.page.made
  <2>1. ASSUME NEW n \in Dialog
        PROVE  t.modal[n].backdrop <= t.page.made
    <3>1. CASE n # m
      BY <1>1, <1>3, <1>5, <3>1, SMTT(30)
    <3>2. CASE n = m
      BY <1>3, <1>5, <3>2, SMTT(30)
    <3>3. QED
      BY <3>1, <3>2
  <2>2. QED
    BY <2>1
\* The backdrop of m is no other modal's.
<1>7. \A n \in Dialog : n = m \/ t.modal[m].backdrop = 0 \/ t.modal[n].backdrop # t.modal[m].backdrop
  <2>1. ASSUME NEW n \in Dialog, n # m, t.modal[m].backdrop # 0
        PROVE  t.modal[n].backdrop # t.modal[m].backdrop
    <3>1. t.modal[n].backdrop = s.modal[n].backdrop
      BY <1>1, <2>1
    <3>2. CASE t.modal[m].backdrop = s.modal[m].backdrop
      BY <1>5, <2>1, <3>1, <3>2
    <3>3. CASE t.modal[m].backdrop = t.page.made /\ t.page.made = s.page.made + 1
      BY <1>3, <1>5, <3>1, <3>3
    <3>4. QED
      BY <2>1, <3>2, <3>3
  <2>2. QED
    BY <2>1
<1>8. \A n, l \in Dialog : t.modal[n].backdrop = t.modal[l].backdrop => n = l \/ t.modal[n].backdrop = 0
  <2>1. ASSUME NEW n \in Dialog, NEW l \in Dialog, t.modal[n].backdrop = t.modal[l].backdrop
        PROVE  n = l \/ t.modal[n].backdrop = 0
    <3>1. CASE n # m /\ l # m
      BY <1>1, <1>5, <2>1, <3>1
    <3>2. CASE n = m
      BY <1>7, <2>1, <3>2
    <3>3. CASE l = m
      BY <1>7, <2>1, <3>3
    <3>4. QED
      BY <3>1, <3>2, <3>3
  <2>2. QED
    BY <2>1
<1>9. \A i \in DOMAIN s.queue : s.queue[i] \in Wait /\ s.queue[i].el \in El /\ Fit(s.queue[i])
  BY <1>2, WaitsAre DEF Sound, Orderly
<1>10. \A j \in DOMAIN t.queue : t.queue[j] \in Wait /\ t.queue[j].el \in El /\ Fit(t.queue[j])
  BY <1>2, WaitsAre DEF Orderly
\* What waited before on an element of m, waited for m.
<1>11. ASSUME NEW i \in DOMAIN s.queue,
              s.queue[i].el \in {Element(m), DialogOf(m), BackdropEl(t.modal[m].backdrop)}
       PROVE  s.queue[i].call[2] = m
  <2>1. CASE s.queue[i].el \in {Element(m), DialogOf(m)}
    BY <1>9, <2>1, FitOwn
  <2>2. CASE s.queue[i].el = BackdropEl(t.modal[m].backdrop)
    <3>1. t.modal[m].backdrop # 0
      BY <1>9, <2>2, ElsAre
    <3>2. CASE t.modal[m].backdrop = s.modal[m].backdrop
      BY <1>5, <2>2, <3>2
    <3>3. CASE t.modal[m].backdrop = t.page.made /\ t.page.made = s.page.made + 1
      <4>1. s.queue[i].el[1] = "backdrop" /\ s.queue[i].el[2] = t.modal[m].backdrop
        BY <1>3, <2>2, ElsAre
      <4>2. QED
        BY <1>3, <1>5, <3>3, <4>1
    <3>4. QED
      BY <3>1, <3>2, <3>3
  <2>3. QED
    BY <1>11, <2>1, <2>2
<1>12. ASSUME NEW i \in DOMAIN t.queue
       PROVE  /\ t.queue[i].el[1] = "backdrop" => t.queue[i].el[2] <= t.page.made
              /\ \A n \in Dialog : t.queue[i].el = BackdropEl(t.modal[n].backdrop) => t.queue[i].call[2] = n
  <2>1. CASE \E k \in DOMAIN s.queue : t.queue[i].el = s.queue[k].el /\ t.queue[i].call = s.queue[k].call
    <3>1. PICK k \in DOMAIN s.queue : t.queue[i].el = s.queue[k].el /\ t.queue[i].call = s.queue[k].call
      BY <2>1
    <3>2. t.queue[i].el[1] = "backdrop" => t.queue[i].el[2] <= t.page.made
      <4>1. ASSUME t.queue[i].el[1] = "backdrop"
            PROVE  t.queue[i].el[2] <= t.page.made
        <5>1. s.queue[k].el[2] <= s.page.made
          BY <1>5, <3>1, <4>1
        <5>2. s.queue[k].el[2] \in Nat
          BY <1>9, <3>1, <4>1 DEF El
        <5>3. QED
          BY <1>3, <3>1, <5>1, <5>2
      <4>2. QED
        BY <4>1
    <3>3. ASSUME NEW n \in Dialog, t.queue[i].el = BackdropEl(t.modal[n].backdrop)
          PROVE  t.queue[i].call[2] = n
      <4>1. CASE n = m
        BY <1>11, <3>1, <3>3, <4>1
      <4>2. CASE n # m
        <5>1. s.queue[k].el = BackdropEl(s.modal[n].backdrop)
          BY <1>1, <3>1, <3>3, <4>2
        <5>2. s.queue[k].call[2] = n
          BY <1>5, <5>1
        <5>3. QED
          BY <3>1, <5>2
      <4>3. QED
        BY <4>1, <4>2
    <3>4. QED
      BY <3>2, <3>3
  <2>2. CASE /\ t.queue[i].call[2] = m
             /\ t.queue[i].el \in {Element(m), DialogOf(m), BackdropEl(t.modal[m].backdrop)}
    <3>1. t.queue[i].el[1] = "backdrop" => t.queue[i].el[2] = t.modal[m].backdrop
      BY <1>3, <2>2, ElsAre
    <3>2. ASSUME NEW n \in Dialog, t.queue[i].el = BackdropEl(t.modal[n].backdrop)
          PROVE  n = m
      <4>1. t.queue[i].el = BackdropEl(t.modal[m].backdrop)
        BY <1>3, <2>2, <3>2, ElsAre
      <4>2. t.modal[n].backdrop \in Nat /\ t.modal[m].backdrop \in Nat
        BY <1>3
      <4>3. BackdropEl(t.modal[n].backdrop) = BackdropEl(t.modal[m].backdrop)
        BY <3>2, <4>1
      <4>4. t.modal[n].backdrop = t.modal[m].backdrop
        BY <4>2, <4>3, ElsAre
      <4>5. t.modal[m].backdrop # 0
        BY <1>10, <4>1, ElsAre
      <4>6. QED
        BY <1>7, <4>4, <4>5
    <3>3. QED
      BY <1>6, <2>2, <3>1, <3>2
  <2>3. QED
    BY <2>1, <2>2
<1>13. ASSUME NEW i \in DOMAIN t.queue, NEW j \in DOMAIN t.queue, t.queue[i].el = t.queue[j].el
       PROVE  t.queue[i].call[2] = t.queue[j].call[2]
  <2>1. ASSUME NEW k \in DOMAIN t.queue,
               t.queue[k].el \in {Element(m), DialogOf(m), BackdropEl(t.modal[m].backdrop)}
        PROVE  t.queue[k].call[2] = m
    BY <1>11, <2>1
  <2>2. CASE t.queue[i].el \in {Element(m), DialogOf(m), BackdropEl(t.modal[m].backdrop)}
    BY <1>13, <2>1, <2>2
  <2>3. CASE t.queue[i].el \notin {Element(m), DialogOf(m), BackdropEl(t.modal[m].backdrop)}
    <3>1. PICK k \in DOMAIN s.queue : t.queue[i].el = s.queue[k].el /\ t.queue[i].call = s.queue[k].call
      BY <2>3
    <3>2. PICK l \in DOMAIN s.queue : t.queue[j].el = s.queue[l].el /\ t.queue[j].call = s.queue[l].call
      BY <1>13, <2>3
    <3>3. s.queue[k].el = s.queue[l].el
      BY <1>13, <3>1, <3>2
    <3>4. s.queue[k].call[2] = s.queue[l].call[2]
      BY <1>5, <3>3
    <3>5. QED
      BY <3>1, <3>2, <3>4
  <2>4. QED
    BY <2>2, <2>3
<1>14. Owned(t)
  BY <1>6, <1>8, <1>12, <1>13 DEF Owned
<1>15. QED
  BY <1>1, <1>4, <1>14 DEF Sound

\* What the end of a transition does for m.
Within(s, t, m) ==
  /\ Alone(s, t, m)
  /\ t.modal[m].isShown = s.modal[m].isShown /\ t.modal[m].opener = s.modal[m].opener
  /\ t.modal[m].onShow = s.modal[m].onShow
  /\ t.modal[m].originalBodyPad = s.modal[m].originalBodyPad
  /\ t.page.shows = s.page.shows /\ t.page.overlapped = s.page.overlapped
  /\ t.page.resize = s.page.resize

SameBackdrop(s, t, m) ==
  /\ t.modal[m].backdrop = s.modal[m].backdrop /\ t.modal[m].clickers = s.modal[m].clickers
  /\ t.page.backdrops = s.page.backdrops /\ t.page.made = s.page.made

SameLock(s, t) == t.page.modalOpen = s.page.modalOpen /\ t.page.bodyPad = s.page.bodyPad

SameFocus(s, t, m) ==
  t.page.focus = s.page.focus /\ t.modal[m].onHidden = s.modal[m].onHidden

SameDisplay(s, t, m) ==
  t.modal[m].displayed = s.modal[m].displayed /\ t.page.focusin = s.page.focusin

LEMMA SoundAre ==
  ASSUME NEW s, Sound(s), NEW m \in Dialog
  PROVE  /\ s \in State /\ s.modal[m] \in Object /\ s.page \in Page
         /\ s.queue \in Seq(Wait) /\ Orderly(s.queue) /\ DOMAIN s.queue = 1..Len(s.queue)
         /\ \A i \in DOMAIN s.queue : s.queue[i] \in Wait
         /\ s.modal[m].backdrop \in Nat /\ s.modal[m].backdrop <= s.page.made
         /\ s.modal[m].originalBodyPad \in Nat /\ s.modal[m].originalBodyPad <= s.page.shows
         /\ s.modal[m].clickers \in Nat /\ s.modal[m].clickers <= s.page.made
         /\ s.page.made \in Nat /\ s.page.shows \in Nat /\ s.page.bodyPad \in Nat
         /\ s.page.bodyPad <= s.page.shows
         /\ \A b \in s.page.backdrops : b \in Nat /\ b <= s.page.made
<1>1. s \in State /\ Orderly(s.queue)
  BY DEF Sound
<1>2. s.modal[m] \in Object /\ s.page \in Page /\ s.queue \in Seq(Wait)
  BY <1>1 DEF State
<1>3. /\ s.modal[m].backdrop <= s.page.made
      /\ s.modal[m].originalBodyPad <= s.page.shows /\ s.modal[m].clickers <= s.page.made
      /\ s.page.bodyPad <= s.page.shows /\ \A b \in s.page.backdrops : b <= s.page.made
  BY DEF Sound, Owned, Bounded
<1>4. /\ s.modal[m].backdrop \in Nat /\ s.modal[m].originalBodyPad \in Nat
      /\ s.modal[m].clickers \in Nat /\ s.page.made \in Nat /\ s.page.shows \in Nat
      /\ s.page.bodyPad \in Nat /\ s.page.backdrops \in SUBSET (Nat \ {0})
  BY <1>2 DEF Object, Page
<1>5. DOMAIN s.queue = 1..Len(s.queue) /\ \A i \in DOMAIN s.queue : s.queue[i] \in Wait
  BY <1>2, WaitsAre
<1>6. QED
  BY <1>1, <1>2, <1>3, <1>4, <1>5

\* hideModal's callback.
LEMMA HiddenIs ==
  ASSUME NEW s, Sound(s), NEW m \in Dialog, NEW t, t = Hidden(s, m)
  PROVE  /\ Sound(t) /\ Within(s, t, m) /\ SameBackdrop(s, t, m) /\ SameDisplay(s, t, m)
         /\ t.queue = s.queue
         /\ ~t.page.modalOpen /\ t.page.bodyPad = s.modal[m].originalBodyPad
         /\ t.modal[m].onHidden = <<>>
         /\ t.page.focus = IF s.modal[m].onHidden = <<>> THEN s.page.focus
                           ELSE Last(s.modal[m].onHidden)
<1>1. /\ s \in State /\ s.modal[m] \in Object /\ s.page \in Page /\ s.queue \in Seq(Wait)
      /\ s.modal[m].originalBodyPad \in Nat /\ Orderly(s.queue)
      /\ s.modal[m].backdrop \in Nat /\ s.modal[m].originalBodyPad <= s.page.shows
      /\ s.modal[m].clickers <= s.page.made /\ s.page.made \in Nat /\ s.page.shows \in Nat
      /\ \A b \in s.page.backdrops : b <= s.page.made
  BY SoundAre
<1>2. PICK focus : focus = IF s.modal[m].onHidden = <<>> THEN s.page.focus
                           ELSE Last(s.modal[m].onHidden)
  OBVIOUS
<1>3. focus \in Trigger \cup {None}
  <2>1. s.page.focus \in Trigger \cup {None} /\ s.modal[m].onHidden \in Seq(Trigger)
    BY <1>1 DEF Page, Object
  <2>2. s.modal[m].onHidden # <<>> => Last(s.modal[m].onHidden) \in Trigger
    BY <2>1 DEF Last
  <2>3. QED
    BY <1>2, <2>1, <2>2
<1>4. PICK pad \in Nat : pad = s.modal[m].originalBodyPad
  BY <1>1
<1>5. PICK o, p : /\ o = [s.modal[m] EXCEPT !.onHidden = <<>>]
                  /\ p = [s.page EXCEPT !.modalOpen = FALSE, !.bodyPad = pad, !.focus = focus]
  OBVIOUS
<1>6. t = [s EXCEPT !.page.modalOpen = FALSE, !.page.bodyPad = pad, !.page.focus = focus,
                    !.modal[m].onHidden = <<>>]
  BY <1>2, <1>4 DEF Hidden
<1>7. /\ t.modal = [s.modal EXCEPT ![m] = o] /\ t.page = p /\ t.queue = s.queue
      /\ t = [modal |-> t.modal, page |-> t.page, queue |-> t.queue]
  BY <1>1, <1>5, <1>6 DEF State
<1>8. /\ o \in Object
      /\ o.isShown = s.modal[m].isShown /\ o.opener = s.modal[m].opener
      /\ o.onShow = s.modal[m].onShow /\ o.originalBodyPad = s.modal[m].originalBodyPad
      /\ o.backdrop = s.modal[m].backdrop /\ o.clickers = s.modal[m].clickers
      /\ o.displayed = s.modal[m].displayed /\ o.onHidden = <<>>
  <2>1. <<>> \in Seq(Trigger)
    OBVIOUS
  <2>2. QED
    BY <1>1, <1>5, <2>1 DEF Object
<1>9. /\ p \in Page /\ ~p.modalOpen /\ p.bodyPad = pad /\ p.focus = focus
      /\ p.backdrops = s.page.backdrops /\ p.made = s.page.made /\ p.focusin = s.page.focusin
      /\ p.shows = s.page.shows /\ p.overlapped = s.page.overlapped /\ p.resize = s.page.resize
  BY <1>1, <1>3, <1>5 DEF Page
<1>10. Alone(s, t, m) /\ t.modal[m] = o /\ t.page = p /\ t.queue = s.queue
  <2>1. s.modal \in [Dialog -> Object]
    BY <1>1 DEF State
  <2>2. /\ t.modal \in [Dialog -> Object] /\ t.modal[m] = o
        /\ \A n \in Dialog : n = m \/ t.modal[n] = s.modal[n]
    BY <1>7, <1>8, <2>1
  <2>3. t \in State
    BY <1>1, <1>7, <1>9, <2>2 DEF State
  <2>4. QED
    BY <1>7, <2>2, <2>3 DEF Alone
<1>11. Within(s, t, m) /\ SameBackdrop(s, t, m) /\ SameDisplay(s, t, m)
  BY <1>8, <1>9, <1>10 DEF Within, SameBackdrop, SameDisplay
<1>12. Sound(t)
  <2>1. /\ s.page.made <= t.page.made /\ s.page.shows <= t.page.shows
        /\ t.modal[m].backdrop \in {0, s.modal[m].backdrop}
        /\ t.page.bodyPad <= t.page.shows /\ \A b \in t.page.backdrops : b <= t.page.made
        /\ t.modal[m].originalBodyPad <= t.page.shows /\ t.modal[m].clickers <= t.page.made
    BY <1>1, <1>4, <1>8, <1>9, <1>10
  <2>2. \A j \in DOMAIN t.queue :
          \E i \in DOMAIN s.queue : t.queue[j].el = s.queue[i].el /\ t.queue[j].call = s.queue[i].call
    BY <1>10
  <2>3. Orderly(t.queue)
    BY <1>1, <1>10
  <2>4. QED
    BY <1>10, <2>1, <2>2, <2>3, SoundKept
<1>13. QED
  BY <1>2, <1>4, <1>8, <1>9, <1>10, <1>11, <1>12

\* The backdrop is gone, and with it what waited on it.
LEMMA RemovedIs ==
  ASSUME NEW s, Sound(s), NEW m \in Dialog, NEW t, t = RemoveBackdrop(s, m)
  PROVE  /\ Sound(t) /\ Within(s, t, m) /\ SameLock(s, t) /\ SameFocus(s, t, m) /\ SameDisplay(s, t, m)
         /\ t.modal[m].backdrop = 0 /\ t.modal[m].clickers = s.modal[m].clickers
         /\ t.page.backdrops = s.page.backdrops \ {s.modal[m].backdrop} /\ t.page.made = s.page.made
         /\ t.queue = WithoutElement(s.queue, BackdropEl(s.modal[m].backdrop))
<1>1. /\ s \in State /\ s.modal[m] \in Object /\ s.page \in Page /\ s.queue \in Seq(Wait)
      /\ s.modal[m].originalBodyPad \in Nat /\ Orderly(s.queue)
      /\ s.modal[m].backdrop \in Nat /\ s.modal[m].originalBodyPad <= s.page.shows
      /\ s.modal[m].clickers \in Nat /\ s.modal[m].clickers <= s.page.made
      /\ s.page.made \in Nat /\ s.page.shows \in Nat
      /\ s.page.bodyPad \in Nat /\ s.page.bodyPad <= s.page.shows
      /\ \A b \in s.page.backdrops : b \in Nat /\ b <= s.page.made
  BY SoundAre
<1>2. PICK o, p, q : /\ o = [s.modal[m] EXCEPT !.backdrop = 0]
                     /\ p = [s.page EXCEPT !.backdrops = s.page.backdrops \ {s.modal[m].backdrop}]
                     /\ q = WithoutElement(s.queue, BackdropEl(s.modal[m].backdrop))
  OBVIOUS
<1>3. /\ t.modal = [s.modal EXCEPT ![m] = o] /\ t.page = p /\ t.queue = q
      /\ t = [modal |-> t.modal, page |-> t.page, queue |-> t.queue]
  BY <1>1, <1>2 DEF State, RemoveBackdrop
<1>4. /\ o \in Object /\ o.isShown = s.modal[m].isShown /\ o.backdrop = 0
      /\ o.originalBodyPad = s.modal[m].originalBodyPad /\ o.clickers = s.modal[m].clickers
      /\ o.displayed = s.modal[m].displayed /\ o.opener = s.modal[m].opener
      /\ o.onShow = s.modal[m].onShow /\ o.onHidden = s.modal[m].onHidden
  BY <1>1, <1>2 DEF Object
<1>5. /\ p \in Page /\ p.backdrops = s.page.backdrops \ {s.modal[m].backdrop}
      /\ p.made = s.page.made /\ p.modalOpen = s.page.modalOpen /\ p.bodyPad = s.page.bodyPad
      /\ p.focusin = s.page.focusin /\ p.resize = s.page.resize /\ p.focus = s.page.focus
      /\ p.shows = s.page.shows /\ p.overlapped = s.page.overlapped
  BY <1>1, <1>2 DEF Page
<1>6. /\ Orderly(q)
      /\ \A j \in DOMAIN q :
           \/ \E i \in DOMAIN s.queue : q[j].el = s.queue[i].el /\ q[j].call = s.queue[i].call
           \/ q[j].call[2] = m /\ q[j].el \in {Element(m), DialogOf(m), BackdropEl(o.backdrop)}
  <2>1. PICK r, el : r = s.queue /\ el = BackdropEl(s.modal[m].backdrop)
    OBVIOUS
  <2>2. Orderly(r) /\ q = WithoutElement(r, el)
    BY <1>1, <1>2, <2>1
  <2>3. Orderly(q) /\ \A j \in DOMAIN q : \E i \in DOMAIN r : q[j] = r[i]
    BY <2>2, WithoutFine
  <2>4. QED
    BY <2>1, <2>3
<1>7. /\ Alone(s, t, m) /\ t.modal[m] = o /\ t.page = p /\ t.queue = q
  <2>1. q \in Seq(Wait)
    BY <1>6 DEF Orderly
  <2>2. s.modal \in [Dialog -> Object]
    BY <1>1 DEF State
  <2>3. /\ t.modal \in [Dialog -> Object] /\ t.modal[m] = o
        /\ \A n \in Dialog : n = m \/ t.modal[n] = s.modal[n]
    BY <1>3, <1>4, <2>2
  <2>4. t \in State
    BY <1>3, <1>5, <2>1, <2>3 DEF State
  <2>5. QED
    BY <1>3, <2>3, <2>4 DEF Alone
<1>8. Within(s, t, m) /\ SameLock(s, t) /\ SameFocus(s, t, m) /\ SameDisplay(s, t, m)
  BY <1>4, <1>5, <1>7 DEF SameDisplay, SameFocus, SameLock, Within
<1>9. Sound(t)
  <2>1. /\ s.page.made <= p.made /\ s.page.shows <= p.shows
        /\ \/ o.backdrop \in {0, s.modal[m].backdrop}
           \/ o.backdrop = p.made /\ p.made = s.page.made + 1
        /\ p.bodyPad <= p.shows
        /\ o.originalBodyPad <= p.shows /\ o.clickers <= p.made
    BY <1>1, <1>4, <1>5
  <2>2. \A b \in p.backdrops : b <= p.made
    BY <1>1, <1>5
  <2>3. /\ Orderly(t.queue) /\ s.page.made <= t.page.made /\ s.page.shows <= t.page.shows
        /\ \/ t.modal[m].backdrop \in {0, s.modal[m].backdrop}
           \/ t.modal[m].backdrop = t.page.made /\ t.page.made = s.page.made + 1
        /\ t.page.bodyPad <= t.page.shows /\ \A b \in t.page.backdrops : b <= t.page.made
        /\ t.modal[m].originalBodyPad <= t.page.shows /\ t.modal[m].clickers <= t.page.made
        /\ \A j \in DOMAIN t.queue :
             \/ \E i \in DOMAIN s.queue : /\ t.queue[j].el = s.queue[i].el
                                         /\ t.queue[j].call = s.queue[i].call
             \/ /\ t.queue[j].call[2] = m
                /\ t.queue[j].el \in {Element(m), DialogOf(m), BackdropEl(t.modal[m].backdrop)}
    BY <1>6, <1>7, <2>1, <2>2
  <2>4. QED
    BY <1>7, <2>3, SoundKept
<1>10. QED
  BY <1>1, <1>2, <1>4, <1>5, <1>7, <1>8, <1>9

\* backdrop puts a new backdrop into the document.
Making(s, m) ==
  [s EXCEPT !.page.made = s.page.made + 1,
            !.page.backdrops = s.page.backdrops \cup {s.page.made + 1},
            !.modal[m].backdrop = s.page.made + 1,
            !.modal[m].clickers = s.modal[m].clickers + 1]

LEMMA MakingIs ==
  ASSUME NEW s, Sound(s), NEW m \in Dialog, NEW t, t = Making(s, m)
  PROVE  /\ Sound(t) /\ Within(s, t, m) /\ SameLock(s, t) /\ SameFocus(s, t, m) /\ SameDisplay(s, t, m)
         /\ t.modal[m].backdrop = s.page.made + 1 /\ t.page.made = s.page.made + 1
         /\ t.page.backdrops = s.page.backdrops \cup {s.page.made + 1} /\ t.queue = s.queue
<1>1. /\ s \in State /\ s.modal[m] \in Object /\ s.page \in Page /\ s.queue \in Seq(Wait)
      /\ s.modal[m].originalBodyPad \in Nat /\ Orderly(s.queue)
      /\ s.modal[m].backdrop \in Nat /\ s.modal[m].originalBodyPad <= s.page.shows
      /\ s.modal[m].clickers \in Nat /\ s.modal[m].clickers <= s.page.made
      /\ s.page.made \in Nat /\ s.page.shows \in Nat
      /\ s.page.bodyPad \in Nat /\ s.page.bodyPad <= s.page.shows
      /\ \A b \in s.page.backdrops : b \in Nat /\ b <= s.page.made
  BY SoundAre
<1>2. PICK made \in Nat \ {0} : made = s.page.made + 1
  BY <1>1
<1>3. PICK clickers \in Nat : clickers = s.modal[m].clickers + 1
  BY <1>1
<1>4. PICK o, p, q : /\ o = [s.modal[m] EXCEPT !.backdrop = made, !.clickers = clickers]
                     /\ p = [s.page EXCEPT !.made = made, !.backdrops = s.page.backdrops \cup {made}]
                     /\ q = s.queue
  OBVIOUS
<1>5. /\ t.modal = [s.modal EXCEPT ![m] = o] /\ t.page = p /\ t.queue = q
      /\ t = [modal |-> t.modal, page |-> t.page, queue |-> t.queue]
  BY <1>1, <1>2, <1>3, <1>4 DEF State, Making
<1>6. /\ o \in Object /\ o.isShown = s.modal[m].isShown /\ o.backdrop = made
      /\ o.originalBodyPad = s.modal[m].originalBodyPad /\ o.clickers = clickers
      /\ o.displayed = s.modal[m].displayed /\ o.opener = s.modal[m].opener
      /\ o.onShow = s.modal[m].onShow /\ o.onHidden = s.modal[m].onHidden
  BY <1>1, <1>2, <1>3, <1>4 DEF Object
<1>7. /\ p \in Page /\ p.backdrops = s.page.backdrops \cup {made} /\ p.made = made
      /\ p.modalOpen = s.page.modalOpen /\ p.bodyPad = s.page.bodyPad
      /\ p.focusin = s.page.focusin /\ p.resize = s.page.resize /\ p.focus = s.page.focus
      /\ p.shows = s.page.shows /\ p.overlapped = s.page.overlapped
  BY <1>1, <1>2, <1>3, <1>4 DEF Page
<1>8. /\ Orderly(q)
      /\ \A j \in DOMAIN q :
           \/ \E i \in DOMAIN s.queue : q[j].el = s.queue[i].el /\ q[j].call = s.queue[i].call
           \/ q[j].call[2] = m /\ q[j].el \in {Element(m), DialogOf(m), BackdropEl(o.backdrop)}
  BY <1>1, <1>4
<1>9. /\ Alone(s, t, m) /\ t.modal[m] = o /\ t.page = p /\ t.queue = q
  <2>1. q \in Seq(Wait)
    BY <1>8 DEF Orderly
  <2>2. s.modal \in [Dialog -> Object]
    BY <1>1 DEF State
  <2>3. /\ t.modal \in [Dialog -> Object] /\ t.modal[m] = o
        /\ \A n \in Dialog : n = m \/ t.modal[n] = s.modal[n]
    BY <1>5, <1>6, <2>2
  <2>4. t \in State
    BY <1>5, <1>7, <2>1, <2>3 DEF State
  <2>5. QED
    BY <1>5, <2>3, <2>4 DEF Alone
<1>10. Within(s, t, m) /\ SameLock(s, t) /\ SameFocus(s, t, m) /\ SameDisplay(s, t, m)
  BY <1>6, <1>7, <1>9 DEF SameDisplay, SameFocus, SameLock, Within
<1>11. Sound(t)
  <2>1. /\ s.page.made <= p.made /\ s.page.shows <= p.shows
        /\ \/ o.backdrop \in {0, s.modal[m].backdrop}
           \/ o.backdrop = p.made /\ p.made = s.page.made + 1
        /\ p.bodyPad <= p.shows
        /\ o.originalBodyPad <= p.shows /\ o.clickers <= p.made
    BY <1>1, <1>2, <1>3, <1>6, <1>7
  <2>2. \A b \in p.backdrops : b <= p.made
    BY <1>1, <1>2, <1>3, <1>7
  <2>3. /\ Orderly(t.queue) /\ s.page.made <= t.page.made /\ s.page.shows <= t.page.shows
        /\ \/ t.modal[m].backdrop \in {0, s.modal[m].backdrop}
           \/ t.modal[m].backdrop = t.page.made /\ t.page.made = s.page.made + 1
        /\ t.page.bodyPad <= t.page.shows /\ \A b \in t.page.backdrops : b <= t.page.made
        /\ t.modal[m].originalBodyPad <= t.page.shows /\ t.modal[m].clickers <= t.page.made
        /\ \A j \in DOMAIN t.queue :
             \/ \E i \in DOMAIN s.queue : /\ t.queue[j].el = s.queue[i].el
                                         /\ t.queue[j].call = s.queue[i].call
             \/ /\ t.queue[j].call[2] = m
                /\ t.queue[j].el \in {Element(m), DialogOf(m), BackdropEl(t.modal[m].backdrop)}
    BY <1>8, <1>9, <2>1, <2>2
  <2>4. QED
    BY <1>9, <2>3, SoundKept
<1>12. QED
  BY <1>1, <1>2, <1>3, <1>4, <1>6, <1>7, <1>9, <1>10, <1>11

Awaiting(s, el, call, d) == [s EXCEPT !.queue = Await(@, el, call, d)]

LEMMA AwaitingIs ==
  ASSUME NEW s, Sound(s), NEW m \in Dialog, NEW el, NEW call, NEW d \in 0..2,
         el \in El, call \in Call, call[2] = m, Fit(Waiting(el, call, d)),
         el \in {Element(m), DialogOf(m), BackdropEl(s.modal[m].backdrop)},
         NEW t, t = Awaiting(s, el, call, d)
  PROVE  /\ Sound(t) /\ Within(s, t, m) /\ SameBackdrop(s, t, m) /\ SameLock(s, t)
         /\ SameFocus(s, t, m) /\ SameDisplay(s, t, m)
         /\ t.queue = Await(s.queue, el, call, d)
<1>1. /\ s \in State /\ s.modal[m] \in Object /\ s.page \in Page /\ s.queue \in Seq(Wait)
      /\ s.modal[m].originalBodyPad \in Nat /\ Orderly(s.queue)
      /\ s.modal[m].backdrop \in Nat /\ s.modal[m].originalBodyPad <= s.page.shows
      /\ s.modal[m].clickers \in Nat /\ s.modal[m].clickers <= s.page.made
      /\ s.page.made \in Nat /\ s.page.shows \in Nat
      /\ s.page.bodyPad \in Nat /\ s.page.bodyPad <= s.page.shows
      /\ \A b \in s.page.backdrops : b \in Nat /\ b <= s.page.made
  BY SoundAre
<1>2. PICK o, p, q : /\ o = s.modal[m]
                     /\ p = s.page
                     /\ q = Await(s.queue, el, call, d)
  OBVIOUS
<1>3. /\ t.modal = [s.modal EXCEPT ![m] = o] /\ t.page = p /\ t.queue = q
      /\ t = [modal |-> t.modal, page |-> t.page, queue |-> t.queue]
  BY <1>1, <1>2 DEF State, Awaiting
<1>4. /\ o \in Object /\ o.isShown = s.modal[m].isShown /\ o.backdrop = s.modal[m].backdrop
      /\ o.originalBodyPad = s.modal[m].originalBodyPad /\ o.clickers = s.modal[m].clickers
      /\ o.displayed = s.modal[m].displayed /\ o.opener = s.modal[m].opener
      /\ o.onShow = s.modal[m].onShow /\ o.onHidden = s.modal[m].onHidden
  BY <1>1, <1>2 DEF Object
<1>5. /\ p \in Page /\ p.backdrops = s.page.backdrops /\ p.made = s.page.made
      /\ p.modalOpen = s.page.modalOpen /\ p.bodyPad = s.page.bodyPad
      /\ p.focusin = s.page.focusin /\ p.resize = s.page.resize /\ p.focus = s.page.focus
      /\ p.shows = s.page.shows /\ p.overlapped = s.page.overlapped
  BY <1>1, <1>2 DEF Page
<1>6. /\ Orderly(q)
      /\ \A j \in DOMAIN q :
           \/ \E i \in DOMAIN s.queue : q[j].el = s.queue[i].el /\ q[j].call = s.queue[i].call
           \/ q[j].call[2] = m /\ q[j].el \in {Element(m), DialogOf(m), BackdropEl(o.backdrop)}
  <2>1. PICK r, w : r = s.queue /\ w = Waiting(el, call, d)
    OBVIOUS
  <2>2. Orderly(r) /\ q = Await(r, el, call, d) /\ Fit(w)
    BY <1>1, <1>2, <2>1
  <2>3. /\ Orderly(q)
        /\ \A j \in DOMAIN q : (q[j].el = el /\ q[j].call = call) \/ \E i \in DOMAIN r : q[j] = r[i]
    BY <2>1, <2>2, AwaitFine
  <2>4. el \in {Element(m), DialogOf(m), BackdropEl(o.backdrop)}
    BY <1>2
  <2>5. QED
    BY <2>1, <2>3, <2>4
<1>7. /\ Alone(s, t, m) /\ t.modal[m] = o /\ t.page = p /\ t.queue = q
  <2>1. q \in Seq(Wait)
    BY <1>6 DEF Orderly
  <2>2. s.modal \in [Dialog -> Object]
    BY <1>1 DEF State
  <2>3. /\ t.modal \in [Dialog -> Object] /\ t.modal[m] = o
        /\ \A n \in Dialog : n = m \/ t.modal[n] = s.modal[n]
    BY <1>3, <1>4, <2>2
  <2>4. t \in State
    BY <1>3, <1>5, <2>1, <2>3 DEF State
  <2>5. QED
    BY <1>3, <2>3, <2>4 DEF Alone
<1>8. Within(s, t, m) /\ SameBackdrop(s, t, m) /\ SameLock(s, t) /\ SameFocus(s, t, m) /\ SameDisplay(s, t, m)
  BY <1>4, <1>5, <1>7 DEF SameBackdrop, SameDisplay, SameFocus, SameLock, Within
<1>9. Sound(t)
  <2>1. /\ s.page.made <= p.made /\ s.page.shows <= p.shows
        /\ \/ o.backdrop \in {0, s.modal[m].backdrop}
           \/ o.backdrop = p.made /\ p.made = s.page.made + 1
        /\ p.bodyPad <= p.shows
        /\ o.originalBodyPad <= p.shows /\ o.clickers <= p.made
    BY <1>1, <1>4, <1>5
  <2>2. \A b \in p.backdrops : b <= p.made
    BY <1>1, <1>5
  <2>3. /\ Orderly(t.queue) /\ s.page.made <= t.page.made /\ s.page.shows <= t.page.shows
        /\ \/ t.modal[m].backdrop \in {0, s.modal[m].backdrop}
           \/ t.modal[m].backdrop = t.page.made /\ t.page.made = s.page.made + 1
        /\ t.page.bodyPad <= t.page.shows /\ \A b \in t.page.backdrops : b <= t.page.made
        /\ t.modal[m].originalBodyPad <= t.page.shows /\ t.modal[m].clickers <= t.page.made
        /\ \A j \in DOMAIN t.queue :
             \/ \E i \in DOMAIN s.queue : /\ t.queue[j].el = s.queue[i].el
                                         /\ t.queue[j].call = s.queue[i].call
             \/ /\ t.queue[j].call[2] = m
                /\ t.queue[j].el \in {Element(m), DialogOf(m), BackdropEl(t.modal[m].backdrop)}
    BY <1>6, <1>7, <2>1, <2>2
  <2>4. QED
    BY <1>7, <2>3, SoundKept
<1>10. QED
  BY <1>1, <1>2, <1>4, <1>5, <1>7, <1>8, <1>9

Undisplayed(s, m) == [s EXCEPT !.modal[m].displayed = FALSE]

LEMMA UndisplayedIs ==
  ASSUME NEW s, Sound(s), NEW m \in Dialog, NEW t, t = Undisplayed(s, m)
  PROVE  /\ Sound(t) /\ Within(s, t, m) /\ SameBackdrop(s, t, m) /\ SameLock(s, t) /\ SameFocus(s, t, m)
         /\ ~t.modal[m].displayed /\ t.page.focusin = s.page.focusin /\ t.queue = s.queue
<1>1. /\ s \in State /\ s.modal[m] \in Object /\ s.page \in Page /\ s.queue \in Seq(Wait)
      /\ s.modal[m].originalBodyPad \in Nat /\ Orderly(s.queue)
      /\ s.modal[m].backdrop \in Nat /\ s.modal[m].originalBodyPad <= s.page.shows
      /\ s.modal[m].clickers \in Nat /\ s.modal[m].clickers <= s.page.made
      /\ s.page.made \in Nat /\ s.page.shows \in Nat
      /\ s.page.bodyPad \in Nat /\ s.page.bodyPad <= s.page.shows
      /\ \A b \in s.page.backdrops : b \in Nat /\ b <= s.page.made
  BY SoundAre
<1>2. PICK o, p, q : /\ o = [s.modal[m] EXCEPT !.displayed = FALSE]
                     /\ p = s.page
                     /\ q = s.queue
  OBVIOUS
<1>3. /\ t.modal = [s.modal EXCEPT ![m] = o] /\ t.page = p /\ t.queue = q
      /\ t = [modal |-> t.modal, page |-> t.page, queue |-> t.queue]
  BY <1>1, <1>2 DEF State, Undisplayed
<1>4. /\ o \in Object /\ o.isShown = s.modal[m].isShown /\ o.backdrop = s.modal[m].backdrop
      /\ o.originalBodyPad = s.modal[m].originalBodyPad /\ o.clickers = s.modal[m].clickers
      /\ ~o.displayed /\ o.opener = s.modal[m].opener /\ o.onShow = s.modal[m].onShow
      /\ o.onHidden = s.modal[m].onHidden
  BY <1>1, <1>2 DEF Object
<1>5. /\ p \in Page /\ p.backdrops = s.page.backdrops /\ p.made = s.page.made
      /\ p.modalOpen = s.page.modalOpen /\ p.bodyPad = s.page.bodyPad
      /\ p.focusin = s.page.focusin /\ p.resize = s.page.resize /\ p.focus = s.page.focus
      /\ p.shows = s.page.shows /\ p.overlapped = s.page.overlapped
  BY <1>1, <1>2 DEF Page
<1>6. /\ Orderly(q)
      /\ \A j \in DOMAIN q :
           \/ \E i \in DOMAIN s.queue : q[j].el = s.queue[i].el /\ q[j].call = s.queue[i].call
           \/ q[j].call[2] = m /\ q[j].el \in {Element(m), DialogOf(m), BackdropEl(o.backdrop)}
  BY <1>1, <1>2
<1>7. /\ Alone(s, t, m) /\ t.modal[m] = o /\ t.page = p /\ t.queue = q
  <2>1. q \in Seq(Wait)
    BY <1>6 DEF Orderly
  <2>2. s.modal \in [Dialog -> Object]
    BY <1>1 DEF State
  <2>3. /\ t.modal \in [Dialog -> Object] /\ t.modal[m] = o
        /\ \A n \in Dialog : n = m \/ t.modal[n] = s.modal[n]
    BY <1>3, <1>4, <2>2
  <2>4. t \in State
    BY <1>3, <1>5, <2>1, <2>3 DEF State
  <2>5. QED
    BY <1>3, <2>3, <2>4 DEF Alone
<1>8. Within(s, t, m) /\ SameBackdrop(s, t, m) /\ SameLock(s, t) /\ SameFocus(s, t, m)
  BY <1>4, <1>5, <1>7 DEF SameBackdrop, SameFocus, SameLock, Within
<1>9. Sound(t)
  <2>1. /\ s.page.made <= p.made /\ s.page.shows <= p.shows
        /\ \/ o.backdrop \in {0, s.modal[m].backdrop}
           \/ o.backdrop = p.made /\ p.made = s.page.made + 1
        /\ p.bodyPad <= p.shows
        /\ o.originalBodyPad <= p.shows /\ o.clickers <= p.made
    BY <1>1, <1>4, <1>5
  <2>2. \A b \in p.backdrops : b <= p.made
    BY <1>1, <1>5
  <2>3. /\ Orderly(t.queue) /\ s.page.made <= t.page.made /\ s.page.shows <= t.page.shows
        /\ \/ t.modal[m].backdrop \in {0, s.modal[m].backdrop}
           \/ t.modal[m].backdrop = t.page.made /\ t.page.made = s.page.made + 1
        /\ t.page.bodyPad <= t.page.shows /\ \A b \in t.page.backdrops : b <= t.page.made
        /\ t.modal[m].originalBodyPad <= t.page.shows /\ t.modal[m].clickers <= t.page.made
        /\ \A j \in DOMAIN t.queue :
             \/ \E i \in DOMAIN s.queue : /\ t.queue[j].el = s.queue[i].el
                                         /\ t.queue[j].call = s.queue[i].call
             \/ /\ t.queue[j].call[2] = m
                /\ t.queue[j].el \in {Element(m), DialogOf(m), BackdropEl(t.modal[m].backdrop)}
    BY <1>6, <1>7, <2>1, <2>2
  <2>4. QED
    BY <1>7, <2>3, SoundKept
<1>10. QED
  BY <1>1, <1>2, <1>4, <1>5, <1>7, <1>8, <1>9

\* show's callback.
LEMMA AppearIs ==
  ASSUME NEW s, Sound(s), NEW m \in Dialog, NEW t, t = Appear(s, m)
  PROVE  /\ Sound(t) /\ Within(s, t, m) /\ SameBackdrop(s, t, m) /\ SameLock(s, t) /\ SameFocus(s, t, m)
         /\ t.modal[m].displayed /\ t.page.focusin = m
         /\ t.queue = IF m \in Fading THEN Await(s.queue, DialogOf(m), <<"shown", m>>, ModalTime)
                      ELSE s.queue
<1>1. /\ s \in State /\ s.modal[m] \in Object /\ s.page \in Page /\ s.queue \in Seq(Wait)
      /\ s.modal[m].originalBodyPad \in Nat /\ Orderly(s.queue)
      /\ s.modal[m].backdrop \in Nat /\ s.modal[m].originalBodyPad <= s.page.shows
      /\ s.modal[m].clickers \in Nat /\ s.modal[m].clickers <= s.page.made
      /\ s.page.made \in Nat /\ s.page.shows \in Nat
      /\ s.page.bodyPad \in Nat /\ s.page.bodyPad <= s.page.shows
      /\ \A b \in s.page.backdrops : b \in Nat /\ b <= s.page.made
  BY SoundAre
<1>2. PICK o, p, q : /\ o = [s.modal[m] EXCEPT !.displayed = TRUE, !.in = TRUE]
                     /\ p = [s.page EXCEPT !.focusin = m]
                     /\ q = IF m \in Fading THEN Await(s.queue, DialogOf(m), <<"shown", m>>, ModalTime) ELSE s.queue
  OBVIOUS
<1>3. /\ t.modal = [s.modal EXCEPT ![m] = o] /\ t.page = p /\ t.queue = q
      /\ t = [modal |-> t.modal, page |-> t.page, queue |-> t.queue]
  BY <1>1, <1>2 DEF State, Appear
<1>4. /\ o \in Object /\ o.isShown = s.modal[m].isShown /\ o.backdrop = s.modal[m].backdrop
      /\ o.originalBodyPad = s.modal[m].originalBodyPad /\ o.clickers = s.modal[m].clickers
      /\ o.displayed /\ o.opener = s.modal[m].opener /\ o.onShow = s.modal[m].onShow
      /\ o.onHidden = s.modal[m].onHidden
  BY <1>1, <1>2 DEF Object
<1>5. /\ p \in Page /\ p.backdrops = s.page.backdrops /\ p.made = s.page.made
      /\ p.modalOpen = s.page.modalOpen /\ p.bodyPad = s.page.bodyPad /\ p.focusin = m
      /\ p.resize = s.page.resize /\ p.focus = s.page.focus /\ p.shows = s.page.shows
      /\ p.overlapped = s.page.overlapped
  BY <1>1, <1>2 DEF Page
<1>6. /\ Orderly(q)
      /\ \A j \in DOMAIN q :
           \/ \E i \in DOMAIN s.queue : q[j].el = s.queue[i].el /\ q[j].call = s.queue[i].call
           \/ q[j].call[2] = m /\ q[j].el \in {Element(m), DialogOf(m), BackdropEl(o.backdrop)}
  <2>1. CASE m \notin Fading
    BY <1>1, <1>2, <2>1
  <2>2. CASE m \in Fading
    <3>1. PICK r, el, call, d, w :
            /\ r = s.queue /\ el = DialogOf(m) /\ call = <<"shown", m>> /\ d = ModalTime
            /\ w = Waiting(el, call, d)
      OBVIOUS
    <3>2. /\ w.el = el /\ w.call = call /\ call[1] = "shown" /\ call[2] = m
      BY <3>1 DEF Waiting
    <3>3. el \in El /\ call \in Call /\ d \in 0..2 /\ Fit(w)
      BY <3>1, <3>2, ElsAre DEF Call, Name, ModalTime, Fit
    <3>4. Orderly(r) /\ q = Await(r, el, call, d)
      BY <1>1, <1>2, <2>2, <3>1
    <3>5. /\ Orderly(q)
          /\ \A j \in DOMAIN q : (q[j].el = el /\ q[j].call = call) \/ \E i \in DOMAIN r : q[j] = r[i]
      BY <3>1, <3>3, <3>4, AwaitFine, SMTT(30)
    <3>6. QED
      BY <3>1, <3>2, <3>5
  <2>3. QED
    BY <2>1, <2>2
<1>7. /\ Alone(s, t, m) /\ t.modal[m] = o /\ t.page = p /\ t.queue = q
  <2>1. q \in Seq(Wait)
    BY <1>6 DEF Orderly
  <2>2. s.modal \in [Dialog -> Object]
    BY <1>1 DEF State
  <2>3. /\ t.modal \in [Dialog -> Object] /\ t.modal[m] = o
        /\ \A n \in Dialog : n = m \/ t.modal[n] = s.modal[n]
    BY <1>3, <1>4, <2>2
  <2>4. t \in State
    BY <1>3, <1>5, <2>1, <2>3 DEF State
  <2>5. QED
    BY <1>3, <2>3, <2>4 DEF Alone
<1>8. Within(s, t, m) /\ SameBackdrop(s, t, m) /\ SameLock(s, t) /\ SameFocus(s, t, m)
  BY <1>4, <1>5, <1>7 DEF SameBackdrop, SameFocus, SameLock, Within
<1>9. Sound(t)
  <2>1. /\ s.page.made <= p.made /\ s.page.shows <= p.shows
        /\ \/ o.backdrop \in {0, s.modal[m].backdrop}
           \/ o.backdrop = p.made /\ p.made = s.page.made + 1
        /\ p.bodyPad <= p.shows
        /\ o.originalBodyPad <= p.shows /\ o.clickers <= p.made
    BY <1>1, <1>4, <1>5
  <2>2. \A b \in p.backdrops : b <= p.made
    BY <1>1, <1>5
  <2>3. /\ Orderly(t.queue) /\ s.page.made <= t.page.made /\ s.page.shows <= t.page.shows
        /\ \/ t.modal[m].backdrop \in {0, s.modal[m].backdrop}
           \/ t.modal[m].backdrop = t.page.made /\ t.page.made = s.page.made + 1
        /\ t.page.bodyPad <= t.page.shows /\ \A b \in t.page.backdrops : b <= t.page.made
        /\ t.modal[m].originalBodyPad <= t.page.shows /\ t.modal[m].clickers <= t.page.made
        /\ \A j \in DOMAIN t.queue :
             \/ \E i \in DOMAIN s.queue : /\ t.queue[j].el = s.queue[i].el
                                         /\ t.queue[j].call = s.queue[i].call
             \/ /\ t.queue[j].call[2] = m
                /\ t.queue[j].el \in {Element(m), DialogOf(m), BackdropEl(t.modal[m].backdrop)}
    BY <1>6, <1>7, <2>1, <2>2
  <2>4. QED
    BY <1>7, <2>3, SoundKept
<1>10. QED
  BY <1>1, <1>2, <1>4, <1>5, <1>7, <1>8, <1>9

\* The event show.
LEMMA ShowEventIs ==
  ASSUME NEW s, Sound(s), NEW m \in Dialog, NEW t, t = ShowEvent(s, m)
  PROVE  /\ Sound(t) /\ Alone(s, t, m) /\ SameBackdrop(s, t, m) /\ SameDisplay(s, t, m)
         /\ t.modal[m].onHidden = s.modal[m].onHidden \o s.modal[m].onShow
         /\ t.modal[m].onShow = <<>>
         /\ t.modal[m].isShown = s.modal[m].isShown /\ t.modal[m].opener = s.modal[m].opener
         /\ t.modal[m].originalBodyPad = s.modal[m].originalBodyPad
         /\ t.page = s.page /\ t.queue = s.queue
<1>1. /\ s \in State /\ s.modal[m] \in Object /\ s.page \in Page /\ s.queue \in Seq(Wait)
      /\ s.modal[m].originalBodyPad \in Nat /\ Orderly(s.queue)
      /\ s.modal[m].backdrop \in Nat /\ s.modal[m].originalBodyPad <= s.page.shows
      /\ s.modal[m].clickers \in Nat /\ s.modal[m].clickers <= s.page.made
      /\ s.page.made \in Nat /\ s.page.shows \in Nat
      /\ s.page.bodyPad \in Nat /\ s.page.bodyPad <= s.page.shows
      /\ \A b \in s.page.backdrops : b \in Nat /\ b <= s.page.made
  BY SoundAre
<1>2. PICK onHidden \in Seq(Trigger) : onHidden = s.modal[m].onHidden \o s.modal[m].onShow
  <2>1. s.modal[m].onHidden \in Seq(Trigger) /\ s.modal[m].onShow \in Seq(Trigger)
    BY <1>1 DEF Object
  <2>2. s.modal[m].onHidden \o s.modal[m].onShow \in Seq(Trigger)
    BY <2>1, ConcatProperties
  <2>3. QED
    BY <2>2
<1>3. PICK o, p, q : /\ o = [s.modal[m] EXCEPT !.onHidden = onHidden, !.onShow = <<>>]
                     /\ p = s.page
                     /\ q = s.queue
  OBVIOUS
<1>4. /\ t.modal = [s.modal EXCEPT ![m] = o] /\ t.page = p /\ t.queue = q
      /\ t = [modal |-> t.modal, page |-> t.page, queue |-> t.queue]
  BY <1>1, <1>2, <1>3 DEF State, ShowEvent
<1>5. /\ o \in Object /\ o.isShown = s.modal[m].isShown /\ o.backdrop = s.modal[m].backdrop
      /\ o.originalBodyPad = s.modal[m].originalBodyPad /\ o.clickers = s.modal[m].clickers
      /\ o.displayed = s.modal[m].displayed /\ o.opener = s.modal[m].opener /\ o.onShow = <<>>
      /\ o.onHidden = onHidden
  <2>1. <<>> \in Seq(Trigger)
    OBVIOUS
  <2>2. QED
    BY <1>1, <1>2, <1>3, <2>1 DEF Object
<1>6. /\ p \in Page /\ p.backdrops = s.page.backdrops /\ p.made = s.page.made
      /\ p.modalOpen = s.page.modalOpen /\ p.bodyPad = s.page.bodyPad
      /\ p.focusin = s.page.focusin /\ p.resize = s.page.resize /\ p.focus = s.page.focus
      /\ p.shows = s.page.shows /\ p.overlapped = s.page.overlapped
  BY <1>1, <1>2, <1>3 DEF Page
<1>7. /\ Orderly(q)
      /\ \A j \in DOMAIN q :
           \/ \E i \in DOMAIN s.queue : q[j].el = s.queue[i].el /\ q[j].call = s.queue[i].call
           \/ q[j].call[2] = m /\ q[j].el \in {Element(m), DialogOf(m), BackdropEl(o.backdrop)}
  BY <1>1, <1>3
<1>8. /\ Alone(s, t, m) /\ t.modal[m] = o /\ t.page = p /\ t.queue = q
  <2>1. q \in Seq(Wait)
    BY <1>7 DEF Orderly
  <2>2. s.modal \in [Dialog -> Object]
    BY <1>1 DEF State
  <2>3. /\ t.modal \in [Dialog -> Object] /\ t.modal[m] = o
        /\ \A n \in Dialog : n = m \/ t.modal[n] = s.modal[n]
    BY <1>4, <1>5, <2>2
  <2>4. t \in State
    BY <1>4, <1>6, <2>1, <2>3 DEF State
  <2>5. QED
    BY <1>4, <2>3, <2>4 DEF Alone
<1>9. SameBackdrop(s, t, m) /\ SameDisplay(s, t, m)
  BY <1>5, <1>6, <1>8 DEF SameBackdrop, SameDisplay
<1>10. Sound(t)
  <2>1. /\ s.page.made <= p.made /\ s.page.shows <= p.shows
        /\ \/ o.backdrop \in {0, s.modal[m].backdrop}
           \/ o.backdrop = p.made /\ p.made = s.page.made + 1
        /\ p.bodyPad <= p.shows
        /\ o.originalBodyPad <= p.shows /\ o.clickers <= p.made
    <3>1. /\ p.made = s.page.made /\ p.shows = s.page.shows /\ p.bodyPad = s.page.bodyPad
          /\ o.backdrop = s.modal[m].backdrop /\ o.clickers = s.modal[m].clickers
          /\ o.originalBodyPad = s.modal[m].originalBodyPad
      BY <1>5, <1>6
    <3>2. QED
      BY <1>1, <3>1
  <2>2. \A b \in p.backdrops : b <= p.made
    BY <1>1, <1>2, <1>6
  <2>3. /\ Orderly(t.queue) /\ s.page.made <= t.page.made /\ s.page.shows <= t.page.shows
        /\ \/ t.modal[m].backdrop \in {0, s.modal[m].backdrop}
           \/ t.modal[m].backdrop = t.page.made /\ t.page.made = s.page.made + 1
        /\ t.page.bodyPad <= t.page.shows /\ \A b \in t.page.backdrops : b <= t.page.made
        /\ t.modal[m].originalBodyPad <= t.page.shows /\ t.modal[m].clickers <= t.page.made
        /\ \A j \in DOMAIN t.queue :
             \/ \E i \in DOMAIN s.queue : /\ t.queue[j].el = s.queue[i].el
                                         /\ t.queue[j].call = s.queue[i].call
             \/ /\ t.queue[j].call[2] = m
                /\ t.queue[j].el \in {Element(m), DialogOf(m), BackdropEl(t.modal[m].backdrop)}
    BY <1>7, <1>8, <2>1, <2>2
  <2>4. QED
    BY <1>8, <2>3, SoundKept
<1>11. QED
  BY <1>1, <1>2, <1>3, <1>5, <1>6, <1>8, <1>9, <1>10

\* And the rest of a show, up to backdrop.
Showing(s, m, trigger) ==
  [SetScrollbar(s, m) EXCEPT
     !.modal[m].isShown = TRUE,
     !.modal[m].opener = trigger,
     !.page.modalOpen = TRUE,
     !.page.resize = s.page.resize \cup {m},
     !.page.shows = s.page.shows + 1,
     !.page.overlapped = s.page.overlapped \/ s.page.modalOpen]

LEMMA ShowingIs ==
  ASSUME NEW s, Sound(s), NEW m \in Dialog, NEW trigger \in Trigger \cup {None}, NEW t, t = Showing(s, m, trigger)
  PROVE  /\ Sound(t) /\ Alone(s, t, m) /\ SameBackdrop(s, t, m) /\ SameDisplay(s, t, m) /\ SameFocus(s, t, m)
         /\ t.modal[m].isShown /\ t.modal[m].opener = trigger
         /\ t.modal[m].onShow = s.modal[m].onShow
         /\ t.modal[m].originalBodyPad = s.page.bodyPad /\ t.page.modalOpen
         /\ m \in t.page.resize
         /\ t.page.shows = s.page.shows + 1
         /\ (t.page.overlapped <=> s.page.overlapped \/ s.page.modalOpen)
         /\ t.queue = s.queue
<1>1. /\ s \in State /\ s.modal[m] \in Object /\ s.page \in Page /\ s.queue \in Seq(Wait)
      /\ s.modal[m].originalBodyPad \in Nat /\ Orderly(s.queue)
      /\ s.modal[m].backdrop \in Nat /\ s.modal[m].originalBodyPad <= s.page.shows
      /\ s.modal[m].clickers \in Nat /\ s.modal[m].clickers <= s.page.made
      /\ s.page.made \in Nat /\ s.page.shows \in Nat
      /\ s.page.bodyPad \in Nat /\ s.page.bodyPad <= s.page.shows
      /\ \A b \in s.page.backdrops : b \in Nat /\ b <= s.page.made
  BY SoundAre
<1>2. PICK old \in Nat : old = s.page.bodyPad
  BY <1>1
<1>3. PICK pad \in Nat : pad = (IF Overflows /\ ~s.page.modalOpen THEN s.page.bodyPad + 1 ELSE s.page.bodyPad)
  BY <1>1
<1>4. PICK shows \in Nat : shows = s.page.shows + 1
  BY <1>1
<1>5. PICK overlapped \in BOOLEAN : overlapped = (s.page.overlapped \/ s.page.modalOpen)
  OBVIOUS
<1>6. PICK o, p, q : /\ o = [s.modal[m] EXCEPT !.originalBodyPad = old, !.isShown = TRUE, !.opener = trigger]
                     /\ p = [s.page EXCEPT !.bodyPad = pad, !.modalOpen = TRUE, !.resize = s.page.resize \cup {m}, !.shows = shows, !.overlapped = overlapped]
                     /\ q = s.queue
  OBVIOUS
<1>7. /\ t.modal = [s.modal EXCEPT ![m] = o] /\ t.page = p /\ t.queue = q
      /\ t = [modal |-> t.modal, page |-> t.page, queue |-> t.queue]
  BY <1>1, <1>2, <1>3, <1>4, <1>5, <1>6, ZenonT(60) DEF State, Showing, SetScrollbar
<1>8. /\ o \in Object /\ o.isShown /\ o.backdrop = s.modal[m].backdrop
      /\ o.originalBodyPad = old /\ o.clickers = s.modal[m].clickers
      /\ o.displayed = s.modal[m].displayed /\ o.opener = trigger
      /\ o.onShow = s.modal[m].onShow /\ o.onHidden = s.modal[m].onHidden
  BY <1>1, <1>2, <1>3, <1>4, <1>5, <1>6 DEF Object
<1>9. /\ p \in Page /\ p.backdrops = s.page.backdrops /\ p.made = s.page.made /\ p.modalOpen
      /\ p.bodyPad = pad /\ p.focusin = s.page.focusin /\ p.resize = s.page.resize \cup {m}
      /\ p.focus = s.page.focus /\ p.shows = shows /\ p.overlapped = overlapped
  BY <1>1, <1>2, <1>3, <1>4, <1>5, <1>6, ZenonT(60) DEF Page
<1>10. /\ Orderly(q)
      /\ \A j \in DOMAIN q :
           \/ \E i \in DOMAIN s.queue : q[j].el = s.queue[i].el /\ q[j].call = s.queue[i].call
           \/ q[j].call[2] = m /\ q[j].el \in {Element(m), DialogOf(m), BackdropEl(o.backdrop)}
  BY <1>1, <1>6
<1>11. /\ Alone(s, t, m) /\ t.modal[m] = o /\ t.page = p /\ t.queue = q
  <2>1. q \in Seq(Wait)
    BY <1>10 DEF Orderly
  <2>2. s.modal \in [Dialog -> Object]
    BY <1>1 DEF State
  <2>3. /\ t.modal \in [Dialog -> Object] /\ t.modal[m] = o
        /\ \A n \in Dialog : n = m \/ t.modal[n] = s.modal[n]
    BY <1>7, <1>8, <2>2
  <2>4. t \in State
    BY <1>7, <1>9, <2>1, <2>3 DEF State
  <2>5. QED
    BY <1>7, <2>3, <2>4 DEF Alone
<1>12. SameBackdrop(s, t, m) /\ SameDisplay(s, t, m) /\ SameFocus(s, t, m)
  BY <1>8, <1>9, <1>11 DEF SameBackdrop, SameDisplay, SameFocus
<1>13. Sound(t)
  <2>1. /\ s.page.made <= p.made /\ s.page.shows <= p.shows
        /\ \/ o.backdrop \in {0, s.modal[m].backdrop}
           \/ o.backdrop = p.made /\ p.made = s.page.made + 1
        /\ p.bodyPad <= p.shows
        /\ o.originalBodyPad <= p.shows /\ o.clickers <= p.made
    BY <1>1, <1>2, <1>3, <1>4, <1>5, <1>8, <1>9
  <2>2. \A b \in p.backdrops : b <= p.made
    BY <1>1, <1>2, <1>3, <1>4, <1>5, <1>9
  <2>3. /\ Orderly(t.queue) /\ s.page.made <= t.page.made /\ s.page.shows <= t.page.shows
        /\ \/ t.modal[m].backdrop \in {0, s.modal[m].backdrop}
           \/ t.modal[m].backdrop = t.page.made /\ t.page.made = s.page.made + 1
        /\ t.page.bodyPad <= t.page.shows /\ \A b \in t.page.backdrops : b <= t.page.made
        /\ t.modal[m].originalBodyPad <= t.page.shows /\ t.modal[m].clickers <= t.page.made
        /\ \A j \in DOMAIN t.queue :
             \/ \E i \in DOMAIN s.queue : /\ t.queue[j].el = s.queue[i].el
                                         /\ t.queue[j].call = s.queue[i].call
             \/ /\ t.queue[j].call[2] = m
                /\ t.queue[j].el \in {Element(m), DialogOf(m), BackdropEl(t.modal[m].backdrop)}
    BY <1>10, <1>11, <2>1, <2>2
  <2>4. QED
    BY <1>11, <2>3, SoundKept
<1>14. QED
  BY <1>1, <1>2, <1>3, <1>4, <1>5, <1>6, <1>8, <1>9, <1>11, <1>12, <1>13

\* A hide, up to the transition of the modal.
Closing(s, m) ==
  [s EXCEPT !.modal[m].isShown = FALSE,
            !.modal[m].in = FALSE,
            !.modal[m].clickers = 0,
            !.modal[m].pressed = FALSE,
            !.page.resize = {},
            !.page.focusin = None]

LEMMA ClosingIs ==
  ASSUME NEW s, Sound(s), NEW m \in Dialog, NEW t, t = Closing(s, m)
  PROVE  /\ Sound(t) /\ Alone(s, t, m) /\ SameLock(s, t) /\ SameFocus(s, t, m)
         /\ ~t.modal[m].isShown /\ t.modal[m].opener = s.modal[m].opener
         /\ t.modal[m].onShow = s.modal[m].onShow
         /\ t.modal[m].originalBodyPad = s.modal[m].originalBodyPad
         /\ t.modal[m].backdrop = s.modal[m].backdrop /\ t.modal[m].displayed = s.modal[m].displayed
         /\ t.page.backdrops = s.page.backdrops /\ t.page.made = s.page.made
         /\ t.page.shows = s.page.shows /\ t.page.overlapped = s.page.overlapped
         /\ t.queue = s.queue
<1>1. /\ s \in State /\ s.modal[m] \in Object /\ s.page \in Page /\ s.queue \in Seq(Wait)
      /\ s.modal[m].originalBodyPad \in Nat /\ Orderly(s.queue)
      /\ s.modal[m].backdrop \in Nat /\ s.modal[m].originalBodyPad <= s.page.shows
      /\ s.modal[m].clickers \in Nat /\ s.modal[m].clickers <= s.page.made
      /\ s.page.made \in Nat /\ s.page.shows \in Nat
      /\ s.page.bodyPad \in Nat /\ s.page.bodyPad <= s.page.shows
      /\ \A b \in s.page.backdrops : b \in Nat /\ b <= s.page.made
  BY SoundAre
<1>2. PICK o, p, q : /\ o = [s.modal[m] EXCEPT !.isShown = FALSE, !.in = FALSE, !.clickers = 0, !.pressed = FALSE]
                     /\ p = [s.page EXCEPT !.resize = {}, !.focusin = None]
                     /\ q = s.queue
  OBVIOUS
<1>3. /\ t.modal = [s.modal EXCEPT ![m] = o] /\ t.page = p /\ t.queue = q
      /\ t = [modal |-> t.modal, page |-> t.page, queue |-> t.queue]
  BY <1>1, <1>2 DEF State, Closing
<1>4. /\ o \in Object /\ ~o.isShown /\ o.backdrop = s.modal[m].backdrop
      /\ o.originalBodyPad = s.modal[m].originalBodyPad /\ o.clickers = 0
      /\ o.displayed = s.modal[m].displayed /\ o.opener = s.modal[m].opener
      /\ o.onShow = s.modal[m].onShow /\ o.onHidden = s.modal[m].onHidden
  BY <1>1, <1>2 DEF Object
<1>5. /\ p \in Page /\ p.backdrops = s.page.backdrops /\ p.made = s.page.made
      /\ p.modalOpen = s.page.modalOpen /\ p.bodyPad = s.page.bodyPad /\ p.focusin = None
      /\ p.resize = {} /\ p.focus = s.page.focus /\ p.shows = s.page.shows
      /\ p.overlapped = s.page.overlapped
  BY <1>1, <1>2 DEF Page
<1>6. /\ Orderly(q)
      /\ \A j \in DOMAIN q :
           \/ \E i \in DOMAIN s.queue : q[j].el = s.queue[i].el /\ q[j].call = s.queue[i].call
           \/ q[j].call[2] = m /\ q[j].el \in {Element(m), DialogOf(m), BackdropEl(o.backdrop)}
  BY <1>1, <1>2
<1>7. /\ Alone(s, t, m) /\ t.modal[m] = o /\ t.page = p /\ t.queue = q
  <2>1. q \in Seq(Wait)
    BY <1>6 DEF Orderly
  <2>2. s.modal \in [Dialog -> Object]
    BY <1>1 DEF State
  <2>3. /\ t.modal \in [Dialog -> Object] /\ t.modal[m] = o
        /\ \A n \in Dialog : n = m \/ t.modal[n] = s.modal[n]
    BY <1>3, <1>4, <2>2
  <2>4. t \in State
    BY <1>3, <1>5, <2>1, <2>3 DEF State
  <2>5. QED
    BY <1>3, <2>3, <2>4 DEF Alone
<1>8. SameLock(s, t) /\ SameFocus(s, t, m)
  BY <1>4, <1>5, <1>7 DEF SameFocus, SameLock
<1>9. Sound(t)
  <2>1. /\ s.page.made <= p.made /\ s.page.shows <= p.shows
        /\ \/ o.backdrop \in {0, s.modal[m].backdrop}
           \/ o.backdrop = p.made /\ p.made = s.page.made + 1
        /\ p.bodyPad <= p.shows
        /\ o.originalBodyPad <= p.shows /\ o.clickers <= p.made
    BY <1>1, <1>4, <1>5
  <2>2. \A b \in p.backdrops : b <= p.made
    BY <1>1, <1>5
  <2>3. /\ Orderly(t.queue) /\ s.page.made <= t.page.made /\ s.page.shows <= t.page.shows
        /\ \/ t.modal[m].backdrop \in {0, s.modal[m].backdrop}
           \/ t.modal[m].backdrop = t.page.made /\ t.page.made = s.page.made + 1
        /\ t.page.bodyPad <= t.page.shows /\ \A b \in t.page.backdrops : b <= t.page.made
        /\ t.modal[m].originalBodyPad <= t.page.shows /\ t.modal[m].clickers <= t.page.made
        /\ \A j \in DOMAIN t.queue :
             \/ \E i \in DOMAIN s.queue : /\ t.queue[j].el = s.queue[i].el
                                         /\ t.queue[j].call = s.queue[i].call
             \/ /\ t.queue[j].call[2] = m
                /\ t.queue[j].el \in {Element(m), DialogOf(m), BackdropEl(t.modal[m].backdrop)}
    BY <1>6, <1>7, <2>1, <2>2
  <2>4. QED
    BY <1>7, <2>3, SoundKept
<1>10. QED
  BY <1>1, <1>2, <1>4, <1>5, <1>7, <1>8, <1>9

\* The handler that a click attaches.
LEMMA RestoreFocusIs ==
  ASSUME NEW s, Sound(s), NEW m \in Dialog, NEW trigger \in Trigger, Target[trigger] = m, NEW t, t = RestoreFocus(s, trigger)
  PROVE  /\ Sound(t) /\ Alone(s, t, m) /\ SameBackdrop(s, t, m) /\ SameDisplay(s, t, m) /\ SameFocus(s, t, m)
         /\ t.modal[m].onShow = Append(s.modal[m].onShow, trigger)
         /\ t.modal[m].isShown = s.modal[m].isShown /\ t.modal[m].opener = s.modal[m].opener
         /\ t.modal[m].originalBodyPad = s.modal[m].originalBodyPad
         /\ t.page = s.page /\ t.queue = s.queue
<1>1. /\ s \in State /\ s.modal[m] \in Object /\ s.page \in Page /\ s.queue \in Seq(Wait)
      /\ s.modal[m].originalBodyPad \in Nat /\ Orderly(s.queue)
      /\ s.modal[m].backdrop \in Nat /\ s.modal[m].originalBodyPad <= s.page.shows
      /\ s.modal[m].clickers \in Nat /\ s.modal[m].clickers <= s.page.made
      /\ s.page.made \in Nat /\ s.page.shows \in Nat
      /\ s.page.bodyPad \in Nat /\ s.page.bodyPad <= s.page.shows
      /\ \A b \in s.page.backdrops : b \in Nat /\ b <= s.page.made
  BY SoundAre
<1>2. PICK onShow \in Seq(Trigger) : onShow = Append(s.modal[m].onShow, trigger)
  <2>1. s.modal[m].onShow \in Seq(Trigger)
    BY <1>1 DEF Object
  <2>2. Append(s.modal[m].onShow, trigger) \in Seq(Trigger)
    BY <2>1, AppendProperties
  <2>3. QED
    BY <2>2
<1>3. PICK o, p, q : /\ o = [s.modal[m] EXCEPT !.onShow = onShow]
                     /\ p = s.page
                     /\ q = s.queue
  OBVIOUS
<1>4. /\ t.modal = [s.modal EXCEPT ![m] = o] /\ t.page = p /\ t.queue = q
      /\ t = [modal |-> t.modal, page |-> t.page, queue |-> t.queue]
  BY <1>1, <1>2, <1>3 DEF State, RestoreFocus
<1>5. /\ o \in Object /\ o.isShown = s.modal[m].isShown /\ o.backdrop = s.modal[m].backdrop
      /\ o.originalBodyPad = s.modal[m].originalBodyPad /\ o.clickers = s.modal[m].clickers
      /\ o.displayed = s.modal[m].displayed /\ o.opener = s.modal[m].opener
      /\ o.onShow = onShow /\ o.onHidden = s.modal[m].onHidden
  BY <1>1, <1>2, <1>3 DEF Object
<1>6. /\ p \in Page /\ p.backdrops = s.page.backdrops /\ p.made = s.page.made
      /\ p.modalOpen = s.page.modalOpen /\ p.bodyPad = s.page.bodyPad
      /\ p.focusin = s.page.focusin /\ p.resize = s.page.resize /\ p.focus = s.page.focus
      /\ p.shows = s.page.shows /\ p.overlapped = s.page.overlapped
  BY <1>1, <1>2, <1>3 DEF Page
<1>7. /\ Orderly(q)
      /\ \A j \in DOMAIN q :
           \/ \E i \in DOMAIN s.queue : q[j].el = s.queue[i].el /\ q[j].call = s.queue[i].call
           \/ q[j].call[2] = m /\ q[j].el \in {Element(m), DialogOf(m), BackdropEl(o.backdrop)}
  BY <1>1, <1>3
<1>8. /\ Alone(s, t, m) /\ t.modal[m] = o /\ t.page = p /\ t.queue = q
  <2>1. q \in Seq(Wait)
    BY <1>7 DEF Orderly
  <2>2. s.modal \in [Dialog -> Object]
    BY <1>1 DEF State
  <2>3. /\ t.modal \in [Dialog -> Object] /\ t.modal[m] = o
        /\ \A n \in Dialog : n = m \/ t.modal[n] = s.modal[n]
    BY <1>4, <1>5, <2>2
  <2>4. t \in State
    BY <1>4, <1>6, <2>1, <2>3 DEF State
  <2>5. QED
    BY <1>4, <2>3, <2>4 DEF Alone
<1>9. SameBackdrop(s, t, m) /\ SameDisplay(s, t, m) /\ SameFocus(s, t, m)
  BY <1>5, <1>6, <1>8 DEF SameBackdrop, SameDisplay, SameFocus
<1>10. Sound(t)
  <2>1. /\ s.page.made <= p.made /\ s.page.shows <= p.shows
        /\ \/ o.backdrop \in {0, s.modal[m].backdrop}
           \/ o.backdrop = p.made /\ p.made = s.page.made + 1
        /\ p.bodyPad <= p.shows
        /\ o.originalBodyPad <= p.shows /\ o.clickers <= p.made
    BY <1>1, <1>2, <1>5, <1>6
  <2>2. \A b \in p.backdrops : b <= p.made
    BY <1>1, <1>2, <1>6
  <2>3. /\ Orderly(t.queue) /\ s.page.made <= t.page.made /\ s.page.shows <= t.page.shows
        /\ \/ t.modal[m].backdrop \in {0, s.modal[m].backdrop}
           \/ t.modal[m].backdrop = t.page.made /\ t.page.made = s.page.made + 1
        /\ t.page.bodyPad <= t.page.shows /\ \A b \in t.page.backdrops : b <= t.page.made
        /\ t.modal[m].originalBodyPad <= t.page.shows /\ t.modal[m].clickers <= t.page.made
        /\ \A j \in DOMAIN t.queue :
             \/ \E i \in DOMAIN s.queue : /\ t.queue[j].el = s.queue[i].el
                                         /\ t.queue[j].call = s.queue[i].call
             \/ /\ t.queue[j].call[2] = m
                /\ t.queue[j].el \in {Element(m), DialogOf(m), BackdropEl(t.modal[m].backdrop)}
    BY <1>7, <1>8, <2>1, <2>2
  <2>4. QED
    BY <1>8, <2>3, SoundKept, SMTT(30)
<1>11. QED
  BY <1>1, <1>2, <1>3, <1>5, <1>6, <1>8, <1>9, <1>10

\* The click that the browser reports for the modal may be ignored, once.
\* The mouse changes no more than these.
Pressed(s, m, pressed, ignored) ==
  [s EXCEPT !.modal[m].pressed = pressed, !.modal[m].ignoreBackdropClick = ignored]

LEMMA PressedIs ==
  ASSUME NEW s, Sound(s), NEW m \in Dialog, NEW pressed \in BOOLEAN, NEW ignored \in BOOLEAN,
         NEW t, t = Pressed(s, m, pressed, ignored)
  PROVE  /\ Sound(t) /\ Within(s, t, m) /\ SameBackdrop(s, t, m) /\ SameLock(s, t) /\ SameFocus(s, t, m)
         /\ SameDisplay(s, t, m) /\ t.page = s.page /\ t.queue = s.queue
<1>1. /\ s \in State /\ s.modal[m] \in Object /\ s.page \in Page /\ s.queue \in Seq(Wait)
      /\ s.modal[m].originalBodyPad \in Nat /\ Orderly(s.queue)
      /\ s.modal[m].backdrop \in Nat /\ s.modal[m].originalBodyPad <= s.page.shows
      /\ s.modal[m].clickers \in Nat /\ s.modal[m].clickers <= s.page.made
      /\ s.page.made \in Nat /\ s.page.shows \in Nat
      /\ s.page.bodyPad \in Nat /\ s.page.bodyPad <= s.page.shows
      /\ \A b \in s.page.backdrops : b \in Nat /\ b <= s.page.made
  BY SoundAre
<1>2. PICK o, p, q : /\ o = [s.modal[m] EXCEPT !.pressed = pressed, !.ignoreBackdropClick = ignored]
                     /\ p = s.page
                     /\ q = s.queue
  OBVIOUS
<1>3. /\ t.modal = [s.modal EXCEPT ![m] = o] /\ t.page = p /\ t.queue = q
      /\ t = [modal |-> t.modal, page |-> t.page, queue |-> t.queue]
  BY <1>1, <1>2 DEF State, Pressed
<1>4. /\ o \in Object /\ o.isShown = s.modal[m].isShown /\ o.backdrop = s.modal[m].backdrop
      /\ o.originalBodyPad = s.modal[m].originalBodyPad /\ o.clickers = s.modal[m].clickers
      /\ o.displayed = s.modal[m].displayed /\ o.opener = s.modal[m].opener
      /\ o.onShow = s.modal[m].onShow /\ o.onHidden = s.modal[m].onHidden
  BY <1>1, <1>2 DEF Object
<1>5. /\ p \in Page /\ p.backdrops = s.page.backdrops /\ p.made = s.page.made
      /\ p.modalOpen = s.page.modalOpen /\ p.bodyPad = s.page.bodyPad
      /\ p.focusin = s.page.focusin /\ p.resize = s.page.resize /\ p.focus = s.page.focus
      /\ p.shows = s.page.shows /\ p.overlapped = s.page.overlapped
  BY <1>1, <1>2 DEF Page
<1>6. /\ Orderly(q)
      /\ \A j \in DOMAIN q :
           \/ \E i \in DOMAIN s.queue : q[j].el = s.queue[i].el /\ q[j].call = s.queue[i].call
           \/ q[j].call[2] = m /\ q[j].el \in {Element(m), DialogOf(m), BackdropEl(o.backdrop)}
  BY <1>1, <1>2
<1>7. /\ Alone(s, t, m) /\ t.modal[m] = o /\ t.page = p /\ t.queue = q
  <2>1. q \in Seq(Wait)
    BY <1>6 DEF Orderly
  <2>2. s.modal \in [Dialog -> Object]
    BY <1>1 DEF State
  <2>3. /\ t.modal \in [Dialog -> Object] /\ t.modal[m] = o
        /\ \A n \in Dialog : n = m \/ t.modal[n] = s.modal[n]
    BY <1>3, <1>4, <2>2
  <2>4. t \in State
    BY <1>3, <1>5, <2>1, <2>3 DEF State
  <2>5. QED
    BY <1>3, <2>3, <2>4 DEF Alone
<1>8. Within(s, t, m) /\ SameBackdrop(s, t, m) /\ SameLock(s, t) /\ SameFocus(s, t, m) /\ SameDisplay(s, t, m)
  BY <1>4, <1>5, <1>7 DEF SameBackdrop, SameDisplay, SameFocus, SameLock, Within
<1>9. Sound(t)
  <2>1. /\ s.page.made <= p.made /\ s.page.shows <= p.shows
        /\ \/ o.backdrop \in {0, s.modal[m].backdrop}
           \/ o.backdrop = p.made /\ p.made = s.page.made + 1
        /\ p.bodyPad <= p.shows
        /\ o.originalBodyPad <= p.shows /\ o.clickers <= p.made
    BY <1>1, <1>4, <1>5
  <2>2. \A b \in p.backdrops : b <= p.made
    BY <1>1, <1>5
  <2>3. /\ Orderly(t.queue) /\ s.page.made <= t.page.made /\ s.page.shows <= t.page.shows
        /\ \/ t.modal[m].backdrop \in {0, s.modal[m].backdrop}
           \/ t.modal[m].backdrop = t.page.made /\ t.page.made = s.page.made + 1
        /\ t.page.bodyPad <= t.page.shows /\ \A b \in t.page.backdrops : b <= t.page.made
        /\ t.modal[m].originalBodyPad <= t.page.shows /\ t.modal[m].clickers <= t.page.made
        /\ \A j \in DOMAIN t.queue :
             \/ \E i \in DOMAIN s.queue : /\ t.queue[j].el = s.queue[i].el
                                         /\ t.queue[j].call = s.queue[i].call
             \/ /\ t.queue[j].call[2] = m
                /\ t.queue[j].el \in {Element(m), DialogOf(m), BackdropEl(t.modal[m].backdrop)}
    BY <1>6, <1>7, <2>1, <2>2
  <2>4. QED
    BY <1>7, <2>3, SoundKept
<1>10. QED
  BY <1>1, <1>2, <1>4, <1>5, <1>7, <1>8, <1>9

-----------------------------------------------------------------------------
(* What the end of a transition does *)

\* hidden gives the focus to the restorer that waited last.
FocusKept(s, t, m) ==
  \/ SameFocus(s, t, m)
  \/ /\ t.modal[m].onHidden = <<>>
     /\ t.page.focus = IF s.modal[m].onHidden = <<>> THEN s.page.focus
                       ELSE Last(s.modal[m].onHidden)

\* The page is not locked again, and what will unlock it is not lost.
Unlocks(s, t) ==
  /\ t.page.modalOpen => s.page.modalOpen
  /\ t.page.modalOpen /\ Pending(s.queue) => Pending(t.queue)

Settles(s, t, m) == Sound(t) /\ Within(s, t, m) /\ FocusKept(s, t, m) /\ Unlocks(s, t)

\* What is spent on backdrops, and what may still be.
Cost(s) == s.page.made + Cardinality(Hiding(s.queue))

LEMMA CostIs ==
  ASSUME NEW s, Sound(s)
  PROVE  Cost(s) \in Nat
<1>1. s.page.made \in Nat /\ s.queue \in Seq(Wait)
  BY DEF Sound, State, Page
<1>2. Cardinality(Hiding(s.queue)) \in Nat
  BY <1>1, HidingFinite
<1>3. QED
  BY <1>1, <1>2 DEF Cost

LEMMA SettlesOn ==
  ASSUME NEW s, NEW m \in Dialog, NEW t, NEW u, Settles(s, t, m), Settles(t, u, m)
  PROVE  Settles(s, u, m)
<1>1. Sound(u)
  BY DEF Settles
<1>2. Within(s, u, m)
  BY DEF Settles, Within, Alone
<1>3. FocusKept(s, t, m) /\ FocusKept(t, u, m)
  BY DEF Settles
<1>4. FocusKept(s, u, m)
  BY <1>3 DEF FocusKept, SameFocus
<1>5. Unlocks(s, u)
  BY DEF Settles, Unlocks
<1>6. QED
  BY <1>1, <1>2, <1>4, <1>5 DEF Settles

LEMMA AwaitSettles ==
  ASSUME NEW s, Sound(s), NEW m \in Dialog, NEW el, NEW call, NEW d \in 0..2,
         el \in El, call \in Call, call[2] = m, Fit(Waiting(el, call, d)),
         el \in {Element(m), DialogOf(m), BackdropEl(s.modal[m].backdrop)},
         NEW t, t = Awaiting(s, el, call, d)
  PROVE  /\ Settles(s, t, m)
         /\ call[1] # "hideModal" => Cost(t) <= Cost(s)
         /\ Cost(t) <= Cost(s) + 1
         /\ call[1] \in {"hideModal", "remove"} => Pending(t.queue)
         /\ Pending(s.queue) => Pending(t.queue)
<1>1. /\ Sound(t) /\ Within(s, t, m) /\ SameBackdrop(s, t, m) /\ SameLock(s, t)
      /\ SameFocus(s, t, m) /\ t.queue = Await(s.queue, el, call, d)
  BY AwaitingIs
<1>2. PICK q, r, w : q = s.queue /\ r = t.queue /\ w = Waiting(el, call, d)
  OBVIOUS
<1>3. Orderly(q) /\ Fit(w) /\ r = Await(q, el, call, d)
  BY <1>1, <1>2 DEF Sound
<1>4. /\ \A i \in DOMAIN q : \E j \in DOMAIN r : r[j] = q[i]
      /\ \E j \in DOMAIN r : r[j].call = call
  BY <1>2, <1>3, AwaitFine
<1>5. /\ Cardinality(Hiding(r)) <= Cardinality(Hiding(q)) + 1
      /\ call[1] # "hideModal" => Cardinality(Hiding(r)) <= Cardinality(Hiding(q))
  BY <1>2, <1>3, AwaitHides
<1>6. Pending(q) => Pending(r)
  BY <1>4 DEF Pending
<1>7. call[1] \in {"hideModal", "remove"} => Pending(r)
  BY <1>4 DEF Pending, Lifts
<1>8. Settles(s, t, m)
  BY <1>1, <1>2, <1>6 DEF Settles, FocusKept, Unlocks, SameLock
<1>9. Cardinality(Hiding(r)) \in Nat /\ Cardinality(Hiding(q)) \in Nat /\ s.page.made \in Nat
      /\ t.page.made = s.page.made
  <2>1. q \in Seq(Wait) /\ r \in Seq(Wait) /\ s.page.made \in Nat
    BY <1>1, <1>2 DEF Sound, State, Page
  <2>2. QED
    BY <1>1, <2>1, HidingFinite DEF SameBackdrop
<1>10. (call[1] # "hideModal" => Cost(t) <= Cost(s)) /\ Cost(t) <= Cost(s) + 1
  BY <1>2, <1>5, <1>9 DEF Cost
<1>11. QED
  BY <1>2, <1>6, <1>7, <1>8, <1>10

LEMMA HiddenSettles ==
  ASSUME NEW s, Sound(s), NEW m \in Dialog, NEW t, t = Hidden(s, m)
  PROVE  Settles(s, t, m) /\ Cost(t) <= Cost(s) /\ ~t.page.modalOpen
<1>1. /\ Sound(t) /\ Within(s, t, m) /\ SameBackdrop(s, t, m)
      /\ t.queue = s.queue /\ ~t.page.modalOpen
      /\ t.modal[m].onHidden = <<>>
      /\ t.page.focus = IF s.modal[m].onHidden = <<>> THEN s.page.focus
                        ELSE Last(s.modal[m].onHidden)
  BY HiddenIs
<1>2. Settles(s, t, m)
  BY <1>1 DEF Settles, FocusKept, Unlocks
<1>3. Cost(s) \in Nat /\ Cost(t) = Cost(s)
  BY <1>1, CostIs DEF Cost, SameBackdrop
<1>4. QED
  BY <1>1, <1>2, <1>3

\* The backdrop is removed, then the modal is hidden.
Lifted(s, m) == Hidden(RemoveBackdrop(s, m), m)

LEMMA LiftedSettles ==
  ASSUME NEW s, Sound(s), NEW m \in Dialog, NEW t, t = Lifted(s, m)
  PROVE  Settles(s, t, m) /\ Cost(t) <= Cost(s) /\ ~t.page.modalOpen
<1>1. PICK u : u = RemoveBackdrop(s, m)
  OBVIOUS
<1>2. /\ Sound(u) /\ Within(s, u, m) /\ SameFocus(s, u, m) /\ u.page.made = s.page.made
      /\ u.queue = WithoutElement(s.queue, BackdropEl(s.modal[m].backdrop))
  BY <1>1, RemovedIs
<1>3. t = Hidden(u, m)
  BY <1>1 DEF Lifted
<1>4. Settles(u, t, m) /\ Cost(t) <= Cost(u) /\ ~t.page.modalOpen
  BY <1>2, <1>3, HiddenSettles
<1>5. Settles(s, t, m)
  <2>1. Within(s, t, m)
    BY <1>2, <1>4 DEF Settles, Within, Alone
  <2>2. FocusKept(s, t, m)
    BY <1>2, <1>4 DEF Settles, FocusKept, SameFocus
  <2>3. QED
    BY <1>4, <2>1, <2>2 DEF Settles, Unlocks
<1>6. Cost(u) <= Cost(s) /\ Cost(u) \in Nat /\ Cost(s) \in Nat /\ Cost(t) \in Nat
  <2>1. PICK q, r, el : q = s.queue /\ r = u.queue /\ el = BackdropEl(s.modal[m].backdrop)
    OBVIOUS
  <2>2. Orderly(q) /\ r = WithoutElement(q, el) /\ s.page.made \in Nat
    BY <1>2, <2>1 DEF Sound, State, Page
  <2>3. Cardinality(Hiding(r)) + Cardinality(HidingOn(q, el)) <= Cardinality(Hiding(q))
    BY <2>2, WithoutHides
  <2>4. /\ Cardinality(Hiding(r)) \in Nat /\ Cardinality(Hiding(q)) \in Nat
        /\ Cardinality(HidingOn(q, el)) \in Nat
    <3>1. q \in Seq(Wait) /\ r \in Seq(Wait)
      BY <1>2, <2>1 DEF Sound, State
    <3>2. HidingOn(q, el) \in SUBSET (DOMAIN q)
      BY DEF HidingOn, Hiding
    <3>3. QED
      BY <3>1, <3>2, HidingFinite
  <2>5. Cost(u) <= Cost(s)
    BY <1>2, <2>1, <2>2, <2>3, <2>4 DEF Cost
  <2>6. QED
    BY <1>2, <1>4, <2>5, CostIs DEF Settles
<1>7. QED
  BY <1>4, <1>5, <1>6

LEMMA AppearSettles ==
  ASSUME NEW s, Sound(s), NEW m \in Dialog, NEW t, t = Appear(s, m)
  PROVE  Settles(s, t, m) /\ Cost(t) <= Cost(s)
<1>1. /\ Sound(t) /\ Within(s, t, m) /\ SameBackdrop(s, t, m) /\ SameLock(s, t) /\ SameFocus(s, t, m)
      /\ t.queue = IF m \in Fading THEN Await(s.queue, DialogOf(m), <<"shown", m>>, ModalTime)
                   ELSE s.queue
  BY AppearIs
<1>2. CASE m \notin Fading
  <2>1. t.queue = s.queue
    BY <1>1, <1>2
  <2>2. Cost(t) = Cost(s) /\ Cost(s) \in Nat
    BY <1>1, <2>1, CostIs DEF Cost, SameBackdrop
  <2>3. QED
    BY <1>1, <2>1, <2>2 DEF Settles, FocusKept, Unlocks, SameLock
<1>3. CASE m \in Fading
  <2>1. PICK q, r, el, call, d, w :
          /\ q = s.queue /\ r = t.queue /\ el = DialogOf(m) /\ call = <<"shown", m>> /\ d = ModalTime
          /\ w = Waiting(el, call, d)
    OBVIOUS
  <2>2. w.el = el /\ w.call = call /\ call[1] = "shown" /\ call[2] = m
    BY <2>1 DEF Waiting
  <2>3. el \in El /\ call \in Call /\ d \in 0..2 /\ Fit(w)
    BY <2>1, <2>2, ElsAre DEF Call, Name, ModalTime, Fit
  <2>4. Orderly(q) /\ r = Await(q, el, call, d)
    BY <1>1, <1>3, <2>1 DEF Sound
  <2>5. \A i \in DOMAIN q : \E j \in DOMAIN r : r[j] = q[i]
    BY <2>1, <2>3, <2>4, AwaitFine
  <2>6. call[1] # "hideModal" => Cardinality(Hiding(r)) <= Cardinality(Hiding(q))
    BY <2>1, <2>3, <2>4, AwaitHides
  <2>7. Pending(q) => Pending(r)
    BY <2>5 DEF Pending
  <2>8. Settles(s, t, m)
    BY <1>1, <2>1, <2>7 DEF Settles, FocusKept, Unlocks, SameLock
  <2>9. Cardinality(Hiding(r)) \in Nat /\ Cardinality(Hiding(q)) \in Nat /\ s.page.made \in Nat
    <3>1. q \in Seq(Wait) /\ r \in Seq(Wait) /\ s.page.made \in Nat
      BY <1>1, <2>1 DEF Sound, State, Page
    <3>2. QED
      BY <3>1, HidingFinite
  <2>10. Cost(t) <= Cost(s)
    BY <1>1, <2>1, <2>2, <2>6, <2>9 DEF Cost, SameBackdrop
  <2>11. QED
    BY <2>8, <2>10
<1>4. QED
  BY <1>2, <1>3

LEMMA MakingSettles ==
  ASSUME NEW s, Sound(s), NEW m \in Dialog, NEW t, t = Making(s, m)
  PROVE  Settles(s, t, m) /\ Cost(t) = Cost(s) + 1
<1>1. /\ Sound(t) /\ Within(s, t, m) /\ SameLock(s, t) /\ SameFocus(s, t, m)
      /\ t.page.made = s.page.made + 1 /\ t.queue = s.queue
  BY MakingIs
<1>2. s.page.made \in Nat /\ Cardinality(Hiding(s.queue)) \in Nat
  <2>1. s.page.made \in Nat /\ s.queue \in Seq(Wait)
    BY DEF Sound, State, Page
  <2>2. QED
    BY <2>1, HidingFinite
<1>3. Cost(t) = Cost(s) + 1
  BY <1>1, <1>2 DEF Cost
<1>4. QED
  BY <1>1, <1>3 DEF Settles, FocusKept, Unlocks, SameLock

LEMMA CallBackSettles ==
  ASSUME NEW s, Sound(s), NEW m \in Dialog, NEW name \in {"appear", "hidden"},
         NEW t, t = CallBack(s, m, name)
  PROVE  /\ Settles(s, t, m) /\ Cost(t) <= Cost(s)
         /\ name = "hidden" => ~t.page.modalOpen
<1>1. CASE name = "appear"
  <2>1. t = Appear(s, m)
    BY <1>1 DEF CallBack
  <2>2. QED
    BY <1>1, <2>1, AppearSettles
<1>2. CASE name = "hidden"
  <2>1. t = Hidden(s, m)
    BY <1>2 DEF CallBack
  <2>2. QED
    BY <2>1, HiddenSettles
<1>3. QED
  BY <1>1, <1>2

\* What waits on a backdrop, or on a modal, is fit to wait there.
LEMMA BackdropWaits ==
  ASSUME NEW m \in Dialog, NEW b \in Nat \ {0}, NEW name \in {"appear", "hidden", "remove"},
         NEW el, el = BackdropEl(b), NEW call, call = <<name, m>>
  PROVE  /\ el \in El /\ call \in Call /\ call[1] = name /\ call[2] = m /\ BackdropTime \in 0..2
         /\ Fit(Waiting(el, call, BackdropTime))
<1>1. el \in El /\ call \in Call /\ call[1] = name /\ call[2] = m /\ BackdropTime \in 0..2
  BY ElsAre DEF Call, Name, BackdropTime
<1>2. PICK w : w = Waiting(el, call, BackdropTime)
  OBVIOUS
<1>3. w.el = el /\ w.call = call /\ w.left = BackdropTime
  BY <1>2 DEF Waiting
<1>4. el \in {"backdrop"} \X (Nat \ {0})
  BY DEF BackdropEl
<1>5. Fit(w)
  BY <1>1, <1>3, <1>4 DEF Fit, BackdropTime
<1>6. QED
  BY <1>1, <1>2, <1>5

LEMMA ModalWaits ==
  ASSUME NEW m \in Dialog, NEW d \in 0..2, NEW el, el = Element(m), NEW call, call = <<"hideModal", m>>
  PROVE  /\ el \in El /\ call \in Call /\ call[1] = "hideModal" /\ call[2] = m
         /\ Fit(Waiting(el, call, d))
<1>1. el \in El /\ call \in Call /\ call[1] = "hideModal" /\ call[2] = m
  BY ElsAre DEF Call, Name
<1>2. PICK w : w = Waiting(el, call, d)
  OBVIOUS
<1>3. w.el = el /\ w.call = call
  BY <1>2 DEF Waiting
<1>4. Fit(w)
  BY <1>1, <1>3 DEF Fit
<1>5. QED
  BY <1>1, <1>2, <1>4

\* The ways through backdrop.
LEMMA BackdropIs ==
  ASSUME NEW s, NEW m, NEW name, NEW t, t = Backdrop(s, m, name)
  PROVE  /\ s.modal[m].isShown /\ m \in WithBackdrop /\ m \in Fading =>
              t = Awaiting(Making(s, m), BackdropEl(s.page.made + 1), <<name, m>>, BackdropTime)
         /\ s.modal[m].isShown /\ m \in WithBackdrop /\ m \notin Fading =>
              t = CallBack(Making(s, m), m, name)
         /\ ~s.modal[m].isShown /\ s.modal[m].backdrop # 0 /\ m \in Fading =>
              t = Awaiting(s, BackdropEl(s.modal[m].backdrop), <<"remove", m>>, BackdropTime)
         /\ ~s.modal[m].isShown /\ s.modal[m].backdrop # 0 /\ m \notin Fading =>
              t = CallBack(RemoveBackdrop(s, m), m, name)
         /\ ~(s.modal[m].isShown /\ m \in WithBackdrop)
            /\ ~(~s.modal[m].isShown /\ s.modal[m].backdrop # 0) =>
              t = CallBack(s, m, name)
BY DEF Backdrop, Awaiting, Making

LEMMA BackdropSettles ==
  ASSUME NEW s, Sound(s), NEW m \in Dialog, NEW name \in {"appear", "hidden"},
         name = "appear" => s.modal[m].isShown,
         NEW t, t = Backdrop(s, m, name)
  PROVE  /\ Settles(s, t, m) /\ Cost(t) <= Cost(s) + 1
         /\ ~s.modal[m].isShown => Cost(t) <= Cost(s)
         /\ name = "hidden" /\ ~s.modal[m].isShown => ~t.page.modalOpen \/ Pending(t.queue)
<1>1. Cost(s) \in Nat /\ s.page.made \in Nat /\ s.modal[m].backdrop \in Nat
  BY CostIs, SoundAre
<1>2. CASE s.modal[m].isShown /\ m \in WithBackdrop
  <2>1. PICK u : u = Making(s, m)
    OBVIOUS
  <2>2. /\ Sound(u) /\ u.modal[m].backdrop = s.page.made + 1
        /\ Settles(s, u, m) /\ Cost(u) = Cost(s) + 1
    BY <2>1, MakingIs, MakingSettles
  <2>3. Settles(u, t, m) /\ Cost(t) <= Cost(u)
    <3>1. CASE m \in Fading
      <4>1. PICK el, call : el = BackdropEl(s.page.made + 1) /\ call = <<name, m>>
        OBVIOUS
      <4>2. t = Awaiting(u, el, call, BackdropTime)
        BY <1>2, <2>1, <3>1, <4>1, BackdropIs
      <4>3. s.page.made + 1 \in Nat \ {0}
        BY <1>1
      <4>4. /\ el \in El /\ call \in Call /\ call[1] = name /\ call[2] = m /\ BackdropTime \in 0..2
            /\ Fit(Waiting(el, call, BackdropTime))
        BY <4>1, <4>3, BackdropWaits
      <4>5. el = BackdropEl(u.modal[m].backdrop)
        BY <2>2, <4>1
      <4>6. QED
        BY <2>2, <4>2, <4>4, <4>5, AwaitSettles
    <3>2. CASE m \notin Fading
      <4>1. t = CallBack(u, m, name)
        BY <1>2, <2>1, <3>2, BackdropIs
      <4>2. QED
        BY <2>2, <4>1, CallBackSettles
    <3>3. QED
      BY <3>1, <3>2
  <2>4. Settles(s, t, m)
    BY <2>2, <2>3, SettlesOn
  <2>5. Cost(t) \in Nat
    BY <2>3, CostIs DEF Settles
  <2>6. Cost(t) <= Cost(s) + 1
    BY <1>1, <2>2, <2>3, <2>5
  <2>7. QED
    BY <1>2, <2>4, <2>6
<1>3. CASE ~s.modal[m].isShown /\ s.modal[m].backdrop # 0 /\ m \in Fading
  <2>1. PICK el, call, b : b = s.modal[m].backdrop /\ el = BackdropEl(b) /\ call = <<"remove", m>>
    OBVIOUS
  <2>2. t = Awaiting(s, el, call, BackdropTime)
    BY <1>3, <2>1, BackdropIs
  <2>3. b \in Nat \ {0}
    BY <1>1, <1>3, <2>1
  <2>4. /\ el \in El /\ call \in Call /\ call[1] = "remove" /\ call[2] = m /\ BackdropTime \in 0..2
        /\ Fit(Waiting(el, call, BackdropTime))
    BY <2>1, <2>3, BackdropWaits
  <2>5. el = BackdropEl(s.modal[m].backdrop)
    BY <2>1
  <2>6. /\ Settles(s, t, m) /\ Cost(t) <= Cost(s) /\ Pending(t.queue)
    BY <2>2, <2>4, <2>5, AwaitSettles
  <2>7. Cost(t) \in Nat
    BY <2>6, CostIs DEF Settles
  <2>8. QED
    BY <1>1, <2>6, <2>7
<1>4. CASE ~s.modal[m].isShown /\ s.modal[m].backdrop # 0 /\ m \notin Fading
  <2>1. name = "hidden"
    BY <1>4
  <2>2. t = CallBack(RemoveBackdrop(s, m), m, name)
    BY <1>4, BackdropIs
  <2>3. t = Lifted(s, m)
    BY <2>1, <2>2 DEF CallBack, Lifted
  <2>4. Settles(s, t, m) /\ Cost(t) <= Cost(s) /\ ~t.page.modalOpen
    BY <2>3, LiftedSettles
  <2>5. Cost(t) \in Nat
    BY <2>4, CostIs DEF Settles
  <2>6. QED
    BY <1>1, <2>4, <2>5
<1>5. CASE /\ ~(s.modal[m].isShown /\ m \in WithBackdrop)
           /\ ~(~s.modal[m].isShown /\ s.modal[m].backdrop # 0)
  <2>1. t = CallBack(s, m, name)
    BY <1>5 DEF Backdrop
  <2>2. Settles(s, t, m) /\ Cost(t) <= Cost(s) /\ (name = "hidden" => ~t.page.modalOpen)
    BY <2>1, CallBackSettles
  <2>3. Cost(t) \in Nat
    BY <2>2, CostIs DEF Settles
  <2>4. QED
    BY <1>1, <2>2, <2>3
<1>6. QED
  BY <1>2, <1>3, <1>4, <1>5

LEMMA HideModalSettles ==
  ASSUME NEW s, Sound(s), NEW m \in Dialog, NEW t, t = HideModal(s, m)
  PROVE  /\ Settles(s, t, m) /\ Cost(t) <= Cost(s) + 1
         /\ ~s.modal[m].isShown => Cost(t) <= Cost(s)
         /\ ~s.modal[m].isShown => ~t.page.modalOpen \/ Pending(t.queue)
<1>1. PICK u : u = Undisplayed(s, m)
  OBVIOUS
<1>2. /\ Sound(u) /\ Within(s, u, m) /\ SameBackdrop(s, u, m) /\ SameLock(s, u) /\ SameFocus(s, u, m)
      /\ u.queue = s.queue
  BY <1>1, UndisplayedIs
<1>3. Settles(s, u, m) /\ Cost(u) = Cost(s) /\ u.modal[m].isShown = s.modal[m].isShown
  BY <1>2 DEF Settles, FocusKept, Unlocks, SameLock, Cost, SameBackdrop, Within
<1>4. t = Backdrop(u, m, "hidden")
  BY <1>1 DEF HideModal, Undisplayed
<1>5. /\ Settles(u, t, m) /\ Cost(t) <= Cost(u) + 1
      /\ ~u.modal[m].isShown => Cost(t) <= Cost(u)
      /\ "hidden" = "hidden" /\ ~u.modal[m].isShown => ~t.page.modalOpen \/ Pending(t.queue)
  BY <1>2, <1>4, BackdropSettles
<1>6. Settles(s, t, m)
  BY <1>3, <1>5, SettlesOn
<1>7. QED
  BY <1>3, <1>5, <1>6

LEMMA RunSettles ==
  ASSUME NEW s, Sound(s), NEW w \in Wait, NEW m, m = w.call[2], NEW t, t = Run(s, w)
  PROVE  /\ m \in Dialog /\ Settles(s, t, m)
         /\ Cost(t) <= Cost(s) + 1
         /\ w.call[1] # "hideModal" => Cost(t) <= Cost(s)
         /\ Lifts(w) /\ ~s.modal[m].isShown => ~t.page.modalOpen \/ Pending(t.queue)
<1>1. w.call \in Name \X Dialog
  BY DEF Wait, Waits, Call
<1>2. m \in Dialog /\ w.call[1] \in Name
  BY <1>1
<1>3. Cost(s) \in Nat
  BY CostIs
<1>4. CASE w.call[1] = "hideModal"
  <2>1. t = HideModal(s, m)
    BY <1>4 DEF Run
  <2>2. /\ Settles(s, t, m) /\ Cost(t) <= Cost(s) + 1
        /\ ~s.modal[m].isShown => ~t.page.modalOpen \/ Pending(t.queue)
    BY <1>2, <2>1, HideModalSettles
  <2>3. QED
    BY <1>2, <1>4, <2>2
<1>5. CASE w.call[1] = "remove"
  <2>1. t = Lifted(s, m)
    BY <1>5 DEF Run, Lifted
  <2>2. Settles(s, t, m) /\ Cost(t) <= Cost(s) /\ ~t.page.modalOpen
    BY <1>2, <2>1, LiftedSettles
  <2>3. Cost(t) \in Nat
    BY <2>2, CostIs DEF Settles
  <2>4. QED
    BY <1>2, <1>3, <2>2, <2>3
<1>6. CASE w.call[1] = "shown"
  <2>1. t = s
    BY <1>6 DEF Run
  <2>2. Settles(s, t, m)
    BY <1>2, <2>1 DEF Settles, Within, Alone, FocusKept, SameFocus, Unlocks, Sound
  <2>3. QED
    BY <1>2, <1>3, <1>6, <2>1, <2>2 DEF Lifts
<1>7. CASE w.call[1] \in {"appear", "hidden"}
  <2>1. PICK name \in {"appear", "hidden"} : name = w.call[1]
    BY <1>7
  <2>2. t = CallBack(s, m, name)
    BY <1>7, <2>1 DEF Run
  <2>3. Settles(s, t, m) /\ Cost(t) <= Cost(s)
    BY <1>2, <2>2, CallBackSettles
  <2>4. Cost(t) \in Nat
    BY <2>3, CostIs DEF Settles
  <2>5. QED
    BY <1>2, <1>3, <1>7, <2>3, <2>4 DEF Lifts
<1>8. QED
  BY <1>2, <1>4, <1>5, <1>6, <1>7 DEF Name

\* A state that differs in what waits, and where nothing waits that did not.
LEMMA SoundQueue ==
  ASSUME NEW s, Sound(s), NEW t, t = [modal |-> s.modal, page |-> s.page, queue |-> t.queue],
         Orderly(t.queue),
         \A j \in DOMAIN t.queue : \E i \in DOMAIN s.queue :
           t.queue[j].el = s.queue[i].el /\ t.queue[j].call = s.queue[i].call
  PROVE  Sound(t) /\ t.modal = s.modal /\ t.page = s.page
<1>1. t.modal = s.modal /\ t.page = s.page
  OBVIOUS
<1>2. t.queue \in Seq(Wait) /\ s.modal \in [Dialog -> Object] /\ s.page \in Page
  BY DEF Orderly, Sound, State
<1>3. t \in State
  BY <1>2 DEF State
<1>4. /\ \A m \in Dialog : s.modal[m].backdrop <= s.page.made
      /\ \A m, n \in Dialog : s.modal[m].backdrop = s.modal[n].backdrop => m = n \/ s.modal[m].backdrop = 0
      /\ \A i \in DOMAIN s.queue : s.queue[i].el[1] = "backdrop" => s.queue[i].el[2] <= s.page.made
      /\ \A i \in DOMAIN s.queue : \A m \in Dialog :
           s.queue[i].el = BackdropEl(s.modal[m].backdrop) => s.queue[i].call[2] = m
      /\ \A i, j \in DOMAIN s.queue :
           s.queue[i].el = s.queue[j].el => s.queue[i].call[2] = s.queue[j].call[2]
  BY DEF Sound, Owned
<1>5. \A j \in DOMAIN t.queue : /\ t.queue[j].el[1] = "backdrop" => t.queue[j].el[2] <= t.page.made
                                /\ \A m \in Dialog : t.queue[j].el = BackdropEl(t.modal[m].backdrop)
                                                       => t.queue[j].call[2] = m
  BY <1>1, <1>4
<1>6. ASSUME NEW j \in DOMAIN t.queue, NEW l \in DOMAIN t.queue, t.queue[j].el = t.queue[l].el
      PROVE  t.queue[j].call[2] = t.queue[l].call[2]
  <2>1. PICK i \in DOMAIN s.queue : t.queue[j].el = s.queue[i].el /\ t.queue[j].call = s.queue[i].call
    OBVIOUS
  <2>2. PICK k \in DOMAIN s.queue : t.queue[l].el = s.queue[k].el /\ t.queue[l].call = s.queue[k].call
    OBVIOUS
  <2>3. s.queue[i].el = s.queue[k].el
    BY <1>6, <2>1, <2>2
  <2>4. s.queue[i].call[2] = s.queue[k].call[2]
    BY <1>4, <2>3
  <2>5. QED
    BY <2>1, <2>2, <2>4
<1>7. Owned(t)
  BY <1>1, <1>4, <1>5, <1>6 DEF Owned
<1>8. Bounded(t)
  BY <1>1 DEF Sound, Bounded
<1>9. QED
  BY <1>1, <1>3, <1>7, <1>8 DEF Sound

\* A dispatch takes all that waits on el out of the queue.
Begun(s, el) == [s EXCEPT !.queue = WithoutElement(@, el)]

LEMMA BegunIs ==
  ASSUME NEW s, Sound(s), NEW el, NEW t, t = Begun(s, el)
  PROVE  /\ Sound(t) /\ t.modal = s.modal /\ t.page = s.page
         /\ t.queue = WithoutElement(s.queue, el)
<1>1. s = [modal |-> s.modal, page |-> s.page, queue |-> s.queue] /\ Orderly(s.queue)
  BY StateIs DEF Sound
<1>2. /\ t.queue = WithoutElement(s.queue, el)
      /\ t = [modal |-> s.modal, page |-> s.page, queue |-> t.queue]
  BY <1>1 DEF Begun
<1>3. PICK q, r : q = s.queue /\ r = t.queue
  OBVIOUS
<1>4. Orderly(q) /\ r = WithoutElement(q, el)
  BY <1>1, <1>2, <1>3
<1>5. Orderly(r) /\ \A j \in DOMAIN r : \E i \in DOMAIN q : r[j] = q[i]
  BY <1>4, WithoutFine
<1>6. /\ Orderly(t.queue)
      /\ \A j \in DOMAIN t.queue : \E i \in DOMAIN s.queue :
           t.queue[j].el = s.queue[i].el /\ t.queue[j].call = s.queue[i].call
  BY <1>3, <1>5
<1>7. Sound(t) /\ t.modal = s.modal /\ t.page = s.page
  BY <1>2, <1>6, SoundQueue
<1>8. QED
  BY <1>2, <1>7

\* f holds the states the dispatch on el goes through, from s to t.
Ran(s, el, f, t) ==
  /\ f[0] = Begun(s, el)
  /\ t = f[Len(s.queue)]
  /\ \A i \in 0..Len(s.queue) : Sound(f[i])
  /\ \A i \in 1..Len(s.queue) :
       f[i] = IF s.queue[i].el = el THEN Run(f[i - 1], s.queue[i]) ELSE f[i - 1]

LEMMA DispatchRuns ==
  ASSUME NEW s, Sound(s), NEW el, NEW t, t = Dispatch(s, el, Run)
  PROVE  \E f : Ran(s, el, f, t)
<1> DEFINE n == Len(s.queue)
           base == Begun(s, el)
           S == {x \in State : Sound(x)}
           loop(f) == [i \in 0..n |->
             IF i = 0 THEN base
             ELSE IF s.queue[i].el = el THEN Run(f[i - 1], s.queue[i]) ELSE f[i - 1]]
<1>1. s \in State /\ s.queue \in Seq(Wait) /\ n \in Nat /\ \A i \in 1..n : s.queue[i] \in Wait
  BY DEF Sound, State
<1>2. base \in S
  <2>1. Sound(base)
    BY BegunIs
  <2>2. QED
    BY <2>1 DEF Sound
<1>3. \A x \in S, w \in Wait : Run(x, w) \in S
  <2>1. ASSUME NEW x \in S, NEW w \in Wait
        PROVE  Run(x, w) \in S
    <3>1. PICK y : y = Run(x, w)
      OBVIOUS
    <3>2. Sound(x)
      OBVIOUS
    <3>3. Sound(y)
      BY <3>1, <3>2, RunSettles DEF Settles
    <3>4. QED
      BY <3>1, <3>3 DEF Sound
  <2>2. QED
    BY <2>1
<1>4. \A x \in S : Sound(x)
  OBVIOUS
<1>5. t = (CHOOSE f : f = loop(f))[n]
  BY DEF Dispatch, Begun
<1> HIDE DEF S, base
<1>6. PICK step \in [(1..n) \X S -> S] :
        \A i \in 1..n, x \in S :
          step[<<i, x>>] = IF s.queue[i].el = el THEN Run(x, s.queue[i]) ELSE x
  <2> DEFINE g == [y \in (1..n) \X S |->
                    IF s.queue[y[1]].el = el THEN Run(y[2], s.queue[y[1]]) ELSE y[2]]
  <2>1. g \in [(1..n) \X S -> S]
    BY <1>1, <1>3
  <2>2. \A i \in 1..n, x \in S :
          g[<<i, x>>] = IF s.queue[i].el = el THEN Run(x, s.queue[i]) ELSE x
    OBVIOUS
  <2>3. QED
    BY <2>1, <2>2
<1>7. PICK f : LoopRun(f, n, S, base, step)
  BY <1>1, <1>2, <1>6, LoopRuns, Zenon
<1>8. /\ f \in [0..n -> S] /\ f[0] = base
      /\ \A i \in 1..n : f[i] = step[<<i, f[i - 1]>>]
  BY <1>7 DEF LoopRun
<1>9. f = loop(f)
  <2>1. ASSUME NEW i \in 0..n
        PROVE  f[i] = IF i = 0 THEN base
                      ELSE IF s.queue[i].el = el THEN Run(f[i - 1], s.queue[i]) ELSE f[i - 1]
    <3>1. CASE i = 0
      BY <1>8, <3>1
    <3>2. CASE i # 0
      <4>1. i \in 1..n /\ i - 1 \in 0..n
        BY <1>1, <3>2
      <4>2. f[i - 1] \in S
        BY <1>8, <4>1
      <4>3. QED
        BY <1>6, <1>8, <3>2, <4>1, <4>2
    <3>3. QED
      BY <3>1, <3>2
  <2>2. QED
    BY <1>8, <2>1
<1>10. PICK ran : ran = loop(ran) /\ t = ran[n]
  <2>1. PICK ran : ran = CHOOSE h : h = loop(h)
    OBVIOUS
  <2>2. ran = loop(ran)
    BY <1>9, <2>1
  <2>3. t = ran[n]
    BY <1>5, <2>1
  <2>4. QED
    BY <2>2, <2>3
<1>11. /\ ran[0] = base
       /\ \A i \in 1..n :
            ran[i] = IF s.queue[i].el = el THEN Run(ran[i - 1], s.queue[i]) ELSE ran[i - 1]
  <2>1. loop(ran)[0] = base
    BY <1>1
  <2>2. ASSUME NEW i \in 1..n
        PROVE  loop(ran)[i] = IF s.queue[i].el = el THEN Run(ran[i - 1], s.queue[i]) ELSE ran[i - 1]
    <3>1. i \in 0..n /\ i # 0
      BY <1>1
    <3>2. QED
      BY <3>1
  <2> HIDE DEF loop
  <2>3. QED
    BY <1>10, <2>1, <2>2
<1> HIDE DEF loop
<1> DEFINE K == {k \in 0..n : ran[k] \in S}
<1>12. 0 \in K
  BY <1>1, <1>2, <1>11
<1>13. ASSUME NEW k \in 0..(n - 1), k \in K
       PROVE  k + 1 \in K
  <2>1. k + 1 \in 1..n /\ k + 1 \in 0..n /\ (k + 1) - 1 = k /\ ran[k] \in S
    BY <1>1, <1>13
  <2>2. ran[k + 1] = IF s.queue[k + 1].el = el THEN Run(ran[k], s.queue[k + 1]) ELSE ran[k]
    BY <1>11, <2>1
  <2>3. QED
    BY <1>1, <1>3, <2>1, <2>2
<1> HIDE DEF K
<1>14. 0..n \subseteq K
  BY <1>1, <1>12, <1>13, UpTo
<1>15. \A i \in 0..n : Sound(ran[i])
  BY <1>4, <1>14 DEF K
<1>16. Ran(s, el, ran, t)
  BY <1>10, <1>11, <1>15 DEF Ran, base
<1>17. QED
  BY <1>16

LEMMA DispatchSettles ==
  ASSUME NEW s, Sound(s), NEW p \in DOMAIN s.queue, NEW el, el = s.queue[p].el,
         NEW m, m = s.queue[p].call[2], NEW t, t = Dispatch(s, el, Run)
  PROVE  /\ m \in Dialog /\ Sound(t) /\ Within(s, t, m) /\ FocusKept(s, t, m)
         /\ Cost(t) <= Cost(s)
         /\ s.modal[m].isShown \/ (s.page.modalOpen => Pending(s.queue)) =>
              s.modal[m].isShown \/ (t.page.modalOpen => Pending(t.queue))
<1>1. PICK f : Ran(s, el, f, t)
  BY DispatchRuns
<1>2. PICK q, base : q = s.queue /\ base = Begun(s, el)
  OBVIOUS
<1>3. /\ q \in Seq(Wait) /\ Orderly(q) /\ Len(q) \in Nat /\ DOMAIN q = 1..Len(q)
      /\ \A i \in 1..Len(q) : q[i] \in Wait /\ q[i].call \in Call
  BY <1>2, WaitsAre DEF Sound, Orderly
<1>4. m \in Dialog /\ \A i \in 1..Len(q) : q[i].el = el => q[i].call[2] = m
  <2>1. m \in Dialog
    BY <1>2, <1>3 DEF Call
  <2>2. QED
    BY <1>2, <1>3, <2>1 DEF Sound, Owned
<1>5. /\ f[0] = base /\ t = f[Len(q)] /\ \A i \in 0..Len(q) : Sound(f[i])
      /\ \A i \in 1..Len(q) : f[i] = IF q[i].el = el THEN Run(f[i - 1], q[i]) ELSE f[i - 1]
  BY <1>1, <1>2 DEF Ran
<1>6. /\ Sound(base) /\ base.modal = s.modal /\ base.page = s.page
      /\ base.queue = WithoutElement(q, el)
  BY <1>2, BegunIs
<1>7. Cost(base) \in Nat
  BY <1>6, CostIs
<1> DEFINE Before(k) == {j \in HidingOn(q, el) : j <= k}
           Ahead(k) == \E j \in (k + 1)..Len(q) : q[j].el = el /\ Lifts(q[j])
<1>8. \A k \in 0..Len(q) : IsFiniteSet(Before(k)) /\ Cardinality(Before(k)) \in Nat
  <2>1. \A k \in 0..Len(q) : Before(k) \in SUBSET (DOMAIN q)
    BY DEF HidingOn, Hiding
  <2>2. QED
    BY <1>3, <2>1, HidingFinite
<1>9. \A j \in 1..Len(q) : (q[j].el = el /\ Lifts(q[j])) => Ahead(0)
  BY <1>3
<1> HIDE DEF Before, Ahead
<1> DEFINE Well(k, x) == /\ Settles(base, x, m)
                         /\ Cost(x) <= Cost(base) + Cardinality(Before(k))
                         /\ ~s.modal[m].isShown /\ (s.page.modalOpen => Pending(q)) =>
                              (x.page.modalOpen => Pending(x.queue) \/ Ahead(k))
           K == {k \in 0..Len(q) : Well(k, f[k])}
<1>10. 0 \in K
  <2>1. Settles(base, base, m)
    BY <1>6 DEF Settles, Within, Alone, FocusKept, SameFocus, Unlocks, Sound
  <2>2. Cardinality(Before(0)) \in Nat
    BY <1>3, <1>8
  <2>3. Pending(q) => Pending(base.queue) \/ Ahead(0)
    <3>1. ASSUME Pending(q)
          PROVE  Pending(base.queue) \/ Ahead(0)
      <4>1. PICK r : r = base.queue
        OBVIOUS
      <4>2. r = WithoutElement(q, el)
        BY <1>6, <4>1
      <4>3. \A i \in DOMAIN q : q[i].el = el \/ \E j \in DOMAIN r : r[j] = q[i]
        BY <1>3, <4>2, WithoutFine
      <4>4. PICK i \in DOMAIN q : Lifts(q[i])
        BY <3>1 DEF Pending
      <4>5. CASE q[i].el = el
        BY <1>3, <1>9, <4>4, <4>5
      <4>6. CASE q[i].el # el
        <5>1. PICK j \in DOMAIN r : r[j] = q[i]
          BY <4>3, <4>6
        <5>2. QED
          BY <4>1, <4>4, <5>1 DEF Pending
      <4>7. QED
        BY <4>5, <4>6
    <3>2. QED
      BY <3>1
  <2>4. Cost(base) <= Cost(base) + Cardinality(Before(0))
    BY <1>7, <2>2
  <2>5. ~s.modal[m].isShown /\ (s.page.modalOpen => Pending(q)) =>
          (base.page.modalOpen => Pending(base.queue) \/ Ahead(0))
    BY <1>6, <2>3
  <2>6. QED
    BY <1>3, <1>5, <2>1, <2>4, <2>5
<1>11. ASSUME NEW k \in 0..(Len(q) - 1), k \in K
       PROVE  k + 1 \in K
  <2>1. k + 1 \in 1..Len(q) /\ k + 1 \in 0..Len(q) /\ (k + 1) - 1 = k /\ k \in 0..Len(q)
    BY <1>3
  <2>2. PICK x, y, w : x = f[k] /\ y = f[k + 1] /\ w = q[k + 1]
    OBVIOUS
  <2>3. w \in Wait /\ Sound(x) /\ y = IF w.el = el THEN Run(x, w) ELSE x
    BY <1>3, <1>5, <2>1, <2>2
  <2>4. Settles(base, x, m) /\ Cost(x) <= Cost(base) + Cardinality(Before(k))
    BY <1>11, <2>2
  <2>5. ~s.modal[m].isShown /\ (s.page.modalOpen => Pending(q)) =>
          (x.page.modalOpen => Pending(x.queue) \/ Ahead(k))
    BY <1>11, <2>2
  <2>6. /\ Cardinality(Before(k)) \in Nat /\ Cardinality(Before(k + 1)) \in Nat
        /\ IsFiniteSet(Before(k)) /\ Cost(x) \in Nat
    BY <1>8, <2>1, <2>3, CostIs
  <2>7. /\ k + 1 \in HidingOn(q, el) => Cardinality(Before(k + 1)) = Cardinality(Before(k)) + 1
        /\ k + 1 \notin HidingOn(q, el) => Before(k + 1) = Before(k)
    <3>1. HidingOn(q, el) \subseteq 1..Len(q)
      BY <1>3 DEF HidingOn, Hiding
    <3>2. k + 1 \in HidingOn(q, el) => Before(k + 1) = Before(k) \cup {k + 1}
      BY <1>3, <2>1, <3>1 DEF Before
    <3>3. k + 1 \notin HidingOn(q, el) => Before(k + 1) = Before(k)
      BY <1>3, <2>1, <3>1 DEF Before
    <3>4. k + 1 \notin Before(k)
      BY <2>1 DEF Before
    <3>5. Cardinality(Before(k) \cup {k + 1}) = Cardinality(Before(k)) + 1
      BY <2>6, <3>4, FS_AddElement
    <3>6. QED
      BY <3>2, <3>3, <3>5
  <2>8. \A j \in (k + 1)..Len(q) : j = k + 1 \/ j \in ((k + 1) + 1)..Len(q)
    BY <1>3, <2>1
  <2>9. Ahead(k) => Ahead(k + 1) \/ (w.el = el /\ Lifts(w))
    BY <2>2, <2>8 DEF Ahead
  <2>10. SUFFICES /\ Settles(base, y, m) /\ Cost(y) <= Cost(base) + Cardinality(Before(k + 1))
                  /\ ~s.modal[m].isShown /\ (s.page.modalOpen => Pending(q)) =>
                       (y.page.modalOpen => Pending(y.queue) \/ Ahead(k + 1))
    BY <2>1, <2>2
  <2>11. CASE w.el # el
    <3>1. y = x
      BY <2>3, <2>11
    <3>2. Cardinality(Before(k)) <= Cardinality(Before(k + 1))
      BY <2>6, <2>7
    <3>3. Cost(x) <= Cost(base) + Cardinality(Before(k + 1))
      BY <1>7, <2>4, <2>6, <3>2
    <3>4. QED
      BY <2>4, <2>5, <2>9, <2>11, <3>1, <3>3
  <2>12. CASE w.el = el
    <3>1. y = Run(x, w) /\ m = w.call[2]
      BY <1>4, <2>1, <2>2, <2>3, <2>12
    <3>2. /\ Settles(x, y, m) /\ Cost(y) <= Cost(x) + 1
          /\ w.call[1] # "hideModal" => Cost(y) <= Cost(x)
          /\ Lifts(w) /\ ~x.modal[m].isShown => ~y.page.modalOpen \/ Pending(y.queue)
      BY <2>3, <3>1, RunSettles
    <3>3. Settles(base, y, m)
      BY <1>4, <2>4, <3>2, SettlesOn
    <3>4. Cost(y) \in Nat
      BY <3>2, CostIs DEF Settles
    <3>5. w.call[1] = "hideModal" => k + 1 \in HidingOn(q, el)
      BY <1>3, <2>1, <2>2, <2>12 DEF HidingOn, Hiding
    <3>6. Cost(y) <= Cost(base) + Cardinality(Before(k + 1))
      <4>1. CASE k + 1 \in HidingOn(q, el)
        BY <1>7, <2>4, <2>6, <2>7, <3>2, <3>4, <4>1
      <4>2. CASE k + 1 \notin HidingOn(q, el)
        <5>1. Cost(y) <= Cost(x) /\ Cardinality(Before(k + 1)) = Cardinality(Before(k))
          BY <2>7, <3>2, <3>5, <4>2
        <5>2. QED
          BY <1>7, <2>4, <2>6, <3>4, <5>1
      <4>3. QED
        BY <4>1, <4>2
    <3>7. ASSUME ~s.modal[m].isShown, s.page.modalOpen => Pending(q), y.page.modalOpen
          PROVE  Pending(y.queue) \/ Ahead(k + 1)
      <4>1. ~x.modal[m].isShown
        BY <1>6, <2>4, <3>7 DEF Settles, Within
      <4>2. x.page.modalOpen /\ (Pending(x.queue) => Pending(y.queue))
        BY <3>2, <3>7 DEF Settles, Unlocks
      <4>3. Pending(x.queue) \/ Ahead(k)
        BY <2>5, <3>7, <4>2
      <4>4. QED
        BY <2>9, <3>2, <3>7, <4>1, <4>2, <4>3
    <3>8. QED
      BY <3>3, <3>6, <3>7
  <2>13. QED
    BY <2>11, <2>12
<1>12. Before(Len(q)) = HidingOn(q, el) /\ ~Ahead(Len(q))
  BY <1>3 DEF HidingOn, Hiding, Before, Ahead
<1> HIDE DEF K
<1>13. 0..Len(q) \subseteq K
  BY <1>3, <1>10, <1>11, UpTo
<1>14. Well(Len(q), f[Len(q)])
  BY <1>3, <1>13, SMTT(30) DEF K
<1>15. /\ Settles(base, t, m) /\ Cost(t) <= Cost(base) + Cardinality(HidingOn(q, el))
       /\ ~s.modal[m].isShown /\ (s.page.modalOpen => Pending(q)) => (t.page.modalOpen => Pending(t.queue))
  BY <1>5, <1>12, <1>14
<1>16. Sound(t) /\ Within(s, t, m) /\ FocusKept(s, t, m)
  <2>1. Sound(t) /\ Within(base, t, m) /\ FocusKept(base, t, m)
    BY <1>15 DEF Settles
  <2>2. Within(s, t, m)
    BY <1>6, <2>1 DEF Within, Alone
  <2>3. FocusKept(s, t, m)
    BY <1>6, <2>1 DEF FocusKept, SameFocus
  <2>4. QED
    BY <2>1, <2>2, <2>3
<1>17. Cost(t) <= Cost(s)
  <2>1. PICK r : r = base.queue
    OBVIOUS
  <2>2. Orderly(q) /\ r = WithoutElement(q, el) /\ r \in Seq(Wait)
    BY <1>3, <1>6, <2>1 DEF Sound, State
  <2>3. Cardinality(Hiding(r)) + Cardinality(HidingOn(q, el)) <= Cardinality(Hiding(q))
    BY <2>2, WithoutHides
  <2>4. /\ Cardinality(Hiding(r)) \in Nat /\ Cardinality(Hiding(q)) \in Nat
        /\ Cardinality(HidingOn(q, el)) \in Nat
    <3>1. HidingOn(q, el) \in SUBSET (DOMAIN q)
      BY DEF HidingOn, Hiding
    <3>2. QED
      BY <1>3, <2>2, <3>1, HidingFinite
  <2>5. s.page.made \in Nat /\ Cost(t) \in Nat
    BY <1>16, CostIs DEF Sound, State, Page
  <2>6. /\ Cost(base) = s.page.made + Cardinality(Hiding(r)) /\ Cost(s) = s.page.made + Cardinality(Hiding(q))
        /\ Cost(t) <= Cost(base) + Cardinality(HidingOn(q, el))
    BY <1>2, <1>6, <1>15, <2>1 DEF Cost
  <2>7. QED
    BY <2>3, <2>4, <2>5, <2>6
<1>18. QED
  BY <1>2, <1>4, <1>15, <1>16, <1>17

-----------------------------------------------------------------------------
(* One modal on the page, from method to method *)

LEMMA OwnKept ==
  ASSUME NEW s, NEW m \in Dialog, NEW t, Own(s, m), Within(s, t, m), SameBackdrop(s, t, m), SameLock(s, t)
  PROVE  Own(t, m)
<1>1. \A n \in Dialog : n = m \/ Idle(t.modal[n])
  BY DEF Own, Within, Alone
<1>2. t.page.modalOpen /\ t.modal[m].originalBodyPad = 0
  BY DEF Own, Within, SameLock
<1>3. /\ t.page.backdrops = {t.modal[m].backdrop} \ {0}
      /\ t.modal[m].backdrop # 0 <=> m \in WithBackdrop
  BY DEF Own, SameBackdrop
<1>4. QED
  BY <1>1, <1>2, <1>3 DEF Own

\* The queue of a modal that appears.
LEMMA AppearQueue ==
  ASSUME NEW s, Sound(s), NEW m \in Dialog, NEW t, t = Appear(s, m)
  PROVE  /\ Quiet(s.queue) => Quiet(t.queue)
         /\ \A el, call : One(s.queue, el, call) => One(t.queue, el, call)
<1>1. t.queue = IF m \in Fading THEN Await(s.queue, DialogOf(m), <<"shown", m>>, ModalTime)
                ELSE s.queue
  BY AppearIs
<1>2. CASE m \notin Fading
  BY <1>1, <1>2
<1>3. CASE m \in Fading
  <2>1. PICK q, r, el, call, d, w :
          /\ q = s.queue /\ r = t.queue /\ el = DialogOf(m) /\ call = <<"shown", m>> /\ d = ModalTime
          /\ w = Waiting(el, call, d)
    OBVIOUS
  <2>2. w.el = el /\ w.call = call /\ call[1] = "shown" /\ call[2] = m
    BY <2>1 DEF Waiting
  <2>3. el \in El /\ call \in Call /\ d \in 0..2 /\ Fit(w)
    BY <2>1, <2>2, ElsAre DEF Call, Name, ModalTime, Fit
  <2>4. Orderly(q) /\ r = Await(q, el, call, d)
    BY <1>1, <1>3, <2>1 DEF Sound
  <2>5. /\ Quiet(q) /\ call[1] = "shown" => Quiet(r)
        /\ \A e, c : One(q, e, c) /\ call[1] = "shown" => One(r, e, c)
    BY <2>1, <2>3, <2>4, AwaitFine
  <2>6. QED
    BY <2>1, <2>2, <2>5
<1>4. QED
  BY <1>2, <1>3

LEMMA AppearPhase ==
  ASSUME NEW s, Sound(s), NEW m \in Dialog, NEW t, t = Appear(s, m), Own(s, m)
  PROVE  /\ s.modal[m].isShown /\ m \in s.page.resize /\ Quiet(s.queue) => IsUp(t, m)
         /\ ~s.modal[m].isShown /\ m \in Fading /\ One(s.queue, Element(m), <<"hideModal", m>>) =>
              GoesDown(t, m)
<1>1. /\ Within(s, t, m) /\ SameBackdrop(s, t, m) /\ SameLock(s, t)
      /\ t.modal[m].displayed /\ t.page.focusin = m
  BY AppearIs
<1>2. Own(t, m)
  BY <1>1, OwnKept
<1>3. /\ Quiet(s.queue) => Quiet(t.queue)
      /\ \A el, call : One(s.queue, el, call) => One(t.queue, el, call)
  BY AppearQueue
<1>4. t.modal[m].isShown = s.modal[m].isShown /\ t.page.resize = s.page.resize
  BY <1>1 DEF Within
<1>5. s.modal[m].isShown /\ m \in s.page.resize /\ Quiet(s.queue) => IsUp(t, m)
  BY <1>1, <1>2, <1>3, <1>4 DEF IsUp
<1>6. ASSUME ~s.modal[m].isShown, m \in Fading, One(s.queue, Element(m), <<"hideModal", m>>)
      PROVE  GoesDown(t, m)
  <2>1. One(t.queue, Element(m), <<"hideModal", m>>)
    BY <1>3, <1>6
  <2>2. QED
    BY <1>2, <1>4, <1>6, <2>1 DEF GoesDown
<1>7. QED
  BY <1>5, <1>6

\* A modal that is hidden leaves the page free.
LEMMA HiddenPhase ==
  ASSUME NEW s, Sound(s), NEW m \in Dialog, NEW t, t = Hidden(s, m),
         s.modal[m].originalBodyPad = 0, s.page.backdrops = {},
         \A n \in Dialog : Idle(s.modal[n]), Quiet(s.queue)
  PROVE  Free(t)
<1>1. /\ Within(s, t, m) /\ SameBackdrop(s, t, m) /\ SameDisplay(s, t, m)
      /\ t.queue = s.queue
      /\ ~t.page.modalOpen /\ t.page.bodyPad = s.modal[m].originalBodyPad
  BY HiddenIs
<1>2. ASSUME NEW n \in Dialog
      PROVE  Idle(t.modal[n])
  <2>1. CASE n = m
    BY <1>1, <2>1 DEF Idle, Within, SameBackdrop, SameDisplay
  <2>2. CASE n # m
    BY <1>1, <2>2 DEF Within, Alone
  <2>3. QED
    BY <2>1, <2>2
<1>3. QED
  BY <1>1, <1>2 DEF Free, SameBackdrop

LEMMA LiftedPhase ==
  ASSUME NEW s, Sound(s), NEW m \in Dialog, NEW t, t = Lifted(s, m),
         Own(s, m), ~s.modal[m].isShown, ~s.modal[m].displayed, Quiet(s.queue)
  PROVE  Free(t)
<1>1. PICK u : u = RemoveBackdrop(s, m)
  OBVIOUS
<1>2. /\ Sound(u) /\ Within(s, u, m) /\ SameDisplay(s, u, m)
      /\ u.modal[m].backdrop = 0 /\ u.page.backdrops = s.page.backdrops \ {s.modal[m].backdrop}
      /\ u.queue = WithoutElement(s.queue, BackdropEl(s.modal[m].backdrop))
  BY <1>1, RemovedIs
<1>3. t = Hidden(u, m)
  BY <1>1 DEF Lifted
<1>4. u.page.backdrops = {} /\ u.modal[m].originalBodyPad = 0
  BY <1>2 DEF Own, Within
<1>5. \A n \in Dialog : Idle(u.modal[n])
  BY <1>2 DEF Own, Within, Alone, SameDisplay, Idle
<1>6. Quiet(u.queue)
  <2>1. PICK q, r, el : q = s.queue /\ r = u.queue /\ el = BackdropEl(s.modal[m].backdrop)
    OBVIOUS
  <2>2. Orderly(q) /\ r = WithoutElement(q, el)
    BY <1>2, <2>1 DEF Sound
  <2>3. Quiet(q) => Quiet(r)
    BY <2>2, WithoutFine
  <2>4. QED
    BY <2>1, <2>3
<1>7. QED
  BY <1>2, <1>3, <1>4, <1>5, <1>6, HiddenPhase

LEMMA HideModalPhase ==
  ASSUME NEW s, Sound(s), NEW m \in Dialog, NEW t, t = HideModal(s, m),
         Own(s, m), ~s.modal[m].isShown, Quiet(s.queue)
  PROVE  Lifting(t, m) \/ Free(t)
<1>1. PICK u : u = Undisplayed(s, m)
  OBVIOUS
<1>2. /\ Sound(u) /\ Within(s, u, m) /\ SameBackdrop(s, u, m) /\ SameLock(s, u)
      /\ ~u.modal[m].displayed /\ u.queue = s.queue
  BY <1>1, UndisplayedIs
<1>3. t = Backdrop(u, m, "hidden")
  BY <1>1 DEF HideModal, Undisplayed
<1>4. Own(u, m) /\ ~u.modal[m].isShown /\ Quiet(u.queue)
  BY <1>2, OwnKept DEF Within
<1>5. u.modal[m].backdrop \in Nat
  BY <1>2, SoundAre
<1>6. CASE u.modal[m].backdrop # 0 /\ m \in Fading
  <2>1. PICK el, call, b : b = u.modal[m].backdrop /\ el = BackdropEl(b) /\ call = <<"remove", m>>
    OBVIOUS
  <2>2. t = Awaiting(u, el, call, BackdropTime)
    BY <1>3, <1>4, <1>6, <2>1, BackdropIs
  <2>3. b \in Nat \ {0}
    BY <1>5, <1>6, <2>1
  <2>4. /\ el \in El /\ call \in Call /\ call[1] = "remove" /\ call[2] = m /\ BackdropTime \in 0..2
        /\ Fit(Waiting(el, call, BackdropTime))
    BY <2>1, <2>3, BackdropWaits
  <2>5. /\ Within(u, t, m) /\ SameBackdrop(u, t, m) /\ SameLock(u, t) /\ SameDisplay(u, t, m)
        /\ t.queue = Await(u.queue, el, call, BackdropTime)
    BY <1>2, <2>1, <2>2, <2>4, AwaitingIs
  <2>6. Own(t, m)
    BY <1>4, <2>5, OwnKept
  <2>7. One(t.queue, el, call)
    <3>1. PICK q, r, w : q = u.queue /\ r = t.queue /\ w = Waiting(el, call, BackdropTime)
      OBVIOUS
    <3>2. Orderly(q) /\ Fit(w) /\ r = Await(q, el, call, BackdropTime)
      BY <1>2, <2>4, <2>5, <3>1 DEF Sound
    <3>3. Quiet(q) /\ call[1] # "shown" => One(r, el, call)
      BY <2>4, <3>1, <3>2, AwaitFine
    <3>4. QED
      BY <1>4, <2>4, <3>1, <3>3
  <2>8. /\ t.modal[m].backdrop = b /\ ~t.modal[m].isShown /\ ~t.modal[m].displayed
    BY <1>2, <1>4, <2>1, <2>5 DEF Within, SameBackdrop, SameDisplay
  <2>9. Veiled(m)
    BY <1>4, <1>6 DEF Veiled, Own
  <2>10. QED
    BY <2>1, <2>6, <2>7, <2>8, <2>9 DEF Lifting
<1>7. CASE u.modal[m].backdrop # 0 /\ m \notin Fading
  <2>1. t = CallBack(RemoveBackdrop(u, m), m, "hidden")
    BY <1>3, <1>4, <1>7, BackdropIs
  <2>2. t = Lifted(u, m)
    BY <2>1 DEF CallBack, Lifted
  <2>3. Free(t)
    BY <1>2, <1>4, <2>2, LiftedPhase
  <2>4. QED
    BY <2>3
<1>8. CASE u.modal[m].backdrop = 0
  <2>1. t = Hidden(u, m)
    <3>1. t = CallBack(u, m, "hidden")
      BY <1>3, <1>4, <1>8, BackdropIs
    <3>2. QED
      BY <3>1 DEF CallBack
  <2>2. u.page.backdrops = {} /\ u.modal[m].originalBodyPad = 0
    BY <1>4, <1>8 DEF Own
  <2>3. \A n \in Dialog : Idle(u.modal[n])
    BY <1>2, <1>4, <1>8 DEF Own, Idle
  <2>4. Free(t)
    BY <1>2, <1>4, <2>1, <2>2, <2>3, HiddenPhase
  <2>5. QED
    BY <2>4
<1>9. QED
  BY <1>6, <1>7, <1>8

\* A modal that is shown while the page is free.
LEMMA BackdropAppears ==
  ASSUME NEW s, Sound(s), NEW m \in Dialog, s.modal[m].isShown, NEW t, t = Backdrop(s, m, "appear")
  PROVE  /\ SameFocus(s, t, m) /\ SameLock(s, t)
         /\ /\ s.page.modalOpen /\ s.modal[m].originalBodyPad = 0 /\ m \in s.page.resize
            /\ s.page.backdrops = {} /\ s.modal[m].backdrop = 0
            /\ \A n \in Dialog : n = m \/ Idle(s.modal[n])
            /\ Quiet(s.queue)
            => ComesUp(t, m) \/ IsUp(t, m)
<1> DEFINE Clear == /\ s.page.modalOpen /\ s.modal[m].originalBodyPad = 0 /\ m \in s.page.resize
                    /\ s.page.backdrops = {} /\ s.modal[m].backdrop = 0
                    /\ \A n \in Dialog : n = m \/ Idle(s.modal[n])
                    /\ Quiet(s.queue)
<1>1. CASE m \in WithBackdrop
  <2>1. PICK u, b : u = Making(s, m) /\ b = s.page.made + 1
    OBVIOUS
  <2>2. /\ Sound(u) /\ Within(s, u, m) /\ SameLock(s, u) /\ SameFocus(s, u, m) /\ SameDisplay(s, u, m)
        /\ u.modal[m].backdrop = b /\ u.page.backdrops = s.page.backdrops \cup {b}
        /\ u.queue = s.queue
    BY <2>1, MakingIs
  <2>3. b \in Nat \ {0}
    BY <2>1, SoundAre
  <2>4. Clear => Own(u, m) /\ u.modal[m].isShown /\ m \in u.page.resize /\ Quiet(u.queue)
    <3>1. ASSUME Clear
          PROVE  Own(u, m) /\ u.modal[m].isShown /\ m \in u.page.resize /\ Quiet(u.queue)
      <4>1. u.page.backdrops = {u.modal[m].backdrop} \ {0} /\ u.modal[m].backdrop # 0
        BY <2>2, <2>3, <3>1
      <4>2. \A n \in Dialog : n = m \/ Idle(u.modal[n])
        BY <2>2, <3>1 DEF Within, Alone
      <4>3. /\ u.page.modalOpen /\ u.modal[m].originalBodyPad = 0
            /\ u.modal[m].isShown /\ m \in u.page.resize /\ Quiet(u.queue)
        BY <2>2, <3>1 DEF Within, SameLock
      <4>4. QED
        BY <1>1, <4>1, <4>2, <4>3 DEF Own
    <3>2. QED
      BY <3>1
  <2> HIDE DEF Clear
  <2>5. CASE m \in Fading
    <3>1. PICK el, call : el = BackdropEl(b) /\ call = <<"appear", m>>
      OBVIOUS
    <3>2. t = Awaiting(u, el, call, BackdropTime)
      BY <1>1, <2>1, <2>5, <3>1, BackdropIs
    <3>3. /\ el \in El /\ call \in Call /\ call[1] = "appear" /\ call[2] = m /\ BackdropTime \in 0..2
          /\ Fit(Waiting(el, call, BackdropTime))
      BY <2>3, <3>1, BackdropWaits
    <3>4. el = BackdropEl(u.modal[m].backdrop)
      BY <2>2, <3>1
    <3>5. /\ Within(u, t, m) /\ SameBackdrop(u, t, m) /\ SameLock(u, t) /\ SameFocus(u, t, m)
          /\ t.queue = Await(u.queue, el, call, BackdropTime)
      BY <2>2, <3>2, <3>3, <3>4, AwaitingIs
    <3>6. SameFocus(s, t, m) /\ SameLock(s, t)
      BY <2>2, <3>5 DEF SameFocus, SameLock
    <3>7. ASSUME Clear
          PROVE  ComesUp(t, m)
      <4>1. Own(t, m)
        BY <2>4, <3>5, <3>7, OwnKept
      <4>2. One(t.queue, el, call)
        <5>1. PICK q, r, w : q = u.queue /\ r = t.queue /\ w = Waiting(el, call, BackdropTime)
          OBVIOUS
        <5>2. Orderly(q) /\ Fit(w) /\ r = Await(q, el, call, BackdropTime)
          BY <2>2, <3>3, <3>5, <5>1 DEF Sound
        <5>3. Quiet(q) /\ call[1] # "shown" => One(r, el, call)
          BY <3>3, <5>1, <5>2, AwaitFine
        <5>4. QED
          BY <2>4, <3>3, <3>7, <5>1, <5>3
      <4>3. t.modal[m].isShown /\ m \in t.page.resize /\ t.modal[m].backdrop = b
        BY <2>2, <2>4, <3>5, <3>7 DEF Within, SameBackdrop
      <4>4. QED
        BY <1>1, <2>5, <3>1, <4>1, <4>2, <4>3 DEF ComesUp, Veiled
    <3>8. QED
      BY <3>6, <3>7 DEF Clear
  <2>6. CASE m \notin Fading
    <3>1. t = CallBack(u, m, "appear")
      BY <1>1, <2>1, <2>6, BackdropIs
    <3>2. t = Appear(u, m)
      BY <3>1 DEF CallBack
    <3>3. SameFocus(u, t, m) /\ SameLock(u, t)
      BY <2>2, <3>2, AppearIs
    <3>4. SameFocus(s, t, m) /\ SameLock(s, t)
      BY <2>2, <3>3 DEF SameFocus, SameLock
    <3>5. ASSUME Clear
          PROVE  IsUp(t, m)
      <4>1. Own(u, m)
        BY <2>4, <3>5
      <4>2. u.modal[m].isShown /\ m \in u.page.resize /\ Quiet(u.queue) => IsUp(t, m)
        BY <2>2, <3>2, <4>1, AppearPhase
      <4>3. QED
        BY <2>4, <3>5, <4>2
    <3>6. QED
      BY <3>4, <3>5 DEF Clear
  <2>7. QED
    BY <2>5, <2>6
<1>2. CASE m \notin WithBackdrop
  <2>1. t = Appear(s, m)
    BY <1>2 DEF Backdrop, CallBack
  <2>2. SameFocus(s, t, m) /\ SameLock(s, t)
    BY <2>1, AppearIs
  <2>3. ASSUME Clear
        PROVE  IsUp(t, m)
    <3>1. Own(s, m)
      <4>1. s.page.backdrops = {s.modal[m].backdrop} \ {0}
        BY <2>3
      <4>2. QED
        BY <1>2, <2>3, <4>1 DEF Own
    <3>2. s.modal[m].isShown /\ m \in s.page.resize /\ Quiet(s.queue) => IsUp(t, m)
      BY <2>1, <3>1, AppearPhase
    <3>3. QED
      BY <2>3, <3>2
  <2>4. QED
    BY <2>2, <2>3
<1>3. QED
  BY <1>1, <1>2

-----------------------------------------------------------------------------
(* Show and hide *)

LEMMA ShowOfFine ==
  ASSUME NEW s, Sound(s), NEW m \in Dialog, NEW trigger \in Trigger \cup {None}, ~s.modal[m].isShown,
         NEW t, t = ShowOf(s, m, trigger)
  PROVE  /\ Sound(t) /\ Alone(s, t, m)
         /\ t.modal[m].isShown /\ t.modal[m].opener = trigger
         /\ t.modal[m].onHidden = s.modal[m].onHidden \o s.modal[m].onShow
         /\ t.modal[m].onShow = <<>>
         /\ t.page.shows = s.page.shows + 1
         /\ (t.page.overlapped <=> s.page.overlapped \/ s.page.modalOpen)
         /\ Cost(t) <= Cost(s) + 1
         /\ Free(s) => ComesUp(t, m) \/ IsUp(t, m)
<1>1. PICK e : e = ShowEvent(s, m)
  OBVIOUS
<1>2. /\ Sound(e) /\ Alone(s, e, m) /\ SameBackdrop(s, e, m)
      /\ e.modal[m].onHidden = s.modal[m].onHidden \o s.modal[m].onShow
      /\ e.modal[m].onShow = <<>>
      /\ e.page = s.page /\ e.queue = s.queue
  BY <1>1, ShowEventIs, ZenonT(60)
<1>3. PICK u : u = Showing(e, m, trigger)
  OBVIOUS
<1>4. /\ Sound(u) /\ Alone(e, u, m) /\ SameBackdrop(e, u, m) /\ SameFocus(e, u, m)
      /\ u.modal[m].isShown /\ u.modal[m].opener = trigger
      /\ u.modal[m].onShow = e.modal[m].onShow
      /\ u.modal[m].originalBodyPad = e.page.bodyPad /\ u.page.modalOpen
      /\ m \in u.page.resize
      /\ u.page.shows = e.page.shows + 1
      /\ (u.page.overlapped <=> e.page.overlapped \/ e.page.modalOpen)
      /\ u.queue = e.queue
  BY <1>2, <1>3, ShowingIs
<1>5. t = Backdrop(u, m, "appear")
  <2>1. /\ s.page.resize = e.page.resize /\ s.page.shows = e.page.shows
        /\ s.page.overlapped = e.page.overlapped /\ s.page.modalOpen = e.page.modalOpen
    BY <1>2
  <2>2. QED
    BY <1>1, <1>3, <2>1 DEF ShowOf, Showing
<1>6. Settles(u, t, m) /\ Cost(t) <= Cost(u) + 1
  <2>1. "appear" = "appear" => u.modal[m].isShown
    BY <1>4
  <2>2. QED
    BY <1>4, <1>5, <2>1, BackdropSettles
<1>7. SameFocus(u, t, m)
  BY <1>4, <1>5, BackdropAppears
<1>8. Cost(u) = Cost(s)
  BY <1>2, <1>4 DEF Cost, SameBackdrop
<1>9. /\ Sound(t) /\ Alone(s, t, m)
  BY <1>2, <1>4, <1>6 DEF Settles, Within, Alone
<1>10. /\ t.modal[m].isShown /\ t.modal[m].opener = trigger /\ t.modal[m].onShow = <<>>
       /\ t.page.shows = s.page.shows + 1
       /\ (t.page.overlapped <=> s.page.overlapped \/ s.page.modalOpen)
  BY <1>2, <1>4, <1>6 DEF Settles, Within
<1>11. t.modal[m].onHidden = s.modal[m].onHidden \o s.modal[m].onShow
  BY <1>2, <1>4, <1>7 DEF SameFocus
<1>12. ASSUME Free(s)
       PROVE  ComesUp(t, m) \/ IsUp(t, m)
  <2>1. /\ u.page.backdrops = {} /\ u.modal[m].backdrop = 0 /\ u.modal[m].originalBodyPad = 0
    BY <1>2, <1>4, <1>12 DEF Free, Idle, SameBackdrop
  <2>2. \A n \in Dialog : n = m \/ Idle(u.modal[n])
    BY <1>2, <1>4, <1>12 DEF Free, Alone
  <2>3. Quiet(u.queue)
    BY <1>2, <1>4, <1>12 DEF Free
  <2>4. QED
    BY <1>4, <1>5, <2>1, <2>2, <2>3, BackdropAppears
<1>13. QED
  BY <1>6, <1>8, <1>9, <1>10, <1>11, <1>12

LEMMA HideOfFine ==
  ASSUME NEW s, Sound(s), NEW m \in Dialog, NEW d \in Duration, s.modal[m].isShown,
         NEW t, t = HideOf(s, m, d)
  PROVE  /\ Sound(t) /\ Alone(s, t, m) /\ FocusKept(s, t, m)
         /\ ~t.modal[m].isShown /\ t.modal[m].opener = s.modal[m].opener
         /\ t.modal[m].onShow = s.modal[m].onShow
         /\ t.page.shows = s.page.shows /\ (t.page.overlapped <=> s.page.overlapped)
         /\ Cost(t) <= Cost(s) + 1
         /\ t.page.modalOpen => Pending(t.queue)
         /\ ComesUp(s, m) => CutShort(t, m)
         /\ IsUp(s, m) => GoesDown(t, m) \/ Free(t)
<1>1. PICK u : u = Closing(s, m)
  OBVIOUS
<1>2. /\ Sound(u) /\ Alone(s, u, m) /\ SameLock(s, u) /\ SameFocus(s, u, m)
      /\ ~u.modal[m].isShown /\ u.modal[m].opener = s.modal[m].opener
      /\ u.modal[m].onShow = s.modal[m].onShow
      /\ u.modal[m].originalBodyPad = s.modal[m].originalBodyPad
      /\ u.modal[m].backdrop = s.modal[m].backdrop /\ u.modal[m].displayed = s.modal[m].displayed
      /\ u.page.backdrops = s.page.backdrops /\ u.page.made = s.page.made
      /\ u.page.shows = s.page.shows /\ u.page.overlapped = s.page.overlapped
      /\ u.queue = s.queue
  BY <1>1, ClosingIs
<1>3. Cost(u) = Cost(s) /\ Cost(s) \in Nat
  BY <1>2, CostIs DEF Cost
<1>4. Own(s, m) => Own(u, m)
  <2>1. ASSUME Own(s, m)
        PROVE  Own(u, m)
    <3>1. \A n \in Dialog : n = m \/ Idle(u.modal[n])
      BY <1>2, <2>1 DEF Own, Alone
    <3>2. /\ u.page.modalOpen /\ u.modal[m].originalBodyPad = 0
          /\ u.page.backdrops = {u.modal[m].backdrop} \ {0}
          /\ u.modal[m].backdrop # 0 <=> m \in WithBackdrop
      BY <1>2, <2>1 DEF Own, SameLock
    <3>3. QED
      BY <3>1, <3>2 DEF Own
  <2>2. QED
    BY <2>1
<1>5. SUFFICES /\ Settles(u, t, m) /\ Cost(t) <= Cost(s) + 1
               /\ t.page.modalOpen => Pending(t.queue)
               /\ ComesUp(s, m) => CutShort(t, m)
               /\ IsUp(s, m) => GoesDown(t, m) \/ Free(t)
  <2>1. ASSUME Settles(u, t, m)
        PROVE  /\ Sound(t) /\ Alone(s, t, m) /\ FocusKept(s, t, m)
               /\ ~t.modal[m].isShown /\ t.modal[m].opener = s.modal[m].opener
               /\ t.modal[m].onShow = s.modal[m].onShow
               /\ t.page.shows = s.page.shows /\ (t.page.overlapped <=> s.page.overlapped)
    <3>1. Sound(t) /\ Within(u, t, m) /\ FocusKept(u, t, m)
      BY <2>1 DEF Settles
    <3>2. Alone(s, t, m)
      BY <1>2, <3>1 DEF Within, Alone
    <3>3. FocusKept(s, t, m)
      BY <1>2, <3>1 DEF FocusKept, SameFocus
    <3>4. QED
      BY <1>2, <3>1, <3>2, <3>3 DEF Within
  <2>2. QED
    BY <2>1
<1>6. CASE m \in Fading
  <2>1. PICK el, call : el = Element(m) /\ call = <<"hideModal", m>>
    OBVIOUS
  <2>2. t = Awaiting(u, el, call, d)
    BY <1>1, <1>6, <2>1 DEF HideOf, Closing, Awaiting
  <2>3. d \in 0..2 /\ BackdropTime <= d
    BY DEF Duration, BackdropTime, ModalTime
  <2>4. /\ el \in El /\ call \in Call /\ call[1] = "hideModal" /\ call[2] = m
        /\ Fit(Waiting(el, call, d))
    BY <2>1, <2>3, ModalWaits
  <2>5. Settles(u, t, m) /\ Cost(t) <= Cost(u) + 1 /\ Pending(t.queue)
    BY <1>2, <2>1, <2>2, <2>3, <2>4, AwaitSettles
  <2>6. /\ Within(u, t, m) /\ SameBackdrop(u, t, m) /\ SameLock(u, t) /\ SameDisplay(u, t, m)
        /\ t.queue = Await(u.queue, el, call, d)
    BY <1>2, <2>1, <2>2, <2>3, <2>4, AwaitingIs
  <2>7. PICK q, r, w : q = u.queue /\ r = t.queue /\ w = Waiting(el, call, d)
    OBVIOUS
  <2>8. Orderly(q) /\ Fit(w) /\ r = Await(q, el, call, d)
    BY <1>2, <2>4, <2>6, <2>7 DEF Sound
  <2>9. Own(s, m) => Own(t, m) /\ ~t.modal[m].isShown /\ t.modal[m].backdrop = s.modal[m].backdrop
    BY <1>2, <1>4, <2>6, OwnKept DEF Within, SameBackdrop
  <2>10. ASSUME ComesUp(s, m)
         PROVE  CutShort(t, m)
    <3>1. PICK b : b = s.modal[m].backdrop
      OBVIOUS
    <3>2. One(q, BackdropEl(b), <<"appear", m>>)
      BY <1>2, <2>7, <2>10, <3>1 DEF ComesUp
    <3>3. Two(r, b, m)
      BY <2>1, <2>3, <2>4, <2>7, <2>8, <3>2, AwaitFine
    <3>4. QED
      BY <2>7, <2>9, <2>10, <3>1, <3>3 DEF ComesUp, CutShort
  <2>11. ASSUME IsUp(s, m)
         PROVE  GoesDown(t, m)
    <3>1. Quiet(q)
      BY <1>2, <2>7, <2>11 DEF IsUp
    <3>2. Quiet(q) /\ call[1] # "shown" => One(r, el, call)
      BY <2>3, <2>4, <2>7, <2>8, AwaitFine
    <3>3. One(r, el, call)
      BY <2>4, <3>1, <3>2
    <3>4. QED
      BY <1>6, <2>1, <2>7, <2>9, <2>11, <3>3 DEF IsUp, GoesDown
  <2>12. QED
    BY <1>3, <2>5, <2>10, <2>11
<1>7. CASE m \notin Fading
  <2>1. t = HideModal(u, m)
    BY <1>1, <1>7 DEF HideOf, Closing
  <2>2. /\ Settles(u, t, m) /\ Cost(t) <= Cost(u) + 1
        /\ ~u.modal[m].isShown => ~t.page.modalOpen \/ Pending(t.queue)
    BY <1>2, <2>1, HideModalSettles
  <2>3. ~ComesUp(s, m)
    BY <1>7 DEF ComesUp, Veiled
  <2>4. ASSUME IsUp(s, m)
        PROVE  Free(t)
    <3>1. Own(u, m) /\ Quiet(u.queue)
      BY <1>2, <1>4, <2>4 DEF IsUp
    <3>2. Lifting(t, m) \/ Free(t)
      BY <1>2, <2>1, <3>1, HideModalPhase
    <3>3. ~Lifting(t, m)
      BY <1>7 DEF Lifting, Veiled
    <3>4. QED
      BY <3>2, <3>3
  <2>5. QED
    BY <1>2, <1>3, <2>2, <2>3, <2>4
<1>8. QED
  BY <1>6, <1>7

-----------------------------------------------------------------------------
(* One modal on the page, from transition to transition *)

\* What the phases say of a modal.
SameObject(o, p) ==
  /\ p.isShown = o.isShown /\ p.displayed = o.displayed
  /\ p.backdrop = o.backdrop /\ p.originalBodyPad = o.originalBodyPad

\* And of the queue.
SameQueue(q, r) ==
  /\ Quiet(q) => Quiet(r)
  /\ \A m \in Dialog : \A call : One(q, Element(m), call) => One(r, Element(m), call)
  /\ \A b \in Nat : \A call : One(q, BackdropEl(b), call) => One(r, BackdropEl(b), call)
  /\ \A b \in Nat, m \in Dialog : Two(q, b, m) => Two(r, b, m)

LEMMA PhasesKept ==
  ASSUME NEW s, Sound(s), NEW t, \A n \in Dialog : SameObject(s.modal[n], t.modal[n]), t.page = s.page,
         SameQueue(s.queue, t.queue)
  PROVE  /\ Free(s) => Free(t)
         /\ \A m \in Dialog : /\ ComesUp(s, m) => ComesUp(t, m)
                              /\ IsUp(s, m) => IsUp(t, m)
                              /\ CutShort(s, m) => CutShort(t, m)
                              /\ GoesDown(s, m) => GoesDown(t, m)
                              /\ Lifting(s, m) => Lifting(t, m)
         /\ Phased(s) => Phased(t)
<1>1. \A n \in Dialog : Idle(s.modal[n]) => Idle(t.modal[n])
  BY DEF Idle, SameObject
<1>2. Free(s) => Free(t)
  BY <1>1 DEF Free, SameQueue
<1>3. ASSUME NEW m \in Dialog
      PROVE  /\ ComesUp(s, m) => ComesUp(t, m)
             /\ IsUp(s, m) => IsUp(t, m)
             /\ CutShort(s, m) => CutShort(t, m)
             /\ GoesDown(s, m) => GoesDown(t, m)
             /\ Lifting(s, m) => Lifting(t, m)
  <2>1. SameObject(s.modal[m], t.modal[m]) /\ s.modal[m].backdrop \in Nat
    BY SoundAre
  <2>2. Own(s, m) => Own(t, m)
    BY <1>1, <2>1 DEF Own, SameObject
  <2>3. ComesUp(s, m) => ComesUp(t, m)
    BY <2>1, <2>2 DEF ComesUp, SameObject, SameQueue
  <2>4. IsUp(s, m) => IsUp(t, m)
    BY <2>1, <2>2 DEF IsUp, SameObject, SameQueue
  <2>5. CutShort(s, m) => CutShort(t, m)
    BY <2>1, <2>2 DEF CutShort, SameObject, SameQueue
  <2>6. GoesDown(s, m) => GoesDown(t, m)
    BY <2>1, <2>2 DEF GoesDown, SameObject, SameQueue
  <2>7. Lifting(s, m) => Lifting(t, m)
    BY <2>1, <2>2 DEF Lifting, SameObject, SameQueue
  <2>8. QED
    BY <2>3, <2>4, <2>5, <2>6, <2>7
<1>4. Phased(s) => Phased(t)
  BY <1>2, <1>3 DEF Phased
<1>5. QED
  BY <1>2, <1>3, <1>4

\* One callback waits on the element.
LEMMA DispatchOne ==
  ASSUME NEW s, Sound(s), NEW p \in DOMAIN s.queue, NEW el,
         \A i \in DOMAIN s.queue : (s.queue[i].el = el) <=> (i = p),
         NEW t, t = Dispatch(s, el, Run)
  PROVE  t = Run(Begun(s, el), s.queue[p])
<1>1. PICK f : Ran(s, el, f, t)
  BY DispatchRuns
<1>2. PICK q, base : q = s.queue /\ base = Begun(s, el)
  OBVIOUS
<1>3. /\ Len(q) \in Nat /\ DOMAIN q = 1..Len(q) /\ p \in 1..Len(q)
      /\ \A i \in 1..Len(q) : (q[i].el = el) <=> (i = p)
  BY <1>2, WaitsAre DEF Sound, Orderly
<1>4. /\ f[0] = base /\ t = f[Len(q)]
      /\ \A i \in 1..Len(q) : f[i] = IF q[i].el = el THEN Run(f[i - 1], q[i]) ELSE f[i - 1]
  BY <1>1, <1>2 DEF Ran
<1> DEFINE K == {k \in 0..Len(q) : f[k] = IF k < p THEN base ELSE Run(base, q[p])}
<1>5. 0 \in K
  BY <1>3, <1>4
<1>6. ASSUME NEW k \in 0..(Len(q) - 1), k \in K
      PROVE  k + 1 \in K
  <2>1. k + 1 \in 1..Len(q) /\ k + 1 \in 0..Len(q) /\ (k + 1) - 1 = k
    BY <1>3
  <2>2. f[k + 1] = IF k + 1 = p THEN Run(f[k], q[p]) ELSE f[k]
    BY <1>3, <1>4, <2>1
  <2>3. QED
    BY <1>3, <1>6, <2>1, <2>2
<1> HIDE DEF K
<1>7. 0..Len(q) \subseteq K
  BY <1>3, <1>5, <1>6, UpTo
<1>8. Len(q) \in 0..Len(q) /\ ~(Len(q) < p)
  BY <1>3
<1>9. f[Len(q)] = IF Len(q) < p THEN base ELSE Run(base, q[p])
  BY <1>7, <1>8 DEF K
<1>10. QED
  BY <1>2, <1>4, <1>8, <1>9

\* Nothing but the event shown waits on the element.
LEMMA DispatchShown ==
  ASSUME NEW s, Sound(s), NEW el,
         \A i \in DOMAIN s.queue : s.queue[i].el = el => s.queue[i].call[1] = "shown",
         NEW t, t = Dispatch(s, el, Run)
  PROVE  t = Begun(s, el)
<1>1. PICK f : Ran(s, el, f, t)
  BY DispatchRuns
<1>2. PICK q, base : q = s.queue /\ base = Begun(s, el)
  OBVIOUS
<1>3. /\ Len(q) \in Nat /\ DOMAIN q = 1..Len(q)
      /\ \A i \in 1..Len(q) : q[i].el = el => q[i].call[1] = "shown"
  BY <1>2, WaitsAre DEF Sound, Orderly
<1>4. /\ f[0] = base /\ t = f[Len(q)]
      /\ \A i \in 1..Len(q) : f[i] = IF q[i].el = el THEN Run(f[i - 1], q[i]) ELSE f[i - 1]
  BY <1>1, <1>2 DEF Ran
<1> DEFINE K == {k \in 0..Len(q) : f[k] = base}
<1>5. 0 \in K
  BY <1>3, <1>4
<1>6. ASSUME NEW k \in 0..(Len(q) - 1), k \in K
      PROVE  k + 1 \in K
  <2>1. k + 1 \in 1..Len(q) /\ k + 1 \in 0..Len(q) /\ (k + 1) - 1 = k
    BY <1>3
  <2>2. PICK x, y, w : x = f[k] /\ y = f[k + 1] /\ w = q[k + 1]
    OBVIOUS
  <2>3. y = IF w.el = el THEN Run(x, w) ELSE x
    BY <1>4, <2>1, <2>2
  <2>4. w.el = el => w.call[1] = "shown"
    BY <1>3, <2>1, <2>2
  <2>5. w.call[1] = "shown" => Run(x, w) = x
    BY DEF Run
  <2>6. y = x
    BY <2>3, <2>4, <2>5
  <2>7. QED
    BY <1>6, <2>1, <2>2, <2>6
<1> HIDE DEF K
<1>7. 0..Len(q) \subseteq K
  BY <1>3, <1>5, <1>6, UpTo
<1>8. QED
  BY <1>2, <1>3, <1>4, <1>7 DEF K

\* What waits on one element is serious, or it is not.
LEMMA SeriousOn ==
  ASSUME NEW w \in Wait, Fit(w)
  PROVE  /\ \A b \in Nat : w.el = BackdropEl(b) => Serious(w)
         /\ \A m \in Dialog : w.el = Element(m) => Serious(w)
         /\ Serious(w) => \A m \in Dialog : w.el # DialogOf(m)
<1>1. w.call \in Name \X Dialog
  BY DEF Wait, Waits, Call
<1>2. w.call[1] \in Name /\ w.call[2] \in Dialog
  BY <1>1
<1>3. CASE w.call[1] = "shown"
  <2>1. w.el = DialogOf(w.call[2])
    BY <1>3 DEF Fit
  <2>2. QED
    BY <1>2, <1>3, <2>1, ElsAre DEF Serious
<1>4. CASE w.call[1] = "hideModal"
  <2>1. w.el = Element(w.call[2])
    BY <1>4 DEF Fit
  <2>2. QED
    BY <1>2, <1>4, <2>1, ElsAre DEF Serious
<1>5. CASE w.call[1] \in {"appear", "remove", "hidden"}
  <2>1. w.el \in {"backdrop"} \X (Nat \ {0})
    BY <1>5 DEF Fit
  <2>2. \A m \in Dialog : w.el # DialogOf(m)
    BY <2>1 DEF DialogOf
  <2>3. QED
    BY <1>5, <2>2 DEF Serious
<1>6. QED
  BY <1>2, <1>3, <1>4, <1>5 DEF Name

LEMMA RunIs ==
  ASSUME NEW s, NEW w, NEW name, NEW m, w.call = <<name, m>>, NEW t, t = Run(s, w)
  PROVE  /\ name = "appear" => t = Appear(s, m)
         /\ name = "hideModal" => t = HideModal(s, m)
         /\ name = "remove" => t = Lifted(s, m)
<1>1. w.call[1] = name /\ w.call[2] = m
  OBVIOUS
<1>2. CASE name = "appear"
  <2>1. t = CallBack(s, m, name)
    BY <1>1, <1>2 DEF Run
  <2>2. QED
    BY <1>2, <2>1 DEF CallBack
<1>3. CASE name = "hideModal"
  BY <1>1, <1>3 DEF Run
<1>4. CASE name = "remove"
  BY <1>1, <1>4 DEF Run, Lifted
<1>5. QED
  BY <1>2, <1>3, <1>4

LEMMA DispatchPhase ==
  ASSUME NEW s, Sound(s), IsDue(s.queue), NEW el, el = s.queue[1].el,
         NEW t, t = Dispatch(s, el, Run), Phased(s)
  PROVE  Phased(t)
<1>1. PICK q, base, r : q = s.queue /\ base = Begun(s, el) /\ r = base.queue
  OBVIOUS
<1>2. /\ Sound(base) /\ base.modal = s.modal /\ base.page = s.page /\ r = WithoutElement(q, el)
  BY <1>1, BegunIs
<1>3. /\ q \in Seq(Wait) /\ Orderly(q) /\ Len(q) \in Nat /\ DOMAIN q = 1..Len(q)
      /\ 1 \in DOMAIN q /\ el = q[1].el
      /\ \A i \in DOMAIN q : q[i] \in Wait /\ Fit(q[i])
  <2>1. q \in Seq(Wait) /\ Orderly(q) /\ q # <<>> /\ Len(q) \in Nat /\ DOMAIN q = 1..Len(q)
    BY <1>1, WaitsAre DEF Sound, Orderly, IsDue
  <2>2. 1 \in DOMAIN q
    BY <2>1
  <2>3. \A i \in DOMAIN q : q[i] \in Wait /\ Fit(q[i])
    BY <2>1, WaitsAre DEF Orderly
  <2>4. QED
    BY <1>1, <2>1, <2>2, <2>3
<1>4. /\ Quiet(q) => Quiet(r)
      /\ \A e, c : One(q, e, c) /\ e = el => Quiet(r)
      /\ \A e, c : One(q, e, c) /\ e # el => One(r, e, c)
      /\ \A b, m : Two(q, b, m) /\ el = BackdropEl(b) => One(r, Element(m), <<"hideModal", m>>)
      /\ \A b, m : Two(q, b, m) /\ el # BackdropEl(b) /\ el # Element(m) => Two(r, b, m)
  BY <1>2, <1>3, WithoutFine
\* An element on which a callback other than shown waits.
<1>5. ASSUME NEW i \in DOMAIN q, Serious(q[1]), q[i].el = el
      PROVE  Serious(q[i])
  <2>1. q[1].call \in Name \X Dialog
    BY <1>3 DEF Wait, Waits, Call
  <2>2. CASE q[1].call[1] = "hideModal"
    <3>1. el = Element(q[1].call[2]) /\ q[1].call[2] \in Dialog
      BY <1>3, <2>1, <2>2 DEF Fit
    <3>2. QED
      BY <1>3, <1>5, <3>1, SeriousOn
  <2>3. CASE q[1].call[1] \in {"appear", "remove", "hidden"}
    <3>1. el \in {"backdrop"} \X (Nat \ {0})
      BY <1>3, <2>3 DEF Fit
    <3>2. PICK b \in Nat : el = BackdropEl(b)
      BY <3>1 DEF BackdropEl
    <3>3. QED
      BY <1>3, <1>5, <3>2, SeriousOn
  <2>4. q[1].call[1] \in {"hideModal", "appear", "remove", "hidden"}
    BY <1>5, <2>1 DEF Serious, Name
  <2>5. QED
    BY <2>2, <2>3, <2>4
\* Only the event shown waits.
<1>6. CASE ~Serious(q[1])
  <2>1. el = DialogOf(q[1].call[2]) /\ q[1].call[2] \in Dialog
    BY <1>3, <1>6 DEF Serious, Fit, Wait, Waits, Call
  <2>2. \A i \in DOMAIN q : q[i].el = el => q[i].call[1] = "shown"
    BY <1>3, <2>1, SeriousOn DEF Serious
  <2>3. t = base
    BY <1>1, <2>2, DispatchShown
  <2>4. /\ \A m \in Dialog : el # Element(m)
        /\ \A b \in Nat : el # BackdropEl(b)
    BY <2>1, ElsAre
  <2>5. SameQueue(q, r)
    BY <1>4, <2>4 DEF SameQueue
  <2>6. \A n \in Dialog : SameObject(s.modal[n], base.modal[n])
    BY <1>2 DEF SameObject
  <2>7. Phased(s) => Phased(base)
    BY <1>1, <1>2, <2>5, <2>6, PhasesKept
  <2>8. QED
    BY <2>3, <2>7
<1>7. ASSUME Serious(q[1]), \A i \in DOMAIN q : q[i].el = el => i = 1
      PROVE  t = Run(base, q[1])
  <2>1. \A i \in DOMAIN q : (q[i].el = el) <=> (i = 1)
    BY <1>3, <1>7
  <2>2. QED
    BY <1>1, <1>3, <2>1, DispatchOne, ZenonT(60)
<1>8. ASSUME NEW e, NEW c, One(q, e, c), Serious(q[1])
      PROVE  q[1].el = e /\ q[1].call = c /\ t = Run(base, q[1]) /\ Quiet(r)
  <2>1. PICK i \in DOMAIN q : /\ q[i].el = e /\ q[i].call = c
                              /\ \A k \in DOMAIN q : Serious(q[k]) => k = i
    BY <1>8 DEF One
  <2>2. i = 1
    BY <1>3, <1>8, <2>1
  <2>3. \A k \in DOMAIN q : q[k].el = el => k = 1
    BY <1>5, <1>8, <2>1, <2>2
  <2>4. t = Run(base, q[1])
    BY <1>7, <1>8, <2>3
  <2>5. QED
    BY <1>3, <1>4, <1>8, <2>1, <2>2, <2>4
<1>9. ASSUME Quiet(q), Serious(q[1])
      PROVE  FALSE
  BY <1>3, <1>9 DEF Quiet
<1>10. \A m \in Dialog : Own(s, m) => Own(base, m)
  BY <1>2 DEF Own, Idle
<1>11. CASE Serious(q[1])
  <2>1. CASE Free(s)
    BY <1>1, <1>9, <1>11, <2>1 DEF Free
  <2>2. ASSUME NEW m \in Dialog, ComesUp(s, m)
        PROVE  IsUp(t, m)
    <3>1. One(q, BackdropEl(s.modal[m].backdrop), <<"appear", m>>)
      BY <1>1, <2>2 DEF ComesUp
    <3>2. q[1].call = <<"appear", m>> /\ t = Run(base, q[1]) /\ Quiet(r)
      BY <1>8, <1>11, <3>1
    <3>3. t = Appear(base, m)
      BY <3>2, RunIs
    <3>4. Own(base, m) /\ base.modal[m].isShown /\ m \in base.page.resize /\ Quiet(base.queue)
      BY <1>1, <1>2, <1>10, <2>2, <3>2 DEF ComesUp
    <3>5. base.modal[m].isShown /\ m \in base.page.resize /\ Quiet(base.queue) => IsUp(t, m)
      BY <1>2, <3>3, <3>4, AppearPhase
    <3>6. QED
      BY <3>4, <3>5
  <2>3. ASSUME NEW m \in Dialog, IsUp(s, m)
        PROVE  FALSE
    BY <1>1, <1>9, <1>11, <2>3 DEF IsUp
  <2>4. ASSUME NEW m \in Dialog, CutShort(s, m)
        PROVE  GoesDown(t, m)
    <3>1. PICK b : b = s.modal[m].backdrop
      OBVIOUS
    <3>2. b \in Nat
      BY <3>1, SoundAre
    <3>3. Two(q, b, m)
      BY <1>1, <2>4, <3>1 DEF CutShort
    <3>4. PICK i, j \in DOMAIN q :
                /\ i < j
                /\ q[i].el = BackdropEl(b) /\ q[i].call = <<"appear", m>>
                /\ q[j].el = Element(m) /\ q[j].call = <<"hideModal", m>>
                /\ \A k \in DOMAIN q : Serious(q[k]) => k = i \/ k = j
      BY <3>3 DEF Two
    <3>5. i = 1
      <4>1. 1 = i \/ 1 = j
        BY <1>3, <1>11, <3>4
      <4>2. QED
        BY <1>3, <3>4, <4>1
    <3>6. el = BackdropEl(b) /\ q[j].el # el
      BY <1>3, <3>2, <3>4, <3>5, ElsAre
    <3>7. \A k \in DOMAIN q : q[k].el = el => k = 1
      BY <1>5, <1>11, <3>4, <3>5, <3>6
    <3>8. t = Run(base, q[1]) /\ q[1].call = <<"appear", m>>
      BY <1>7, <1>11, <3>4, <3>5, <3>7
    <3>9. t = Appear(base, m)
      BY <3>8, RunIs
    <3>10. One(r, Element(m), <<"hideModal", m>>)
      BY <1>4, <3>3, <3>6
    <3>11. /\ Own(base, m) /\ ~base.modal[m].isShown /\ m \in Fading
           /\ One(base.queue, Element(m), <<"hideModal", m>>)
      BY <1>1, <1>2, <1>10, <2>4, <3>10 DEF CutShort, Veiled
    <3>12. ~base.modal[m].isShown /\ m \in Fading /\ One(base.queue, Element(m), <<"hideModal", m>>) =>
             GoesDown(t, m)
      BY <1>2, <3>9, <3>11, AppearPhase
    <3>13. QED
      BY <3>11, <3>12
  <2>5. ASSUME NEW m \in Dialog, GoesDown(s, m)
        PROVE  Lifting(t, m) \/ Free(t)
    <3>1. One(q, Element(m), <<"hideModal", m>>)
      BY <1>1, <2>5 DEF GoesDown
    <3>2. q[1].call = <<"hideModal", m>> /\ t = Run(base, q[1]) /\ Quiet(r)
      BY <1>8, <1>11, <3>1
    <3>3. t = HideModal(base, m)
      BY <3>2, RunIs
    <3>4. Own(base, m) /\ ~base.modal[m].isShown /\ Quiet(base.queue)
      BY <1>1, <1>2, <1>10, <2>5, <3>2 DEF GoesDown
    <3>5. QED
      BY <1>2, <3>3, <3>4, HideModalPhase
  <2>6. ASSUME NEW m \in Dialog, Lifting(s, m)
        PROVE  Free(t)
    <3>1. One(q, BackdropEl(s.modal[m].backdrop), <<"remove", m>>)
      BY <1>1, <2>6 DEF Lifting
    <3>2. q[1].call = <<"remove", m>> /\ t = Run(base, q[1]) /\ Quiet(r)
      BY <1>8, <1>11, <3>1
    <3>3. t = Lifted(base, m)
      BY <3>2, RunIs
    <3>4. Own(base, m) /\ ~base.modal[m].isShown /\ ~base.modal[m].displayed /\ Quiet(base.queue)
      BY <1>1, <1>2, <1>10, <2>6, <3>2 DEF Lifting
    <3>5. QED
      BY <1>2, <3>3, <3>4, LiftedPhase
  <2>7. QED
    BY <2>1, <2>2, <2>3, <2>4, <2>5, <2>6 DEF Phased
<1>12. QED
  BY <1>6, <1>11

-----------------------------------------------------------------------------
(* The modals, from call to call *)

\* Who loses the restorers that wait for hidden has given the focus back.
Refocused(s, t) ==
  \A m \in Dialog : s.modal[m].onHidden # <<>> /\ t.modal[m].onHidden = <<>> /\ s.modal[m].opener # None
                      => t.page.focus = s.modal[m].opener

\* What a handler does to a modal before it shows or hides it.
Attached(s, r, m) ==
  /\ Sound(r) /\ Alone(s, r, m) /\ SameObject(s.modal[m], r.modal[m])
  /\ r.modal[m].opener = s.modal[m].opener /\ r.modal[m].onHidden = s.modal[m].onHidden
  /\ r.page = s.page /\ r.queue = s.queue

LEMMA AttachedPhases ==
  ASSUME NEW s, Sound(s), NEW m \in Dialog, NEW r, Attached(s, r, m)
  PROVE  /\ Free(s) => Free(r)
         /\ ComesUp(s, m) => ComesUp(r, m)
         /\ IsUp(s, m) => IsUp(r, m)
         /\ Phased(s) => Phased(r)
<1>1. \A n \in Dialog : SameObject(s.modal[n], r.modal[n])
  BY DEF Attached, Alone, SameObject
<1>2. r.page = s.page /\ SameQueue(s.queue, r.queue)
  BY DEF Attached, SameQueue
<1>3. QED
  BY <1>1, <1>2, PhasesKept

\* The modals that are shown, when one is shown or hidden.
LEMMA ShownAre ==
  ASSUME NEW s, NEW m \in Dialog, NEW t, Alone(s, t, m), IsFiniteSet(Shown(s))
  PROVE  /\ IsFiniteSet(Shown(t)) /\ Cardinality(Shown(s)) \in Nat /\ Cardinality(Shown(t)) \in Nat
         /\ t.modal[m].isShown = s.modal[m].isShown => Shown(t) = Shown(s)
         /\ ~s.modal[m].isShown /\ t.modal[m].isShown =>
              Cardinality(Shown(t)) = Cardinality(Shown(s)) + 1
         /\ s.modal[m].isShown /\ ~t.modal[m].isShown =>
              Cardinality(Shown(t)) + 1 = Cardinality(Shown(s))
<1>1. PICK S, T : S = Shown(s) /\ T = Shown(t)
  OBVIOUS
<1>2. IsFiniteSet(S) /\ Cardinality(S) \in Nat
  BY <1>1, FS_CardinalityType
<1>3. \A n \in Dialog : n = m \/ (n \in T <=> n \in S)
  BY <1>1 DEF Shown, Alone
<1>4. /\ S \in SUBSET Dialog /\ T \in SUBSET Dialog
      /\ m \in S <=> s.modal[m].isShown
      /\ m \in T <=> t.modal[m].isShown
  BY <1>1 DEF Shown
<1>5. CASE m \in S <=> m \in T
  <2>1. T = S
    BY <1>3, <1>4, <1>5
  <2>2. QED
    BY <1>1, <1>2, <1>4, <1>5, <2>1
<1>6. CASE m \notin S /\ m \in T
  <2>1. T = S \cup {m}
    BY <1>3, <1>4, <1>6
  <2>2. IsFiniteSet(T) /\ Cardinality(T) = Cardinality(S) + 1
    BY <1>2, <1>6, <2>1, FS_AddElement
  <2>3. QED
    BY <1>1, <1>2, <1>4, <1>6, <2>2
<1>7. CASE m \in S /\ m \notin T
  <2>1. T = S \ {m}
    BY <1>3, <1>4, <1>7
  <2>2. IsFiniteSet(T) /\ Cardinality(T) = Cardinality(S) - 1
    BY <1>2, <1>7, <2>1, FS_RemoveElement
  <2>3. Cardinality(T) \in Nat
    BY <2>2, FS_CardinalityType
  <2>4. QED
    BY <1>1, <1>2, <1>4, <1>7, <2>2, <2>3
<1>8. QED
  BY <1>5, <1>6, <1>7

LEMMA SpentIs ==
  ASSUME NEW s, Sound(s)
  PROVE  Spent(s) = Cost(s) + Cardinality(Shown(s)) /\ Cost(s) \in Nat
BY CostIs DEF Spent, Cost

\* The page of a modal that is shown is its own.
LEMMA ShownPhase ==
  ASSUME NEW s, Phased(s)
  PROVE  /\ \A m \in Dialog : s.modal[m].isShown => ComesUp(s, m) \/ IsUp(s, m)
         /\ ~s.page.modalOpen => Free(s)
<1>1. \A m, n \in Dialog : Own(s, n) /\ s.modal[m].isShown => m = n
  BY DEF Own, Idle
<1>2. \A m \in Dialog : Free(s) => ~s.modal[m].isShown
  BY DEF Free, Idle
<1>3. \A n \in Dialog : CutShort(s, n) \/ GoesDown(s, n) \/ Lifting(s, n) => Own(s, n) /\ ~s.modal[n].isShown
  BY DEF CutShort, GoesDown, Lifting
<1>4. \A n \in Dialog : ComesUp(s, n) \/ IsUp(s, n) => Own(s, n)
  BY DEF ComesUp, IsUp
<1>5. \A n \in Dialog : Own(s, n) => s.page.modalOpen
  BY DEF Own
<1>6. QED
  BY <1>1, <1>2, <1>3, <1>4, <1>5 DEF Phased

LEMMA AttachedKeeps ==
  ASSUME NEW s, Steady(s), NEW m \in Dialog, NEW t, Attached(s, t, m),
         t.modal[m].onShow = s.modal[m].onShow
  PROVE  Steady(t) /\ Refocused(s, t)
<1>1. Sound(s) /\ Sound(t) /\ Alone(s, t, m) /\ t.page = s.page /\ t.queue = s.queue
  BY DEF Steady, Attached
<1>2. /\ t.modal[m].isShown = s.modal[m].isShown /\ t.modal[m].opener = s.modal[m].opener
      /\ t.modal[m].onHidden = s.modal[m].onHidden /\ t.modal[m].onShow = s.modal[m].onShow
  BY DEF Attached, SameObject
<1>3. Shown(t) = Shown(s)
  BY <1>1, <1>2, ShownAre DEF Steady, Thrifty
<1>4. Thrifty(t) /\ Locked(t)
  BY <1>1, <1>3 DEF Steady, Thrifty, Spent, Locked
<1>5. Restores(t)
  BY <1>1, <1>2 DEF Steady, Restores, Alone
<1>6. ~t.page.overlapped => Phased(t)
  BY <1>1, AttachedPhases DEF Steady
<1>7. Refocused(s, t)
  BY <1>1, <1>2 DEF Refocused, Alone
<1>8. QED
  BY <1>1, <1>4, <1>5, <1>6, <1>7 DEF Steady

\* A modal that is not shown is shown.
LEMMA ShowKeeps ==
  ASSUME NEW s, Steady(s), NEW m \in Dialog, NEW r, Attached(s, r, m), NEW trigger \in Trigger \cup {None},
         trigger # None => Last(r.modal[m].onHidden \o r.modal[m].onShow) = trigger,
         ~s.modal[m].isShown, s.page.shows < MaxShows, NEW t, t = ShowOf(r, m, trigger)
  PROVE  Steady(t) /\ Refocused(s, t)
<1>1. /\ Sound(s) /\ Sound(r) /\ Alone(s, r, m) /\ r.page = s.page /\ r.queue = s.queue
      /\ ~r.modal[m].isShown /\ r.modal[m].onHidden = s.modal[m].onHidden
  BY DEF Steady, Attached, SameObject
<1>2. /\ Sound(t) /\ Alone(r, t, m)
      /\ t.modal[m].isShown /\ t.modal[m].opener = trigger
      /\ t.modal[m].onHidden = r.modal[m].onHidden \o r.modal[m].onShow
      /\ t.modal[m].onShow = <<>>
      /\ t.page.shows = r.page.shows + 1
      /\ (t.page.overlapped <=> r.page.overlapped \/ r.page.modalOpen)
      /\ Cost(t) <= Cost(r) + 1
      /\ Free(r) => ComesUp(t, m) \/ IsUp(t, m)
  <2>1. Sound(r) /\ ~r.modal[m].isShown /\ t = ShowOf(r, m, trigger)
    BY <1>1
  <2>2. QED
    BY <2>1, ShowOfFine, ZenonT(60)
<1>3. Alone(s, t, m)
  BY <1>1, <1>2 DEF Alone
<1>4. s.page.shows \in Nat /\ MaxShows \in Nat
  BY <1>1, SoundAre, BoundsAssumption
<1>5. Thrifty(t)
  <2>1. /\ IsFiniteSet(Shown(t)) /\ Cardinality(Shown(s)) \in Nat /\ Cardinality(Shown(t)) \in Nat
        /\ Cardinality(Shown(t)) = Cardinality(Shown(s)) + 1
    BY <1>2, <1>3, ShownAre DEF Steady, Thrifty
  <2>2. Cost(r) = Cost(s)
    BY <1>1 DEF Cost
  <2>3. /\ Spent(t) = Cost(t) + Cardinality(Shown(t)) /\ Cost(t) \in Nat
        /\ Spent(s) = Cost(s) + Cardinality(Shown(s)) /\ Cost(s) \in Nat
    BY <1>1, <1>2, SpentIs
  <2>4. Spent(s) <= 2 * s.page.shows
    BY DEF Steady, Thrifty
  <2>5. PICK before, after, cost, more, shown, shows :
          /\ before = Cost(s) /\ after = Cost(t) /\ shown = Cardinality(Shown(s))
          /\ more = Cardinality(Shown(t)) /\ shows = s.page.shows /\ cost = Spent(t)
    OBVIOUS
  <2>6. /\ before \in Nat /\ after \in Nat /\ shown \in Nat /\ shows \in Nat
        /\ after <= before + 1 /\ more = shown + 1 /\ cost = after + more
        /\ before + shown <= 2 * shows
    BY <1>2, <1>4, <2>1, <2>2, <2>3, <2>4, <2>5
  <2>7. cost <= 2 * (shows + 1)
    BY <2>6
  <2>8. t.page.shows = shows + 1
    BY <1>1, <1>2, <2>5
  <2>9. Spent(t) <= 2 * t.page.shows
    BY <2>5, <2>7, <2>8
  <2>10. QED
    BY <2>1, <2>9 DEF Thrifty
<1>6. Locked(t)
  BY <1>2 DEF Locked, Shown
<1>7. Restores(t)
  <2>1. ASSUME NEW n \in Dialog, t.modal[n].opener # None
        PROVE  /\ t.modal[n].isShown => t.modal[n].onShow = <<>>
               /\ t.modal[n].onHidden # <<>> => Last(t.modal[n].onHidden) = t.modal[n].opener
    <3>1. CASE n = m
      BY <1>2, <2>1, <3>1
    <3>2. CASE n # m
      <4>1. t.modal[n] = s.modal[n]
        BY <1>3, <3>2 DEF Alone
      <4>2. QED
        BY <2>1, <4>1 DEF Steady, Restores
    <3>3. QED
      BY <3>1, <3>2
  <2>2. QED
    BY <2>1 DEF Restores
<1>8. ~t.page.overlapped => Phased(t)
  <2>1. ASSUME ~t.page.overlapped
        PROVE  Phased(t)
    <3>1. ~s.page.overlapped /\ ~s.page.modalOpen
      BY <1>1, <1>2, <2>1
    <3>2. Phased(s)
      BY <3>1 DEF Steady
    <3>3. Free(s)
      BY <3>1, <3>2, ShownPhase
    <3>4. Free(r)
      BY <1>1, <3>3, AttachedPhases
    <3>5. QED
      BY <1>2, <3>4 DEF Phased
  <2>2. QED
    BY <2>1
<1>9. t.page.shows <= MaxShows
  BY <1>1, <1>2, <1>4
<1>10. Refocused(s, t)
  <2>1. s.modal[m].onHidden # <<>> => t.modal[m].onHidden # <<>>
    <3>1. PICK x, y : x = r.modal[m].onHidden /\ y = r.modal[m].onShow
      OBVIOUS
    <3>2. x \in Seq(Trigger) /\ y \in Seq(Trigger)
      BY <1>1, <3>1, SoundAre DEF Object
    <3>3. x # <<>> => x \o y # <<>>
      <4>1. Len(x \o y) = Len(x) + Len(y) /\ Len(x) \in Nat /\ Len(y) \in Nat
        BY <3>2
      <4>2. x # <<>> => Len(x) # 0
        BY <3>2
      <4>3. Len(<<>>) = 0
        OBVIOUS
      <4>4. QED
        BY <4>1, <4>2, <4>3
    <3>4. QED
      BY <1>1, <1>2, <3>1, <3>3
  <2>2. QED
    BY <1>3, <2>1 DEF Refocused, Alone
<1>11. QED
  BY <1>2, <1>5, <1>6, <1>7, <1>8, <1>9, <1>10 DEF Steady

\* A show of a modal that is shown only triggers the event.
LEMMA ShowAgainKeeps ==
  ASSUME NEW s, Steady(s), NEW m \in Dialog, s.modal[m].isShown, NEW t, t = ShowOf(s, m, None)
  PROVE  Steady(t) /\ Refocused(s, t)
<1>1. Sound(s) /\ t = ShowEvent(s, m)
  BY DEF Steady, ShowOf
<1>2. /\ Sound(t) /\ Alone(s, t, m) /\ SameBackdrop(s, t, m) /\ SameDisplay(s, t, m)
      /\ t.modal[m].onHidden = s.modal[m].onHidden \o s.modal[m].onShow
      /\ t.modal[m].onShow = <<>>
      /\ t.modal[m].isShown = s.modal[m].isShown /\ t.modal[m].opener = s.modal[m].opener
      /\ t.modal[m].originalBodyPad = s.modal[m].originalBodyPad
      /\ t.page = s.page /\ t.queue = s.queue
  BY <1>1, ShowEventIs
<1>3. Shown(t) = Shown(s)
  BY <1>2 DEF Shown, Alone
<1>4. Thrifty(t) /\ Locked(t)
  BY <1>2, <1>3 DEF Steady, Thrifty, Spent, Locked
<1>5. PICK x, y : x = s.modal[m].onHidden /\ y = s.modal[m].onShow
  OBVIOUS
<1>6. x \in Seq(Trigger) /\ y \in Seq(Trigger)
  BY <1>1, <1>5, SoundAre DEF Object
<1>7. x # <<>> => x \o y # <<>>
  <2>1. Len(x \o y) = Len(x) + Len(y) /\ Len(x) \in Nat /\ Len(y) \in Nat
    BY <1>6
  <2>2. x # <<>> => Len(x) # 0
    BY <1>6
  <2>3. Len(<<>>) = 0
    OBVIOUS
  <2>4. QED
    BY <2>1, <2>2, <2>3
<1>8. y = <<>> => x \o y = x
  BY <1>6, ConcatEmptySeq
<1>9. Restores(t)
  <2>1. ASSUME NEW n \in Dialog, t.modal[n].opener # None
        PROVE  /\ t.modal[n].isShown => t.modal[n].onShow = <<>>
               /\ t.modal[n].onHidden # <<>> => Last(t.modal[n].onHidden) = t.modal[n].opener
    <3>1. CASE n = m
      <4>1. s.modal[m].opener # None
        BY <1>2, <2>1, <3>1
      <4>2. /\ y = <<>>
            /\ x # <<>> => Last(x) = s.modal[m].opener
        BY <1>5, <4>1 DEF Steady, Restores
      <4>3. t.modal[m].onHidden = x
        BY <1>2, <1>5, <1>8, <4>2
      <4>4. QED
        BY <1>2, <3>1, <4>2, <4>3
    <3>2. CASE n # m
      <4>1. t.modal[n] = s.modal[n]
        BY <1>2, <3>2 DEF Alone
      <4>2. QED
        BY <2>1, <4>1 DEF Steady, Restores
    <3>3. QED
      BY <3>1, <3>2
  <2>2. QED
    BY <2>1 DEF Restores
<1>10. ~t.page.overlapped => Phased(t)
  <2>1. \A n \in Dialog : SameObject(s.modal[n], t.modal[n])
    <3>1. SameObject(s.modal[m], t.modal[m])
      BY <1>2 DEF SameObject, SameBackdrop, SameDisplay
    <3>2. QED
      BY <1>2, <3>1 DEF Alone, SameObject
  <2>2. t.page = s.page /\ SameQueue(s.queue, t.queue)
    BY <1>2 DEF SameQueue
  <2>3. Phased(s) => Phased(t)
    BY <1>1, <2>1, <2>2, PhasesKept
  <2>4. QED
    BY <1>2, <2>3 DEF Steady
<1>11. Refocused(s, t)
  BY <1>2, <1>5, <1>7 DEF Refocused, Alone
<1>12. t.page.shows <= MaxShows
  BY <1>2 DEF Steady
<1>13. QED
  BY <1>2, <1>4, <1>9, <1>10, <1>11, <1>12 DEF Steady

\* A modal gives the focus back: the restorers that waited for hidden are gone.
LEMMA FocusGivenBack ==
  ASSUME NEW s, Restores(s), NEW m \in Dialog, NEW t, Alone(s, t, m), FocusKept(s, t, m),
         t.modal[m].opener = s.modal[m].opener
  PROVE  /\ Refocused(s, t)
         /\ t.modal[m].opener # None /\ t.modal[m].onHidden # <<>> =>
              Last(t.modal[m].onHidden) = t.modal[m].opener
<1>1. CASE SameFocus(s, t, m)
  BY <1>1 DEF SameFocus, Refocused, Restores, Alone
<1>2. CASE /\ t.modal[m].onHidden = <<>>
           /\ t.page.focus = IF s.modal[m].onHidden = <<>> THEN s.page.focus
                             ELSE Last(s.modal[m].onHidden)
  <2>1. s.modal[m].onHidden # <<>> /\ s.modal[m].opener # None => t.page.focus = s.modal[m].opener
    BY <1>2 DEF Restores
  <2>2. QED
    BY <1>2, <2>1 DEF Refocused, Alone
<1>3. QED
  BY <1>1, <1>2 DEF FocusKept

\* A modal that is shown is hidden.
LEMMA HideKeeps ==
  ASSUME NEW s, Steady(s), NEW m \in Dialog, NEW r, Attached(s, r, m),
         s.modal[m].isShown, NEW d \in Duration, NEW t, t = HideOf(r, m, d)
  PROVE  Steady(t) /\ Refocused(s, t)
<1>1. /\ Sound(s) /\ Sound(r) /\ Alone(s, r, m) /\ r.page = s.page /\ r.queue = s.queue
      /\ r.modal[m].isShown /\ r.modal[m].onHidden = s.modal[m].onHidden
      /\ r.modal[m].opener = s.modal[m].opener
  BY DEF Steady, Attached, SameObject
<1>2. /\ Sound(t) /\ Alone(r, t, m) /\ FocusKept(r, t, m)
      /\ ~t.modal[m].isShown /\ t.modal[m].opener = r.modal[m].opener
      /\ t.modal[m].onShow = r.modal[m].onShow
      /\ t.page.shows = r.page.shows /\ (t.page.overlapped <=> r.page.overlapped)
      /\ Cost(t) <= Cost(r) + 1
      /\ t.page.modalOpen => Pending(t.queue)
      /\ ComesUp(r, m) => CutShort(t, m)
      /\ IsUp(r, m) => GoesDown(t, m) \/ Free(t)
  <2>1. Sound(r) /\ r.modal[m].isShown /\ t = HideOf(r, m, d)
    BY <1>1
  <2>2. QED
    BY <2>1, HideOfFine, ZenonT(60)
<1>3. Alone(s, t, m) /\ FocusKept(s, t, m)
  <2>1. Alone(s, t, m)
    BY <1>1, <1>2 DEF Alone
  <2>2. FocusKept(s, t, m)
    BY <1>1, <1>2 DEF FocusKept, SameFocus
  <2>3. QED
    BY <2>1, <2>2
<1>4. Thrifty(t)
  <2>1. /\ IsFiniteSet(Shown(t)) /\ Cardinality(Shown(s)) \in Nat /\ Cardinality(Shown(t)) \in Nat
        /\ Cardinality(Shown(t)) + 1 = Cardinality(Shown(s))
    BY <1>2, <1>3, ShownAre DEF Steady, Thrifty
  <2>2. Cost(r) = Cost(s)
    BY <1>1 DEF Cost
  <2>3. /\ Spent(t) = Cost(t) + Cardinality(Shown(t)) /\ Cost(t) \in Nat
        /\ Spent(s) = Cost(s) + Cardinality(Shown(s)) /\ Cost(s) \in Nat
    BY <1>1, <1>2, SpentIs
  <2>4. Spent(s) <= 2 * s.page.shows /\ s.page.shows \in Nat
    BY <1>1, SoundAre DEF Steady, Thrifty
  <2>5. Spent(t) <= 2 * t.page.shows
    BY <1>1, <1>2, <2>1, <2>2, <2>3, <2>4
  <2>6. QED
    BY <2>1, <2>5 DEF Thrifty
<1>5. Locked(t)
  BY <1>2 DEF Locked
<1>6. /\ Refocused(s, t)
      /\ t.modal[m].opener # None /\ t.modal[m].onHidden # <<>> =>
           Last(t.modal[m].onHidden) = t.modal[m].opener
  BY <1>1, <1>2, <1>3, FocusGivenBack DEF Steady
<1>7. Restores(t)
  <2>1. \A n \in Dialog : n # m => t.modal[n] = s.modal[n]
    BY <1>3 DEF Alone
  <2>2. QED
    BY <1>2, <1>6, <2>1 DEF Steady, Restores
<1>8. ~t.page.overlapped => Phased(t)
  <2>1. ASSUME ~t.page.overlapped
        PROVE  Phased(t)
    <3>1. Phased(s)
      BY <1>1, <1>2, <2>1 DEF Steady
    <3>2. ComesUp(s, m) \/ IsUp(s, m)
      BY <3>1, ShownPhase
    <3>3. ComesUp(r, m) \/ IsUp(r, m)
      BY <1>1, <3>2, AttachedPhases
    <3>4. QED
      BY <1>2, <3>3 DEF Phased
  <2>2. QED
    BY <2>1
<1>9. t.page.shows <= MaxShows
  BY <1>1, <1>2 DEF Steady
<1>10. QED
  BY <1>2, <1>4, <1>5, <1>6, <1>7, <1>8, <1>9 DEF Steady

\* The transition that is due ends.
LEMMA DispatchKeeps ==
  ASSUME NEW s, Steady(s), IsDue(s.queue), NEW el, el = s.queue[1].el,
         NEW t, t = Dispatch(s, el, Run)
  PROVE  Steady(t) /\ Refocused(s, t)
<1>1. Sound(s) /\ s.queue # <<>> /\ s.queue \in Seq(Wait)
  BY DEF Steady, IsDue, Sound, Orderly
<1>2. 1 \in DOMAIN s.queue
  BY <1>1
<1>3. PICK m : m = s.queue[1].call[2]
  OBVIOUS
<1>4. /\ m \in Dialog /\ Sound(t) /\ Within(s, t, m) /\ FocusKept(s, t, m)
      /\ Cost(t) <= Cost(s)
      /\ s.modal[m].isShown \/ (s.page.modalOpen => Pending(s.queue)) =>
           s.modal[m].isShown \/ (t.page.modalOpen => Pending(t.queue))
  BY <1>1, <1>2, <1>3, DispatchSettles
<1>5. Alone(s, t, m) /\ t.modal[m].isShown = s.modal[m].isShown /\ t.modal[m].opener = s.modal[m].opener
      /\ t.modal[m].onShow = s.modal[m].onShow
      /\ t.page.shows = s.page.shows /\ t.page.overlapped = s.page.overlapped
  BY <1>4 DEF Within
<1>6. Shown(t) = Shown(s) /\ IsFiniteSet(Shown(s)) /\ Cardinality(Shown(s)) \in Nat
  BY <1>4, <1>5, ShownAre DEF Steady, Thrifty
<1>7. Thrifty(t)
  <2>1. /\ Spent(t) = Cost(t) + Cardinality(Shown(t)) /\ Cost(t) \in Nat
        /\ Spent(s) = Cost(s) + Cardinality(Shown(s)) /\ Cost(s) \in Nat
    BY <1>1, <1>4, SpentIs
  <2>2. Spent(s) <= 2 * s.page.shows /\ s.page.shows \in Nat
    BY <1>1, <1>4, SoundAre DEF Steady, Thrifty
  <2>3. Spent(t) <= 2 * t.page.shows
    BY <1>4, <1>5, <1>6, <2>1, <2>2
  <2>4. QED
    BY <1>6, <2>3 DEF Thrifty
<1>8. Locked(t)
  <2>1. CASE Shown(s) # {}
    BY <1>6, <2>1 DEF Locked
  <2>2. CASE Shown(s) = {}
    <3>1. ~s.modal[m].isShown
      BY <1>4, <2>2 DEF Shown
    <3>2. s.page.modalOpen => Pending(s.queue)
      BY <2>2 DEF Steady, Locked
    <3>3. QED
      BY <1>4, <3>1, <3>2 DEF Locked
  <2>3. QED
    BY <2>1, <2>2
<1>9. /\ Refocused(s, t)
      /\ t.modal[m].opener # None /\ t.modal[m].onHidden # <<>> =>
           Last(t.modal[m].onHidden) = t.modal[m].opener
  BY <1>4, <1>5, FocusGivenBack DEF Steady
<1>10. Restores(t)
  <2>1. \A n \in Dialog : n # m => t.modal[n] = s.modal[n]
    BY <1>5 DEF Alone
  <2>2. ASSUME NEW n \in Dialog, t.modal[n].opener # None
        PROVE  /\ t.modal[n].isShown => t.modal[n].onShow = <<>>
               /\ t.modal[n].onHidden # <<>> => Last(t.modal[n].onHidden) = t.modal[n].opener
    <3>1. Restores(s)
      BY DEF Steady
    <3>2. CASE n = m
      BY <1>4, <1>5, <1>9, <2>2, <3>1, <3>2 DEF Restores
    <3>3. CASE n # m
      BY <2>1, <2>2, <3>1, <3>3 DEF Restores
    <3>4. QED
      BY <3>2, <3>3
  <2>3. QED
    BY <2>2 DEF Restores
<1>11. ~t.page.overlapped => Phased(t)
  <2>1. Phased(s) => Phased(t)
    BY <1>1, DispatchPhase
  <2>2. QED
    BY <1>5, <2>1 DEF Steady
<1>12. t.page.shows <= MaxShows
  BY <1>5 DEF Steady
<1>13. QED
  BY <1>4, <1>7, <1>8, <1>9, <1>10, <1>11, <1>12 DEF Steady

\* Time goes by.
LEMMA TickKeeps ==
  ASSUME NEW s, Steady(s), s.queue # <<>>, ~IsDue(s.queue),
         NEW t, t = [modal |-> s.modal, page |-> s.page, queue |-> t.queue],
         t.queue = TimePasses(s.queue)
  PROVE  Steady(t) /\ Refocused(s, t)
<1>1. PICK q, r : q = s.queue /\ r = t.queue
  OBVIOUS
<1>2. Sound(s) /\ Orderly(q) /\ q # <<>> /\ ~IsDue(q) /\ r = TimePasses(q)
  BY <1>1 DEF Steady, Sound
<1>3. /\ Orderly(r) /\ DOMAIN r = DOMAIN q
      /\ \A i \in DOMAIN q : r[i].el = q[i].el /\ r[i].call = q[i].call
      /\ Hiding(r) = Hiding(q)
      /\ Quiet(q) => Quiet(r)
      /\ \A e, c : One(q, e, c) => One(r, e, c)
      /\ \A b, m : Two(q, b, m) => Two(r, b, m)
  BY <1>2, PassesFine
<1>4. Sound(t) /\ t.modal = s.modal /\ t.page = s.page
  <2>1. \A j \in DOMAIN t.queue : \E i \in DOMAIN s.queue :
          t.queue[j].el = s.queue[i].el /\ t.queue[j].call = s.queue[i].call
    BY <1>1, <1>3
  <2>2. Orderly(t.queue)
    BY <1>1, <1>3
  <2>3. QED
    BY <1>2, <2>1, <2>2, SoundQueue
<1>5. Shown(t) = Shown(s) /\ Spent(t) = Spent(s)
  BY <1>1, <1>3, <1>4 DEF Shown, Spent
<1>6. Pending(s.queue) => Pending(t.queue)
  BY <1>1, <1>3 DEF Pending, Lifts
<1>7. Thrifty(t) /\ Locked(t) /\ Restores(t) /\ Refocused(s, t)
  BY <1>4, <1>5, <1>6 DEF Steady, Thrifty, Locked, Restores, Refocused
<1>8. ~t.page.overlapped => Phased(t)
  <2>1. \A n \in Dialog : SameObject(s.modal[n], t.modal[n])
    BY <1>4 DEF SameObject
  <2>2. SameQueue(s.queue, t.queue)
    BY <1>1, <1>3 DEF SameQueue
  <2>3. Phased(s) => Phased(t)
    BY <1>2, <1>4, <2>1, <2>2, PhasesKept
  <2>4. QED
    BY <1>4, <2>3 DEF Steady
<1>9. QED
  BY <1>4, <1>7, <1>8 DEF Steady

-----------------------------------------------------------------------------
(* The specification *)

LEMMA SeqWithin ==
  ASSUME NEW S, NEW T, NEW q \in Seq(S), \A i \in 1..Len(q) : q[i] \in T
  PROVE  q \in Seq(T)
<1>1. Len(q) \in Nat /\ q = [i \in 1..Len(q) |-> q[i]]
  OBVIOUS
<1>2. q \in [1..Len(q) -> T]
  BY <1>1
<1>3. QED
  BY <1>1, <1>2, SeqDef

\* The type of the states, for some number of shows.
LEMMA SteadyTypes ==
  ASSUME ModalInv
  PROVE  TypeOK
<1>1. /\ Sound(Now) /\ Now.modal = modal /\ Now.page = page /\ Now.queue = queue
      /\ page.shows <= MaxShows /\ Thrifty(Now)
  BY DEF ModalInv, Steady, Now
<1>2. /\ modal \in [Dialog -> Object] /\ page \in Page /\ queue \in Seq(Wait)
      /\ Owned(Now) /\ Bounded(Now)
  BY <1>1, StateIs DEF Sound
<1>3. MaxShows \in Nat /\ page.shows \in Nat /\ page.made \in Nat /\ page.bodyPad \in Nat
  BY <1>2, BoundsAssumption DEF Page
<1>4. page.made <= MaxShows * 2
  <2>1. IsFiniteSet(Shown(Now)) /\ Spent(Now) <= 2 * page.shows
    BY <1>1 DEF Thrifty
  <2>2. Cardinality(Shown(Now)) \in Nat /\ Cardinality(Hiding(queue)) \in Nat
    BY <1>2, <2>1, FS_CardinalityType, HidingFinite
  <2>3. Spent(Now) = page.made + Cardinality(Hiding(queue)) + Cardinality(Shown(Now))
    BY <1>1 DEF Spent
  <2>4. QED
    BY <1>1, <1>3, <2>1, <2>2, <2>3
<1>5. modal \in [Dialog ->
       [isShown : BOOLEAN, backdrop : BackdropId \cup {0}, originalBodyPad : 0..MaxShows,
        ignoreBackdropClick : BOOLEAN, pressed : BOOLEAN, clickers : 0..MaxShows * 2,
        displayed : BOOLEAN, in : BOOLEAN, opener : Trigger \cup {None},
        onShow : Seq(Trigger), onHidden : Seq(Trigger)]]
  <2>1. ASSUME NEW m \in Dialog
        PROVE  modal[m] \in
          [isShown : BOOLEAN, backdrop : BackdropId \cup {0}, originalBodyPad : 0..MaxShows,
           ignoreBackdropClick : BOOLEAN, pressed : BOOLEAN, clickers : 0..MaxShows * 2,
           displayed : BOOLEAN, in : BOOLEAN, opener : Trigger \cup {None},
           onShow : Seq(Trigger), onHidden : Seq(Trigger)]
    <3>1. modal[m] \in Object
      BY <1>2
    <3>2. /\ modal[m].backdrop <= page.made /\ modal[m].clickers <= page.made
          /\ modal[m].originalBodyPad <= page.shows
      BY <1>1, <1>2 DEF Owned, Bounded
    <3>3. /\ modal[m].backdrop \in BackdropId \cup {0} /\ modal[m].clickers \in 0..MaxShows * 2
          /\ modal[m].originalBodyPad \in 0..MaxShows
      BY <1>1, <1>3, <1>4, <3>1, <3>2, SMTT(30) DEF Object, BackdropId
    <3>4. QED
      BY <3>1, <3>3 DEF Object
  <2>2. QED
    BY <1>2, <2>1
<1>6. page \in
       [backdrops : SUBSET BackdropId, made : 0..MaxShows * 2, modalOpen : BOOLEAN,
        bodyPad : 0..MaxShows, focusin : Dialog \cup {None}, resize : SUBSET Dialog,
        focus : Trigger \cup {None}, shows : 0..MaxShows, overlapped : BOOLEAN]
  <2>1. \A b \in page.backdrops : b <= page.made
    BY <1>1, <1>2 DEF Bounded
  <2>2. page.backdrops \in SUBSET BackdropId
    BY <1>2, <1>3, <1>4, <2>1 DEF Page, BackdropId
  <2>3. page.bodyPad \in 0..MaxShows /\ page.shows \in 0..MaxShows /\ page.made \in 0..MaxShows * 2
    BY <1>1, <1>2, <1>3, <1>4 DEF Bounded
  <2>4. QED
    BY <1>2, <2>2, <2>3 DEF Page
<1>7. queue \in Seq([el : ({"element", "dialog"} \X Dialog) \cup ({"backdrop"} \X BackdropId),
                     call : {"appear", "shown", "hideModal", "remove", "hidden"} \X Dialog,
                     left : 0..2])
  <2>1. Len(queue) \in Nat /\ DOMAIN queue = 1..Len(queue)
    BY <1>2
  <2>2. ASSUME NEW i \in 1..Len(queue)
        PROVE  queue[i] \in
          [el : ({"element", "dialog"} \X Dialog) \cup ({"backdrop"} \X BackdropId),
           call : {"appear", "shown", "hideModal", "remove", "hidden"} \X Dialog,
           left : 0..2]
    <3>1. /\ queue[i] \in Wait /\ queue[i].el \in El /\ queue[i].call \in Call
          /\ queue[i].left \in 0..2
      BY <1>2, WaitsAre
    <3>2. queue[i].el[1] = "backdrop" => queue[i].el[2] <= page.made
      BY <1>1, <1>2, <2>1 DEF Owned
    <3>3. queue[i].el \in ({"element", "dialog"} \X Dialog) \cup ({"backdrop"} \X BackdropId)
      <4>1. CASE queue[i].el \in {"element", "dialog"} \X Dialog
        BY <4>1
      <4>2. CASE queue[i].el \in {"backdrop"} \X (Nat \ {0})
        <5>1. queue[i].el[2] \in BackdropId
          BY <1>3, <1>4, <3>2, <4>2 DEF BackdropId
        <5>2. QED
          BY <4>2, <5>1
      <4>3. QED
        BY <3>1, <4>1, <4>2 DEF El
    <3>4. QED
      BY <3>1, <3>3 DEF Wait, Waits, Call, Name
  <2>3. QED
    BY <1>2, <2>2, SeqWithin
<1>8. QED
  BY <1>5, <1>6, <1>7 DEF TypeOK

LEMMA InitSteady ==
  ASSUME Init
  PROVE  ModalInv
<1>1. PICK s : s = Now
  OBVIOUS
<1>2. s.modal = modal /\ s.page = page /\ s.queue = <<>>
  BY <1>1 DEF Now, Init
<1>3. \A m \in Dialog : modal[m] =
        [isShown |-> FALSE, backdrop |-> 0, originalBodyPad |-> 0,
         ignoreBackdropClick |-> FALSE, pressed |-> FALSE, clickers |-> 0,
         displayed |-> FALSE, in |-> FALSE,
         opener |-> None, onShow |-> <<>>, onHidden |-> <<>>]
  BY DEF Init
<1>4. page = [backdrops |-> {}, made |-> 0, modalOpen |-> FALSE, bodyPad |-> 0,
              focusin |-> None, resize |-> {}, focus |-> None,
              shows |-> 0, overlapped |-> FALSE]
  BY DEF Init
<1>5. s \in State
  <2>1. <<>> \in Seq(Trigger) /\ <<>> \in Seq(Wait)
    OBVIOUS
  <2>2. ASSUME NEW m \in Dialog
        PROVE  modal[m] \in Object
    <3>1. PICK e : e = <<>> /\ e \in Seq(Trigger)
      BY <2>1
    <3>2. modal[m] =
            [isShown |-> FALSE, backdrop |-> 0, originalBodyPad |-> 0,
             ignoreBackdropClick |-> FALSE, pressed |-> FALSE, clickers |-> 0,
             displayed |-> FALSE, in |-> FALSE,
             opener |-> None, onShow |-> e, onHidden |-> e]
      BY <1>3, <3>1
    <3>3. QED
      BY <3>1, <3>2 DEF Object
  <2>3. modal \in [Dialog -> Object]
    BY <2>2 DEF Init
  <2>4. page \in Page
    BY <1>4 DEF Page
  <2>5. QED
    BY <1>1, <1>2, <2>1, <2>3, <2>4 DEF State, Now
<1>6. DOMAIN s.queue = {}
  BY <1>2
<1>7. Orderly(s.queue)
  <2>1. s.queue \in Seq(Wait)
    BY <1>2
  <2>2. QED
    BY <1>6, <2>1 DEF Orderly, Sorted
<1>8. Owned(s) /\ Bounded(s)
  BY <1>2, <1>3, <1>4, <1>6 DEF Owned, Bounded
<1>9. Hiding(s.queue) = {} /\ Shown(s) = {}
  BY <1>2, <1>3, <1>6 DEF Hiding, Shown
<1>10. Thrifty(s)
  <2>1. IsFiniteSet({}) /\ Cardinality({}) = 0
    BY FS_EmptySet
  <2>2. s.page.made = 0 /\ s.page.shows = 0
    BY <1>2, <1>4
  <2>3. QED
    BY <1>9, <2>1, <2>2 DEF Thrifty, Spent
<1>11. Locked(s) /\ Restores(s)
  BY <1>2, <1>3, <1>4 DEF Locked, Restores
<1>12. Free(s)
  BY <1>2, <1>3, <1>4, <1>6 DEF Free, Idle, Quiet
<1>13. s.page.shows <= MaxShows
  BY <1>2, <1>4, BoundsAssumption
<1>14. QED
  BY <1>1, <1>5, <1>7, <1>8, <1>10, <1>11, <1>12, <1>13 DEF ModalInv, Steady, Sound, Phased

LEMMA BecomesIs ==
  ASSUME NEW CONSTANT t, Sound(t), Becomes(t)
  PROVE  Now' = t
BY StateIs DEF Becomes, Now, Sound

\* A step that comes to a steady state keeps the invariant.
LEMMA Comes ==
  ASSUME NEW CONSTANT s, s = Now, NEW CONSTANT t, Steady(t), Refocused(s, t), Becomes(t)
  PROVE  ModalInv' /\ Refocused(Now, Now')
<1>1. Now' = t
  BY BecomesIs DEF Steady
<1>2. QED
  BY <1>1 DEF ModalInv

LEMMA NowAttached ==
  ASSUME NEW CONSTANT s, s = Now, ModalInv
  PROVE  /\ Steady(s) /\ \A m \in Dialog : Attached(s, s, m)
         /\ s.modal = modal /\ s.page = page /\ s.queue = queue /\ s \in State
<1>1. Steady(s) /\ s.modal = modal /\ s.page = page /\ s.queue = queue
  BY DEF ModalInv, Now
<1>2. Sound(s) /\ s \in State
  BY <1>1 DEF Steady, Sound
<1>3. QED
  BY <1>1, <1>2 DEF Attached, Alone, SameObject

LEMMA ShowStep ==
  ASSUME ModalInv, NEW m \in Dialog, Show(m)
  PROVE  ModalInv' /\ Refocused(Now, Now')
<1>1. PICK s : s = Now
  OBVIOUS
<1>2. PICK t : t = ShowOf(s, m, None)
  OBVIOUS
<1>3. Becomes(t) /\ page.shows < MaxShows
  BY <1>1, <1>2 DEF Show
<1>4. Steady(s) /\ Attached(s, s, m) /\ s.page = page
  BY <1>1, NowAttached
<1>5. Steady(t) /\ Refocused(s, t)
  <2>1. CASE s.modal[m].isShown
    BY <1>2, <1>4, <2>1, ShowAgainKeeps
  <2>2. CASE ~s.modal[m].isShown
    <3>1. PICK trigger \in Trigger \cup {None} : trigger = None
      OBVIOUS
    <3>2. /\ trigger # None => Last(s.modal[m].onHidden \o s.modal[m].onShow) = trigger
          /\ t = ShowOf(s, m, trigger) /\ s.page.shows < MaxShows
      BY <1>2, <1>3, <1>4, <3>1
    <3>3. QED
      BY <1>4, <2>2, <3>1, <3>2, ShowKeeps
  <2>3. QED
    BY <2>1, <2>2
<1>6. QED
  BY <1>1, <1>3, <1>5, Comes

LEMMA HideStep ==
  ASSUME ModalInv, NEW m \in Dialog, Hide(m)
  PROVE  ModalInv' /\ Refocused(Now, Now')
<1>1. PICK s : s = Now
  OBVIOUS
<1>2. PICK d \in Duration : Becomes(HideOf(s, m, d))
  BY <1>1 DEF Hide
<1>3. PICK t : t = HideOf(s, m, d)
  OBVIOUS
<1>4. Steady(s) /\ Attached(s, s, m) /\ s.modal = modal
  BY <1>1, NowAttached
<1>5. s.modal[m].isShown
  BY <1>4 DEF Hide
<1>6. Steady(t) /\ Refocused(s, t)
  BY <1>2, <1>3, <1>4, <1>5, HideKeeps
<1>7. Becomes(t)
  BY <1>2, <1>3
<1>8. QED
  BY <1>1, <1>6, <1>7, Comes

\* The restorer of a click waits for the show: when the click shows the modal
\* it is the last to wait for hidden.
LEMMA ClickStep ==
  ASSUME ModalInv, NEW trigger \in Trigger, Click(trigger)
  PROVE  ModalInv' /\ Refocused(Now, Now')
<1>1. PICK s : s = Now
  OBVIOUS
<1>2. PICK m \in Dialog : m = Target[trigger]
  BY DialogAssumption
<1>3. PICK r : r = RestoreFocus(s, trigger)
  OBVIOUS
<1>4. Steady(s) /\ Sound(s) /\ s.modal = modal /\ s.page = page
  BY <1>1, NowAttached DEF Steady
<1>5. /\ Sound(r) /\ Alone(s, r, m) /\ SameBackdrop(s, r, m) /\ SameDisplay(s, r, m) /\ SameFocus(s, r, m)
      /\ r.modal[m].onShow = Append(s.modal[m].onShow, trigger)
      /\ r.modal[m].isShown = s.modal[m].isShown /\ r.modal[m].opener = s.modal[m].opener
      /\ r.modal[m].originalBodyPad = s.modal[m].originalBodyPad
      /\ r.page = s.page /\ r.queue = s.queue
  <2>1. m \in Dialog /\ Target[trigger] = m /\ Sound(s) /\ r = RestoreFocus(s, trigger)
    BY <1>2, <1>3, <1>4
  <2>2. QED
    BY <2>1, RestoreFocusIs
<1>6. Attached(s, r, m)
  BY <1>5 DEF Attached, SameObject, SameBackdrop, SameDisplay, SameFocus
<1>7. CASE s.modal[m].isShown
  <2>1. PICK d \in Duration : Becomes(HideOf(r, m, d))
    BY <1>1, <1>2, <1>3, <1>4, <1>7 DEF Click
  <2>2. PICK t : t = HideOf(r, m, d)
    OBVIOUS
  <2>3. Steady(t) /\ Refocused(s, t)
    BY <1>4, <1>6, <1>7, <2>1, <2>2, HideKeeps
  <2>4. Becomes(t)
    BY <2>1, <2>2
  <2>5. QED
    BY <1>1, <2>3, <2>4, Comes
<1>8. CASE ~s.modal[m].isShown
  <2>1. page.shows < MaxShows /\ Becomes(ShowOf(r, m, trigger))
    BY <1>1, <1>2, <1>3, <1>4, <1>8 DEF Click
  <2>2. PICK t : t = ShowOf(r, m, trigger)
    OBVIOUS
  <2>3. Last(r.modal[m].onHidden \o r.modal[m].onShow) = trigger
    <3>1. PICK x, y, z : x = r.modal[m].onHidden /\ y = s.modal[m].onShow /\ z = r.modal[m].onShow
      OBVIOUS
    <3>2. x \in Seq(Trigger) /\ y \in Seq(Trigger) /\ z = Append(y, trigger)
      BY <1>4, <1>5, <3>1, SoundAre DEF Object
    <3>3. /\ z \in Seq(Trigger) /\ Len(z) = Len(y) + 1 /\ z[Len(z)] = trigger
      BY <3>2
    <3>4. /\ x \o z \in Seq(Trigger) /\ Len(x \o z) = Len(x) + Len(z)
          /\ (x \o z)[Len(x) + Len(z)] = z[Len(z)]
      BY <3>2, <3>3
    <3>5. Last(x \o z) = trigger
      BY <3>3, <3>4 DEF Last
    <3>6. QED
      BY <3>1, <3>5
  <2>4. trigger \in Trigger \cup {None} /\ s.page.shows < MaxShows
    BY <1>4, <2>1
  <2>5. Steady(t) /\ Refocused(s, t)
    BY <1>4, <1>6, <1>8, <2>2, <2>3, <2>4, ShowKeeps
  <2>6. Becomes(t)
    BY <2>1, <2>2
  <2>7. QED
    BY <1>1, <2>5, <2>6, Comes
<1>9. QED
  BY <1>7, <1>8

LEMMA MouseAttached ==
  ASSUME NEW s, Steady(s), NEW m \in Dialog, NEW pressed \in BOOLEAN, NEW ignored \in BOOLEAN,
         NEW t, t = Pressed(s, m, pressed, ignored)
  PROVE  Attached(s, t, m) /\ Steady(t) /\ Refocused(s, t)
<1>1. Sound(s)
  BY DEF Steady
<1>2. /\ Sound(t) /\ Within(s, t, m) /\ SameBackdrop(s, t, m) /\ SameLock(s, t) /\ SameFocus(s, t, m)
      /\ SameDisplay(s, t, m) /\ t.page = s.page /\ t.queue = s.queue
  BY <1>1, PressedIs
<1>3. Attached(s, t, m) /\ t.modal[m].onShow = s.modal[m].onShow
  BY <1>2 DEF Attached, Within, SameBackdrop, SameFocus, SameDisplay, SameObject
<1>4. QED
  BY <1>3, AttachedKeeps

\* What the handlers of the mouse assign.
LEMMA PressedNow ==
  ASSUME NEW CONSTANT s, s = Now, ModalInv, NEW m \in Dialog, NEW CONSTANT pressed, NEW CONSTANT ignored,
         NEW CONSTANT t, t = Pressed(s, m, pressed, ignored)
  PROVE  /\ t.modal = [modal EXCEPT ![m].pressed = pressed, ![m].ignoreBackdropClick = ignored]
         /\ t.page = page /\ t.queue = queue
         /\ modal[m].pressed \in BOOLEAN /\ modal[m].ignoreBackdropClick \in BOOLEAN
<1>1. s.modal = modal /\ s.page = page /\ s.queue = queue /\ s \in State
  BY NowAttached
<1>2. modal \in [Dialog -> Object] /\ modal[m] \in Object
  BY <1>1 DEF State
<1>3. s = [modal |-> modal, page |-> page, queue |-> queue]
  BY DEF Now
<1>4. QED
  BY <1>2, <1>3 DEF Pressed, Object

LEMMA MouseStep ==
  ASSUME ModalInv, NEW m \in Dialog, MouseDown(m) \/ MouseUp(m)
  PROVE  ModalInv' /\ Refocused(Now, Now')
<1>1. PICK s : s = Now
  OBVIOUS
<1>2. Steady(s) /\ s.modal = modal /\ s.page = page /\ s.queue = queue /\ s \in State
  BY <1>1, NowAttached
<1>3. modal \in [Dialog -> Object] /\ modal[m] \in Object
  BY <1>2 DEF State
<1>4. PICK pressed \in BOOLEAN, ignored \in BOOLEAN :
        /\ modal' = [modal EXCEPT ![m].pressed = pressed, ![m].ignoreBackdropClick = ignored]
        /\ page' = page /\ queue' = queue
  <2>1. CASE MouseDown(m)
    <3>1. modal' = [modal EXCEPT ![m].pressed = TRUE,
                                 ![m].ignoreBackdropClick = modal[m].ignoreBackdropClick]
      BY <1>3, <2>1 DEF MouseDown, Object
    <3>2. modal[m].ignoreBackdropClick \in BOOLEAN /\ page' = page /\ queue' = queue
      BY <1>3, <2>1 DEF MouseDown, Object
    <3>3. QED
      BY <3>1, <3>2
  <2>2. CASE MouseUp(m)
    BY <1>3, <2>2 DEF MouseUp, Object
  <2>3. QED
    BY <2>1, <2>2
<1>5. PICK t : t = Pressed(s, m, pressed, ignored)
  OBVIOUS
<1>6. Becomes(t)
  <2>1. /\ t.modal = [modal EXCEPT ![m].pressed = pressed, ![m].ignoreBackdropClick = ignored]
        /\ t.page = page /\ t.queue = queue
    BY <1>1, <1>5, PressedNow
  <2>2. QED
    BY <1>4, <2>1 DEF Becomes
<1>7. Steady(t) /\ Refocused(s, t)
  BY <1>2, <1>4, <1>5, MouseAttached
<1>8. QED
  BY <1>1, <1>6, <1>7, Comes

LEMMA ClickBackdropStep ==
  ASSUME ModalInv, NEW m \in Dialog, ClickBackdrop(m)
  PROVE  ModalInv' /\ Refocused(Now, Now')
<1>1. PICK s : s = Now
  OBVIOUS
<1>2. Steady(s) /\ s.modal = modal /\ s \in State
  BY <1>1, NowAttached
<1>3. s.modal[m] \in Object /\ s.modal \in [Dialog -> Object]
  BY <1>2 DEF State
<1>4. PICK pressed \in BOOLEAN : pressed = s.modal[m].pressed
  BY <1>3 DEF Object
<1>5. PICK r : r = [s EXCEPT !.modal[m].ignoreBackdropClick = FALSE]
  OBVIOUS
<1>6. r = Pressed(s, m, pressed, FALSE)
  BY <1>2, <1>3, <1>4, <1>5 DEF Pressed, Object, State
<1>7. Attached(s, r, m) /\ Steady(r) /\ Refocused(s, r)
  BY <1>2, <1>6, MouseAttached
<1>8. CASE Becomes(r)
  BY <1>1, <1>7, <1>8, Comes
<1>9. CASE \E duration \in Duration : Becomes(HideOf(r, m, duration))
  <2>1. PICK d \in Duration : Becomes(HideOf(r, m, d))
    BY <1>9
  <2>2. PICK t : t = HideOf(r, m, d)
    OBVIOUS
  <2>3. Becomes(t)
    BY <2>1, <2>2
  <2>4. CASE s.modal[m].isShown
    <3>1. Steady(t) /\ Refocused(s, t)
      BY <1>2, <1>7, <2>2, <2>4, HideKeeps
    <3>2. QED
      BY <1>1, <2>3, <3>1, Comes
  <2>5. CASE ~s.modal[m].isShown
    <3>1. ~r.modal[m].isShown
      BY <1>7, <2>5 DEF Attached, SameObject
    <3>2. t = r
      BY <2>2, <3>1 DEF HideOf
    <3>3. QED
      BY <1>1, <1>7, <2>3, <3>2, Comes
  <2>6. QED
    BY <2>4, <2>5
<1>10. Becomes(r) \/ \E duration \in Duration : Becomes(HideOf(r, m, duration))
  BY <1>1, <1>5 DEF ClickBackdrop
<1>11. QED
  BY <1>8, <1>9, <1>10

LEMMA TransitionEndStep ==
  ASSUME ModalInv, TransitionEnd
  PROVE  ModalInv' /\ Refocused(Now, Now')
<1>1. PICK s : s = Now
  OBVIOUS
<1>2. Steady(s) /\ s.queue = queue /\ s \in State
  BY <1>1, NowAttached
<1>3. PICK el : el = Head(queue).el
  OBVIOUS
<1>4. PICK t : t = Dispatch(s, el, Run)
  OBVIOUS
<1>5. IsDue(s.queue) /\ Becomes(t)
  BY <1>1, <1>2, <1>3, <1>4 DEF TransitionEnd
<1>6. el = s.queue[1].el
  <2>1. queue # <<>> /\ queue \in Seq(Wait)
    BY <1>2, <1>5 DEF IsDue, State
  <2>2. QED
    BY <1>2, <1>3, <2>1
<1>7. Steady(t) /\ Refocused(s, t)
  BY <1>2, <1>4, <1>5, <1>6, DispatchKeeps
<1>8. QED
  BY <1>1, <1>5, <1>7, Comes

LEMMA TickStep ==
  ASSUME ModalInv, Tick
  PROVE  ModalInv' /\ Refocused(Now, Now')
<1>1. PICK s : s = Now
  OBVIOUS
<1>2. Steady(s) /\ s.modal = modal /\ s.page = page /\ s.queue = queue
  BY <1>1, NowAttached
<1>3. PICK t : t = [modal |-> modal, page |-> page, queue |-> TimePasses(queue)]
  OBVIOUS
<1>4. /\ t = [modal |-> s.modal, page |-> s.page, queue |-> t.queue]
      /\ t.queue = TimePasses(s.queue) /\ s.queue # <<>> /\ ~IsDue(s.queue)
  BY <1>2, <1>3 DEF Tick
<1>5. Steady(t) /\ Refocused(s, t)
  BY <1>2, <1>4, TickKeeps
<1>6. Becomes(t)
  BY <1>3 DEF Tick, Becomes
<1>7. QED
  BY <1>1, <1>5, <1>6, Comes

LEMMA ModalStep ==
  ASSUME ModalInv, [Next]_vars
  PROVE  ModalInv' /\ Refocused(Now, Now')
<1>1. CASE \E m \in Dialog : User(m)
  BY <1>1, ShowStep, HideStep, MouseStep, ClickBackdropStep DEF User
<1>2. CASE \E trigger \in Trigger : Click(trigger)
  BY <1>2, ClickStep
<1>3. CASE TransitionEnd
  BY <1>3, TransitionEndStep
<1>4. CASE Tick
  BY <1>4, TickStep
<1>5. CASE UNCHANGED vars
  <2>1. Now' = Now
    BY <1>5 DEF vars, Now
  <2>2. QED
    BY <2>1 DEF ModalInv, Refocused
<1>6. QED
  BY <1>1, <1>2, <1>3, <1>4, <1>5 DEF Next

\* Whatever the users do and however the transitions overlap: what a modal
\* and the page keep fits together (Steady).
THEOREM ModalHolds == Spec => []ModalInv
<1>1. Init => ModalInv
  BY InitSteady
<1>2. ModalInv /\ [Next]_vars => ModalInv'
  BY ModalStep
<1>3. QED
  BY <1>1, <1>2, PTL DEF Spec

\* Every variable keeps its type: among other things the modals make at most
\* two backdrops for each time one is shown (made).
THEOREM ModalTypes == Spec => []TypeOK
<1>1. ModalInv => TypeOK
  BY SteadyTypes
<1>2. QED
  BY <1>1, ModalHolds, PTL

\* When every modal is gone and every transition has ended, the page scrolls
\* again; and no backdrop, no padding and no modal is left on it, unless one
\* was shown while the page was locked.
THEOREM PageIsReleased == Spec => []PageReleased
<1>1. ModalInv => PageReleased
  <2>1. SUFFICES ASSUME ModalInv, AtRest, NoneShown
                 PROVE  /\ ~page.modalOpen
                        /\ page.overlapped \/ (/\ page.backdrops = {}
                                               /\ page.bodyPad = 0
                                               /\ \A m \in Dialog : ~modal[m].displayed)
    BY DEF PageReleased
  <2>2. PICK s : s = Now
    OBVIOUS
  <2>3. Steady(s) /\ s.modal = modal /\ s.page = page /\ s.queue = <<>>
    BY <2>1, <2>2, NowAttached DEF AtRest
  <2>4. Shown(s) = {} /\ ~Pending(s.queue)
    BY <2>1, <2>3 DEF NoneShown, Shown, Pending
  <2>5. ~page.modalOpen
    BY <2>3, <2>4 DEF Steady, Locked
  <2>6. CASE ~page.overlapped
    <3>1. Phased(s)
      BY <2>3, <2>6 DEF Steady
    <3>2. Free(s)
      BY <2>3, <2>5, <3>1, ShownPhase
    <3>3. QED
      BY <2>3, <2>5, <3>2 DEF Free, Idle
  <2>7. QED
    BY <2>5, <2>6
<1>2. QED
  BY <1>1, ModalHolds, PTL

\* When every transition has ended, a modal that is shown is displayed, on its
\* own backdrop and none else, with the page locked and its handlers attached.
THEOREM ShownAppear == Spec => []ShownAppears
<1>1. ModalInv => ShownAppears
  <2>1. SUFFICES ASSUME ModalInv, AtRest, ~page.overlapped, NEW m \in Dialog, modal[m].isShown
                 PROVE  /\ modal[m].displayed
                        /\ page.backdrops = {modal[m].backdrop} \ {0}
                        /\ modal[m].backdrop # 0 <=> m \in WithBackdrop
                        /\ page.modalOpen
                        /\ page.focusin = m /\ m \in page.resize
    BY DEF ShownAppears
  <2>2. PICK s : s = Now
    OBVIOUS
  <2>3. Steady(s) /\ s.modal = modal /\ s.page = page /\ s.queue = <<>>
    BY <2>1, <2>2, NowAttached DEF AtRest
  <2>4. Phased(s)
    BY <2>1, <2>3 DEF Steady
  <2>5. ComesUp(s, m) \/ IsUp(s, m)
    BY <2>1, <2>3, <2>4, ShownPhase
  <2>6. ~ComesUp(s, m)
    BY <2>3 DEF ComesUp, One
  <2>7. QED
    BY <2>3, <2>5, <2>6 DEF IsUp, Own
<1>2. QED
  BY <1>1, ModalHolds, PTL

\* Whenever a modal's restorers run, the focus is on the element that opened it.
THEOREM FocusIsRestored == Spec => FocusRestored
<1>1. ModalInv /\ [Next]_vars =>
        [\A m \in Dialog :
           modal[m].onHidden # <<>> /\ modal'[m].onHidden = <<>> /\ modal[m].opener # None
           => page'.focus = modal[m].opener]_vars
  <2>1. SUFFICES ASSUME ModalInv, [Next]_vars, NEW m \in Dialog,
                        modal[m].onHidden # <<>> /\ modal'[m].onHidden = <<>> /\ modal[m].opener # None
                 PROVE  page'.focus = modal[m].opener
    OBVIOUS
  <2>2. Refocused(Now, Now')
    BY <2>1, ModalStep
  <2>3. Now.modal = modal /\ (Now').modal = modal' /\ (Now').page = page'
    BY DEF Now
  <2>4. QED
    BY <2>1, <2>2, <2>3 DEF Refocused
<1>2. QED
  BY <1>1, ModalHolds, PTL DEF Spec, FocusRestored
=============================================================================
