---------------------------- MODULE TooltipProofs -----------------------------
(***************************************************************************)
(* A tooltip with any delays up to twice its transition, and any number of *)
(* events.                                                                 *)
(***************************************************************************)
EXTENDS Tooltip, SharedLemmas

Tip == [hoverState : {"null", "in", "out"}, enabled : BOOLEAN, attached : BOOLEAN,
        fade : BOOLEAN, in : BOOLEAN, described : BOOLEAN, bound : BOOLEAN]

Calls == {"shown", "hidden", "destroyed", "show", "hide"}
Wait == Waits({"tip", "timeout"}, Calls)

\* The states on which the methods work.
State == [tooltip : Tip, queue : Seq(Wait)]

Has(q, call) == \E i \in DOMAIN q : q[i].call = call

\* What waits for the delay and for the tip's transition.
Delays(call) == call \in {"show", "hide"}

Apt(w) == (w.el = "timeout" <=> Delays(w.call)) /\ (w.el = "tip" => w.left <= TipTime)

Orderly(q) ==
  /\ q \in Seq(Wait) /\ Sorted(q)
  /\ \A i \in DOMAIN q : Apt(q[i])
  /\ \A i, j \in DOMAIN q : q[i].el = "timeout" /\ q[j].el = "timeout" => i = j

\* The tip that is hidden is shown again: every hide ends before a show does.
ShownLast(q) ==
  \A i \in DOMAIN q : q[i].call = "hidden" => \E j \in DOMAIN q : i < j /\ q[j].call = "shown"

ShownOnce(q) == \A i, j \in DOMAIN q : q[i].call = "shown" /\ q[j].call = "shown" => i = j

-----------------------------------------------------------------------------
(* The queue *)

LEMMA WaitsAre ==
  ASSUME NEW q \in Seq(Wait)
  PROVE  /\ Len(q) \in Nat /\ DOMAIN q = 1..Len(q)
         /\ \A i \in 1..Len(q) : /\ q[i] \in Wait /\ q[i].el \in {"tip", "timeout"}
                                 /\ q[i].call \in Calls /\ q[i].left \in 0..2
<1>1. \A w \in Wait : w.el \in {"tip", "timeout"} /\ w.call \in Calls /\ w.left \in 0..2
  BY DEF Wait, Waits
<1>2. QED
  BY <1>1

LEMMA WithoutOrderly ==
  ASSUME NEW q, Orderly(q), NEW el, NEW r, r = WithoutElement(q, el)
  PROVE  /\ Orderly(r) /\ \A i \in DOMAIN r : r[i].el # el
         /\ \A call : Has(r, call) => Has(q, call)
         /\ \A call : Has(q, call) => Has(r, call) \/ \E i \in DOMAIN q : q[i].el = el /\ q[i].call = call
         /\ ShownOnce(q) => ShownOnce(r)
         /\ ShownLast(q) /\ el = "timeout" => ShownLast(r)
<1>1. q \in Seq(Wait) /\ Sorted(q)
  BY DEF Orderly
<1>2. r \in Seq(Wait) /\ Sorted(r) /\ \E f : Picked(q, r, f, Len(q), el)
  BY <1>1, WithoutIs DEF Wait
<1>3. PICK f : Picked(q, r, f, Len(q), el)
  BY <1>2
<1>4. /\ DOMAIN r = 1..Len(r) /\ DOMAIN q = 1..Len(q) /\ Len(r) \in Nat /\ Len(q) \in Nat
  BY <1>1, <1>2, WaitsAre
<1>5. /\ \A i \in DOMAIN r : f[i] \in DOMAIN q /\ r[i] = q[f[i]] /\ q[f[i]].el # el
      /\ \A i, j \in DOMAIN r : i < j => f[i] < f[j]
      /\ \A j \in DOMAIN q : q[j].el # el => \E i \in DOMAIN r : f[i] = j
  BY <1>3, <1>4 DEF Picked
<1>6. \A i, j \in DOMAIN r : i # j => f[i] # f[j]
  <2>1. ASSUME NEW i \in DOMAIN r, NEW j \in DOMAIN r, i # j
        PROVE  f[i] # f[j]
    <3>1. f[i] \in Nat /\ f[j] \in Nat /\ (i < j \/ j < i)
      BY <1>4, <1>5, <2>1
    <3>2. QED
      BY <1>5, <3>1
  <2>2. QED
    BY <2>1
<1>7. Orderly(r)
  BY <1>2, <1>5, <1>6 DEF Orderly
<1>8. ShownOnce(q) => ShownOnce(r)
  BY <1>5, <1>6 DEF ShownOnce
<1>9. ASSUME ShownLast(q), el = "timeout"
      PROVE  ShownLast(r)
  <2>1. ASSUME NEW i \in DOMAIN r, r[i].call = "hidden"
        PROVE  \E j \in DOMAIN r : i < j /\ r[j].call = "shown"
    <3>1. PICK m \in DOMAIN q : f[i] < m /\ q[m].call = "shown"
      BY <1>5, <1>9, <2>1 DEF ShownLast
    <3>2. q[m].el # el
      BY <1>9, <3>1 DEF Orderly, Apt, Delays
    <3>3. PICK j \in DOMAIN r : f[j] = m
      BY <1>5, <3>2
    <3>4. i < j
      BY <1>4, <1>5, <3>1, <3>3
    <3>5. QED
      BY <1>5, <3>1, <3>3, <3>4
  <2>2. QED
    BY <2>1 DEF ShownLast
<1>10. \A call : Has(r, call) => Has(q, call)
  BY <1>5 DEF Has
<1>11. \A call : Has(q, call) => Has(r, call) \/ \E i \in DOMAIN q : q[i].el = el /\ q[i].call = call
  BY <1>5 DEF Has
<1>12. QED
  BY <1>5, <1>7, <1>8, <1>9, <1>10, <1>11

LEMMA AwaitOrderly ==
  ASSUME NEW q, Orderly(q), NEW el \in {"tip", "timeout"}, NEW call \in Calls, NEW d \in 0..2,
         el = "timeout" <=> Delays(call), el = "tip" => d = TipTime,
         el = "timeout" => \A i \in DOMAIN q : q[i].el # "timeout",
         NEW r, r = Await(q, el, call, d)
  PROVE  /\ Orderly(r)
         /\ \A c : Has(r, c) <=> Has(q, c) \/ c = call
         /\ ShownOnce(q) /\ (call = "shown" => ~Has(q, "shown")) => ShownOnce(r)
         /\ (ShownLast(q) /\ call # "hidden") \/ call = "shown" => ShownLast(r)
<1>1. q \in Seq(Wait) /\ Sorted(q)
  BY DEF Orderly
<1>2. PICK w : w = Waiting(el, call, d)
  OBVIOUS
<1>3. w.el = el /\ w.call = call /\ w.left = d /\ Apt(w)
  BY <1>2 DEF Waiting, Apt, TipTime
<1>4. r \in Seq(Wait) /\ Sorted(r) /\ \E k : Awaited(q, r, k, w)
  BY <1>1, <1>2, AwaitIs DEF Wait
<1>5. PICK k : /\ Inserted(q, r, k, w)
               /\ \A i \in (k + 1)..Len(q) : ~(q[i].left <= d)
  BY <1>3, <1>4 DEF Awaited
<1>6. k \in Nat /\ k + 1 \in 1..Len(r) /\ r[k + 1] = w /\ \E f : Places(q, r, f, k)
  BY <1>1, <1>5, InsertedPlaces
<1>7. PICK f : Places(q, r, f, k)
  BY <1>6
<1>8. /\ DOMAIN r = 1..Len(r) /\ DOMAIN q = 1..Len(q) /\ Len(r) \in Nat /\ Len(q) \in Nat
  BY <1>1, <1>4, WaitsAre
<1>9. /\ \A i \in DOMAIN q : f[i] \in DOMAIN r /\ r[f[i]] = q[i] /\ f[i] # k + 1
      /\ \A i \in DOMAIN q : f[i] < k + 1 <=> i <= k
      /\ \A i, j \in DOMAIN q : i < j => f[i] < f[j]
      /\ \A j \in DOMAIN r : j = k + 1 \/ \E i \in DOMAIN q : f[i] = j
      /\ k + 1 \in DOMAIN r /\ r[k + 1] = w
  BY <1>6, <1>7, <1>8 DEF Places
<1>10. \A c : Has(r, c) <=> Has(q, c) \/ c = call
  <2>1. ASSUME NEW c
        PROVE  Has(r, c) <=> Has(q, c) \/ c = call
    <3>1. ASSUME NEW j \in DOMAIN r, r[j].call = c
          PROVE  Has(q, c) \/ c = call
      BY <1>3, <1>9, <3>1 DEF Has
    <3>2. ASSUME NEW i \in DOMAIN q, q[i].call = c
          PROVE  Has(r, c)
      BY <1>9, <3>2 DEF Has
    <3>3. Has(r, call)
      BY <1>3, <1>9 DEF Has
    <3>4. QED
      BY <3>1, <3>2, <3>3 DEF Has
  <2>2. QED
    BY <2>1
<1>11. Orderly(r)
  <2>1. \A i \in DOMAIN r : Apt(r[i])
    BY <1>3, <1>9 DEF Orderly
  <2>2. ASSUME NEW i \in DOMAIN r, NEW j \in DOMAIN r, r[i].el = "timeout", r[j].el = "timeout"
        PROVE  i = j
    <3>1. \A m \in DOMAIN r : m = k + 1 \/ \E n \in DOMAIN q : f[n] = m /\ r[m] = q[n]
      BY <1>9
    <3>2. CASE el = "timeout"
      <4>1. \A m \in DOMAIN r : r[m].el = "timeout" => m = k + 1
        BY <3>1, <3>2
      <4>2. QED
        BY <2>2, <4>1
    <3>3. CASE el # "timeout"
      <4>1. r[k + 1].el # "timeout"
        BY <1>3, <1>9, <3>3
      <4>2. PICK m \in DOMAIN q : f[m] = i /\ r[i] = q[m]
        BY <2>2, <3>1, <4>1
      <4>3. PICK n \in DOMAIN q : f[n] = j /\ r[j] = q[n]
        BY <2>2, <3>1, <4>1
      <4>4. m = n
        BY <2>2, <4>2, <4>3 DEF Orderly
      <4>5. QED
        BY <4>2, <4>3, <4>4
    <3>4. QED
      BY <3>2, <3>3
  <2>3. QED
    BY <1>4, <2>1, <2>2 DEF Orderly
<1>12. ASSUME ShownOnce(q), call = "shown" => ~Has(q, "shown")
       PROVE  ShownOnce(r)
  <2>1. ASSUME NEW i \in DOMAIN r, NEW j \in DOMAIN r, r[i].call = "shown", r[j].call = "shown"
        PROVE  i = j
    <3>1. \A m \in DOMAIN r : m = k + 1 \/ \E n \in DOMAIN q : f[n] = m /\ r[m] = q[n]
      BY <1>9
    <3>2. CASE call = "shown"
      <4>1. \A m \in DOMAIN r : r[m].call = "shown" => m = k + 1
        BY <1>12, <3>1, <3>2 DEF Has
      <4>2. QED
        BY <2>1, <4>1
    <3>3. CASE call # "shown"
      <4>1. r[k + 1].call # "shown"
        BY <1>3, <1>9, <3>3
      <4>2. PICK m \in DOMAIN q : f[m] = i /\ r[i] = q[m]
        BY <2>1, <3>1, <4>1
      <4>3. PICK n \in DOMAIN q : f[n] = j /\ r[j] = q[n]
        BY <2>1, <3>1, <4>1
      <4>4. m = n
        BY <1>12, <2>1, <4>2, <4>3 DEF ShownOnce
      <4>5. QED
        BY <4>2, <4>3, <4>4
    <3>4. QED
      BY <3>2, <3>3
  <2>2. QED
    BY <2>1 DEF ShownOnce
<1>13. ASSUME (ShownLast(q) /\ call # "hidden") \/ call = "shown"
       PROVE  ShownLast(r)
  <2>1. ASSUME NEW i \in DOMAIN r, r[i].call = "hidden"
        PROVE  \E j \in DOMAIN r : i < j /\ r[j].call = "shown"
    <3>1. i # k + 1
      BY <1>3, <1>9, <1>13, <2>1
    <3>2. PICK m \in DOMAIN q : f[m] = i /\ q[m].call = "hidden"
      BY <1>9, <2>1, <3>1
    <3>3. CASE call = "shown"
      <4>1. el = "tip" /\ d = TipTime
        BY <3>3 DEF Delays
      <4>2. q[m].el = "tip" /\ q[m].left <= d
        BY <1>1, <3>2, <4>1, WaitsAre DEF Orderly, Apt, Delays
      <4>3. m <= k
        BY <1>5, <1>6, <1>8, <4>2
      <4>4. i < k + 1
        BY <1>9, <3>2, <4>3
      <4>5. QED
        BY <1>3, <1>9, <3>3, <4>4
    <3>4. CASE call # "shown"
      <4>1. PICK n \in DOMAIN q : m < n /\ q[n].call = "shown"
        BY <1>13, <3>2, <3>4 DEF ShownLast
      <4>2. f[m] < f[n] /\ r[f[n]] = q[n] /\ f[n] \in DOMAIN r
        BY <1>9, <4>1
      <4>3. QED
        BY <3>2, <4>1, <4>2
    <3>5. QED
      BY <3>3, <3>4
  <2>2. QED
    BY <2>1 DEF ShownLast
<1>14. QED
  BY <1>10, <1>11, <1>12, <1>13

LEMMA PassesOrderly ==
  ASSUME NEW q, Orderly(q), q # <<>>, ~IsDue(q), NEW r, r = TimePasses(q)
  PROVE  /\ Orderly(r) /\ r # <<>>
         /\ \A c : Has(r, c) <=> Has(q, c)
         /\ ShownOnce(q) => ShownOnce(r)
         /\ ShownLast(q) => ShownLast(r)
<1>1. q \in Seq(Wait) /\ Sorted(q)
  BY DEF Orderly
<1>2. /\ r \in Seq(Wait) /\ Sorted(r) /\ r # <<>> /\ Len(r) = Len(q)
      /\ \A i \in 1..Len(q) : r[i].el = q[i].el /\ r[i].call = q[i].call
  BY <1>1, PassesIs DEF Wait
<1>3. DOMAIN r = DOMAIN q /\ DOMAIN q = 1..Len(q)
  BY <1>1, <1>2, WaitsAre
<1>4. \A i \in DOMAIN q : r[i].left <= q[i].left
  <2>1. \A i \in DOMAIN q : q[i].left \in 0..2 /\ q[i] \in Wait
    BY <1>1, <1>3, WaitsAre
  <2>2. \A w \in Wait : [w EXCEPT !.left = @ - 1].left = w.left - 1
    BY DEF Wait, Waits
  <2>3. \A i \in DOMAIN q : r[i].left = q[i].left - 1
    BY <2>1, <2>2 DEF TimePasses
  <2>4. QED
    BY <2>1, <2>3
<1>5. Orderly(r)
  <2>1. \A i \in DOMAIN r : r[i].left \in 0..2 /\ q[i].left \in 0..2
    BY <1>1, <1>2, <1>3, WaitsAre
  <2>2. \A i \in DOMAIN r : Apt(r[i])
    BY <1>2, <1>3, <1>4, <2>1 DEF Orderly, Apt, TipTime
  <2>3. QED
    BY <1>2, <1>3, <2>2 DEF Orderly
<1>6. QED
  BY <1>2, <1>3, <1>5 DEF Has, ShownOnce, ShownLast

-----------------------------------------------------------------------------
(* The methods *)

\* An animated tip has the class fade once it was shown, and only then a
\* transition; a delay that waits is one there is.
Sound(s) ==
  /\ s \in State
  /\ Orderly(s.queue)
  /\ s.tooltip.fade => options.animation
  /\ s.tooltip.attached /\ options.animation => s.tooltip.fade
  /\ ~s.tooltip.fade => \A i \in DOMAIN s.queue : s.queue[i].el # "tip"

\* The tip goes: after the delay, after the transition, or it is gone.
Going(s) ==
  \/ s.tooltip.hoverState = "out" /\ Has(s.queue, "hide")
  \/ s.tooltip.hoverState = "null" /\ (Has(s.queue, "hidden") \/ Has(s.queue, "destroyed"))
  \/ s.tooltip.hoverState # "in" /\ ~s.tooltip.attached

\* The tip comes, after the delay, or is there.
There(s) == s.tooltip.attached /\ s.tooltip.in

Coming(s) ==
  \/ s.tooltip.hoverState = "in" /\ ~s.tooltip.attached /\ Has(s.queue, "show")
  \/ s.tooltip.hoverState = "in" /\ There(s)
  \/ s.tooltip.hoverState = "null" /\ There(s) /\ ~Has(s.queue, "hidden")

\* What the pointer, the focus and clicks alone make of a tip: it is shown
\* when it is not on the page, and hidden once it is.
Tidy(s) ==
  /\ s.tooltip.enabled /\ s.tooltip.bound /\ ~Has(s.queue, "destroyed")
  /\ ShownOnce(s.queue)
  /\ ~s.tooltip.attached => ~Has(s.queue, "shown")
  /\ s.tooltip.attached => ~Has(s.queue, "show")
  /\ There(s) => ShownLast(s.queue)

LEMMA StateIs ==
  ASSUME NEW s \in State
  PROVE  /\ s.tooltip \in Tip /\ s.queue \in Seq(Wait)
         /\ s = [tooltip |-> s.tooltip, queue |-> s.queue]
BY DEF State

LEMMA OptionsAre ==
  ASSUME TypeOK
  PROVE  options.animation \in BOOLEAN /\ options.show \in 0..2 /\ options.hide \in 0..2
BY BoundsAssumption DEF TypeOK

LEMMA HideOfFading ==
  ASSUME NEW s \in State, NEW call, NEW t, t = HideOf(s, call), s.tooltip.fade
  PROVE  /\ t.tooltip = [s.tooltip EXCEPT !.in = FALSE, !.hoverState = "null"]
         /\ t = [tooltip |-> t.tooltip, queue |-> t.queue]
         /\ t.queue = Await(s.queue, "tip", call, TipTime)
<1>1. s.tooltip \in Tip /\ s = [tooltip |-> s.tooltip, queue |-> s.queue]
  BY StateIs
<1>2. QED
  BY <1>1 DEF HideOf, Tip

LEMMA HideCompleteIs ==
  ASSUME NEW s \in State, NEW call, NEW t, t = HideComplete(s, call)
  PROVE  /\ t.tooltip \in Tip /\ t = [tooltip |-> t.tooltip, queue |-> s.queue]
         /\ t.tooltip.attached <=> s.tooltip.attached /\ s.tooltip.hoverState = "in"
         /\ t.tooltip.bound <=> s.tooltip.bound /\ call # "destroyed"
         /\ t.tooltip.in = s.tooltip.in /\ t.tooltip.fade = s.tooltip.fade
         /\ t.tooltip.enabled = s.tooltip.enabled
         /\ t.tooltip.hoverState = s.tooltip.hoverState
<1>1. s.tooltip \in Tip /\ s = [tooltip |-> s.tooltip, queue |-> s.queue]
  BY StateIs
<1>2. PICK away \in BOOLEAN : away = (s.tooltip.attached /\ s.tooltip.hoverState = "in")
  OBVIOUS
<1>3. PICK kept \in BOOLEAN : kept = (s.tooltip.bound /\ call # "destroyed")
  OBVIOUS
<1>4. /\ t.tooltip = [s.tooltip EXCEPT !.attached = away, !.described = FALSE, !.bound = kept]
      /\ t = [tooltip |-> t.tooltip, queue |-> s.queue]
  BY <1>1, <1>2, <1>3 DEF HideComplete, Tip
<1>5. QED
  BY <1>1, <1>2, <1>3, <1>4 DEF Tip

LEMMA HideOfAtOnce ==
  ASSUME NEW s \in State, NEW call, NEW t, t = HideOf(s, call), ~s.tooltip.fade
  PROVE  /\ t.tooltip \in Tip /\ t = [tooltip |-> t.tooltip, queue |-> s.queue]
         /\ t.tooltip.attached <=> s.tooltip.attached /\ s.tooltip.hoverState = "in"
         /\ t.tooltip.bound <=> s.tooltip.bound /\ call # "destroyed"
         /\ ~t.tooltip.in /\ ~t.tooltip.fade /\ t.tooltip.enabled = s.tooltip.enabled
         /\ t.tooltip.hoverState = "null"
<1>1. s.tooltip \in Tip /\ s = [tooltip |-> s.tooltip, queue |-> s.queue]
  BY StateIs
<1>2. PICK hiding : hiding = [s EXCEPT !.tooltip.in = FALSE]
  OBVIOUS
<1>3. /\ hiding.tooltip = [s.tooltip EXCEPT !.in = FALSE] /\ hiding.queue = s.queue
      /\ hiding = [tooltip |-> hiding.tooltip, queue |-> hiding.queue]
  BY <1>1, <1>2
<1>4. /\ hiding \in State /\ hiding.tooltip \in Tip
      /\ ~hiding.tooltip.in /\ ~hiding.tooltip.fade
      /\ hiding.tooltip.attached = s.tooltip.attached /\ hiding.tooltip.bound = s.tooltip.bound
      /\ hiding.tooltip.hoverState = s.tooltip.hoverState
      /\ hiding.tooltip.enabled = s.tooltip.enabled
  BY <1>1, <1>3, StateIs DEF State, Tip
<1>5. PICK gone : gone = HideComplete(hiding, call)
  OBVIOUS
<1>6. /\ gone.tooltip \in Tip /\ gone = [tooltip |-> gone.tooltip, queue |-> s.queue]
      /\ gone.tooltip.attached <=> s.tooltip.attached /\ s.tooltip.hoverState = "in"
      /\ gone.tooltip.bound <=> s.tooltip.bound /\ call # "destroyed"
      /\ ~gone.tooltip.in /\ ~gone.tooltip.fade /\ gone.tooltip.enabled = s.tooltip.enabled
  <2>1. /\ gone.tooltip \in Tip /\ gone = [tooltip |-> gone.tooltip, queue |-> hiding.queue]
        /\ gone.tooltip.attached <=> hiding.tooltip.attached /\ hiding.tooltip.hoverState = "in"
        /\ gone.tooltip.bound <=> hiding.tooltip.bound /\ call # "destroyed"
        /\ gone.tooltip.in = hiding.tooltip.in /\ gone.tooltip.fade = hiding.tooltip.fade
        /\ gone.tooltip.enabled = hiding.tooltip.enabled
    BY <1>4, <1>5, HideCompleteIs
  <2>2. QED
    BY <1>3, <1>4, <2>1
<1>7. t = [gone EXCEPT !.tooltip.hoverState = "null"]
  BY <1>2, <1>4, <1>5 DEF HideOf
<1>8. /\ t.tooltip = [gone.tooltip EXCEPT !.hoverState = "null"]
      /\ t = [tooltip |-> t.tooltip, queue |-> s.queue]
  BY <1>6, <1>7
<1>9. QED
  BY <1>6, <1>8 DEF Tip

LEMMA HasTip ==
  ASSUME NEW s, Sound(s), NEW call \in Calls, Has(s.queue, call), ~Delays(call)
  PROVE  s.tooltip.fade
<1>1. PICK i \in DOMAIN s.queue : s.queue[i].call = call
  BY DEF Has
<1>2. s.queue[i].el = "tip"
  BY <1>1, WaitsAre DEF Sound, Orderly, Apt
<1>3. QED
  BY <1>1, <1>2 DEF Sound

LEMMA HideFine ==
  ASSUME TypeOK, NEW s, Sound(s), NEW call \in {"hidden", "destroyed"}, NEW t, t = HideOf(s, call)
  PROVE  /\ Sound(t)
         /\ s.tooltip.hoverState = "out" \/ options.animation => Going(t)
         /\ Tidy(s) /\ call = "hidden" /\ s.tooltip.hoverState # "in" => Tidy(t)
         /\ Has(t.queue, "shown") => Has(s.queue, "shown")
<1> DEFINE x == s.tooltip
           u == t.tooltip
<1>1. s \in State /\ x \in Tip /\ s.queue \in Seq(Wait) /\ Orderly(s.queue)
  BY StateIs DEF Sound
<1>2. CASE x.fade
  <2>1. /\ u = [x EXCEPT !.in = FALSE, !.hoverState = "null"]
        /\ t = [tooltip |-> u, queue |-> t.queue]
        /\ t.queue = Await(s.queue, "tip", call, TipTime)
    BY <1>1, <1>2, HideOfFading
  <2>2. /\ u \in Tip /\ ~u.in /\ u.hoverState = "null" /\ u.fade
        /\ u.attached = x.attached /\ u.enabled = x.enabled /\ u.bound = x.bound
    BY <1>1, <1>2, <2>1 DEF Tip
  <2>3. /\ Orderly(t.queue)
        /\ \A c : Has(t.queue, c) <=> Has(s.queue, c) \/ c = call
        /\ ShownOnce(s.queue) => ShownOnce(t.queue)
    BY <1>1, <2>1, AwaitOrderly DEF Calls, Delays, TipTime
  <2>4. t \in State
    BY <2>1, <2>2, <2>3 DEF State, Orderly
  <2>5. Sound(t)
    BY <1>2, <2>2, <2>3, <2>4 DEF Sound
  <2>6. Going(t)
    BY <2>2, <2>3 DEF Going
  <2>7. Tidy(s) /\ call = "hidden" => Tidy(t)
    BY <2>2, <2>3 DEF Tidy, There
  <2>8. QED
    BY <2>3, <2>5, <2>6, <2>7
<1>3. CASE ~x.fade
  <2>1. /\ u \in Tip /\ t = [tooltip |-> u, queue |-> s.queue]
        /\ u.attached <=> x.attached /\ x.hoverState = "in"
        /\ u.bound <=> x.bound /\ call # "destroyed"
        /\ ~u.in /\ ~u.fade /\ u.enabled = x.enabled
        /\ u.hoverState = "null"
    BY <1>1, <1>3, HideOfAtOnce
  <2>2. t.queue = s.queue
    BY <2>1
  <2>3. Sound(t)
    <3>1. t \in State
      BY <1>1, <2>1, <2>2 DEF State
    <3>2. QED
      BY <1>3, <2>1, <2>2, <3>1 DEF Sound
  <2>4. x.hoverState = "out" \/ options.animation => Going(t)
    <3>1. x.hoverState = "out" \/ options.animation => ~u.attached
      BY <1>3, <2>1 DEF Sound
    <3>2. QED
      BY <2>1, <3>1 DEF Going
  <2>5. ASSUME Tidy(s), call = "hidden", x.hoverState # "in"
        PROVE  Tidy(t)
    <3>1. ~Has(s.queue, "shown")
      BY <1>3, HasTip DEF Calls, Delays
    <3>2. ~u.attached /\ u.bound
      BY <2>1, <2>5 DEF Tidy
    <3>3. QED
      BY <2>1, <2>2, <2>5, <3>1, <3>2 DEF Tidy, There
  <2>6. QED
    BY <2>2, <2>3, <2>4, <2>5
<1>4. QED
  BY <1>2, <1>3

\* A state with another hoverState.
Hovered(s, h) == [s EXCEPT !.tooltip.hoverState = h]

LEMMA WithHoverState ==
  ASSUME NEW s, Sound(s), NEW h \in {"null", "in", "out"}, NEW t, t = Hovered(s, h)
  PROVE  /\ Sound(t) /\ t.tooltip.hoverState = h /\ t.queue = s.queue
         /\ t.tooltip.attached = s.tooltip.attached /\ t.tooltip.in = s.tooltip.in
         /\ t.tooltip.fade = s.tooltip.fade /\ t.tooltip.enabled = s.tooltip.enabled
         /\ Tidy(s) => Tidy(t)
<1>1. s \in State /\ s.tooltip \in Tip /\ s = [tooltip |-> s.tooltip, queue |-> s.queue]
  BY StateIs DEF Sound
<1>2. /\ t.tooltip = [s.tooltip EXCEPT !.hoverState = h] /\ t.queue = s.queue
      /\ t = [tooltip |-> t.tooltip, queue |-> s.queue]
  BY <1>1 DEF Hovered
<1>3. /\ t.tooltip \in Tip /\ t.tooltip.hoverState = h
      /\ t.tooltip.attached = s.tooltip.attached /\ t.tooltip.in = s.tooltip.in
      /\ t.tooltip.fade = s.tooltip.fade /\ t.tooltip.enabled = s.tooltip.enabled
      /\ t.tooltip.bound = s.tooltip.bound
  BY <1>1, <1>2 DEF Tip
<1>4. t \in State
  BY <1>1, <1>2, <1>3 DEF State
<1>5. Sound(t)
  BY <1>2, <1>3, <1>4 DEF Sound
<1>6. Tidy(s) => Tidy(t)
  BY <1>2, <1>3 DEF Tidy, There
<1>7. QED
  BY <1>2, <1>3, <1>5, <1>6

LEMMA ClearFine ==
  ASSUME NEW s, Sound(s), NEW t, t = ClearTimeout(s)
  PROVE  /\ Sound(t) /\ t.tooltip = s.tooltip
         /\ \A i \in DOMAIN t.queue : t.queue[i].el # "timeout"
         /\ ~Has(t.queue, "show")
         /\ Tidy(s) => Tidy(t)
         /\ Has(t.queue, "shown") => Has(s.queue, "shown")
<1>1. s \in State /\ s.tooltip \in Tip /\ s = [tooltip |-> s.tooltip, queue |-> s.queue]
  BY StateIs DEF Sound
<1>2. /\ t.tooltip = s.tooltip /\ t.queue = WithoutElement(s.queue, "timeout")
      /\ t = [tooltip |-> s.tooltip, queue |-> t.queue]
  BY <1>1 DEF ClearTimeout
<1>3. /\ Orderly(t.queue)
      /\ \A i \in DOMAIN t.queue : t.queue[i].el # "timeout"
      /\ \A call : Has(t.queue, call) => Has(s.queue, call)
      /\ ShownOnce(s.queue) => ShownOnce(t.queue)
      /\ ShownLast(s.queue) => ShownLast(t.queue)
  BY <1>2, WithoutOrderly DEF Sound
<1>4. t \in State
  BY <1>1, <1>2, <1>3 DEF State, Orderly
<1>5. \A i \in DOMAIN t.queue : t.queue[i].el = "tip"
  BY <1>3, WaitsAre DEF Orderly
<1>6. ~s.tooltip.fade => \A i \in DOMAIN t.queue : t.queue[i].el # "tip"
  <2>1. ASSUME ~s.tooltip.fade, NEW i \in DOMAIN t.queue
        PROVE  FALSE
    <3>1. Has(t.queue, t.queue[i].call) /\ ~Delays(t.queue[i].call) /\ t.queue[i].call \in Calls
      BY <1>3, WaitsAre DEF Has, Orderly, Apt
    <3>2. Has(s.queue, t.queue[i].call)
      BY <1>3, <3>1
    <3>3. QED
      BY <2>1, <3>1, <3>2, HasTip
  <2>2. QED
    BY <2>1
<1>7. Sound(t)
  BY <1>2, <1>3, <1>4, <1>6 DEF Sound
<1>8. ~Has(t.queue, "show")
  BY <1>3 DEF Has, Orderly, Apt, Delays
<1>9. Tidy(s) => Tidy(t)
  BY <1>2, <1>3 DEF Tidy, There
<1>10. QED
  BY <1>2, <1>3, <1>7, <1>8, <1>9

\* Waiting for a delay, when none runs.
LEMMA DelayFine ==
  ASSUME NEW s, Sound(s), \A i \in DOMAIN s.queue : s.queue[i].el # "timeout",
         NEW call \in {"show", "hide"}, NEW d \in 0..2,
         NEW t, t = [s EXCEPT !.queue = Await(@, "timeout", call, d)]
  PROVE  /\ Sound(t) /\ t.tooltip = s.tooltip
         /\ \A c : Has(t.queue, c) <=> Has(s.queue, c) \/ c = call
         /\ Tidy(s) /\ (call = "show" => ~s.tooltip.attached) => Tidy(t)
<1>1. s \in State /\ s.tooltip \in Tip /\ s = [tooltip |-> s.tooltip, queue |-> s.queue]
  BY StateIs DEF Sound
<1>2. /\ t.tooltip = s.tooltip /\ t.queue = Await(s.queue, "timeout", call, d)
      /\ t = [tooltip |-> s.tooltip, queue |-> t.queue]
  BY <1>1
<1>3. /\ Orderly(t.queue)
      /\ \A c : Has(t.queue, c) <=> Has(s.queue, c) \/ c = call
      /\ ShownOnce(s.queue) => ShownOnce(t.queue)
      /\ ShownLast(s.queue) => ShownLast(t.queue)
  BY <1>2, AwaitOrderly DEF Sound, Calls, Delays
<1>4. t \in State
  BY <1>1, <1>2, <1>3 DEF State, Orderly
<1>5. ~s.tooltip.fade => \A i \in DOMAIN t.queue : t.queue[i].el # "tip"
  <2>1. ASSUME ~s.tooltip.fade, NEW i \in DOMAIN t.queue, t.queue[i].el = "tip"
        PROVE  FALSE
    <3>1. Has(t.queue, t.queue[i].call) /\ ~Delays(t.queue[i].call) /\ t.queue[i].call \in Calls
      BY <1>3, <2>1, WaitsAre DEF Has, Orderly, Apt
    <3>2. Has(s.queue, t.queue[i].call)
      BY <1>3, <3>1 DEF Delays
    <3>3. QED
      BY <2>1, <3>1, <3>2, HasTip
  <2>2. QED
    BY <2>1
<1>6. Sound(t)
  BY <1>2, <1>3, <1>4, <1>5 DEF Sound
<1>7. Tidy(s) /\ (call = "show" => ~s.tooltip.attached) => Tidy(t)
  BY <1>2, <1>3 DEF Tidy, There
<1>8. QED
  BY <1>2, <1>3, <1>6, <1>7

LEMMA LeaveFine ==
  ASSUME TypeOK, NEW s, Sound(s), NEW t, t = LeaveOf(s)
  PROVE  /\ Sound(t) /\ Going(t)
         /\ Tidy(s) => Tidy(t)
         /\ Has(t.queue, "shown") => Has(s.queue, "shown")
<1>1. PICK clear : clear = ClearTimeout(s)
  OBVIOUS
<1>2. PICK out : out = Hovered(clear, "out")
  OBVIOUS
<1>3. /\ Sound(clear) /\ clear.tooltip = s.tooltip
      /\ \A i \in DOMAIN clear.queue : clear.queue[i].el # "timeout"
      /\ Tidy(s) => Tidy(clear)
      /\ Has(clear.queue, "shown") => Has(s.queue, "shown")
  BY <1>1, ClearFine
<1>4. /\ Sound(out) /\ out.queue = clear.queue /\ out.tooltip.hoverState = "out"
      /\ Tidy(clear) => Tidy(out)
  BY <1>2, <1>3, WithHoverState
<1>5. CASE options.hide = 0
  <2>1. t = HideOf(out, "hidden")
    BY <1>1, <1>2, <1>5 DEF LeaveOf, Hovered
  <2>2. /\ Sound(t) /\ Going(t)
        /\ Tidy(out) => Tidy(t)
        /\ Has(t.queue, "shown") => Has(out.queue, "shown")
    BY <1>4, <2>1, HideFine
  <2>3. QED
    BY <1>3, <1>4, <2>2
<1>6. CASE options.hide # 0
  <2>1. t = [out EXCEPT !.queue = Await(@, "timeout", "hide", options.hide)]
    BY <1>1, <1>2, <1>6 DEF LeaveOf, Hovered
  <2>2. /\ Sound(t) /\ t.tooltip = out.tooltip
        /\ \A c : Has(t.queue, c) <=> Has(out.queue, c) \/ c = "hide"
        /\ Tidy(out) => Tidy(t)
    BY <1>3, <1>4, <2>1, OptionsAre, DelayFine, ZenonT(60)
  <2>3. Going(t)
    BY <1>4, <2>2 DEF Going
  <2>4. QED
    BY <1>3, <1>4, <2>2, <2>3
<1>7. QED
  BY <1>5, <1>6

LEMMA ShowCompleteFine ==
  ASSUME TypeOK, NEW s, Sound(s), NEW t, t = ShowComplete(s)
  PROVE  /\ Sound(t)
         /\ s.tooltip.hoverState = "out" \/ Going(s) => Going(t)
         /\ Tidy(s) => Tidy(t)
         /\ Has(t.queue, "shown") => Has(s.queue, "shown")
         /\ s.tooltip.hoverState # "out" =>
              /\ t.tooltip.hoverState = "null" /\ t.queue = s.queue
              /\ t.tooltip.attached = s.tooltip.attached /\ t.tooltip.in = s.tooltip.in
<1>1. PICK shown : shown = Hovered(s, "null")
  OBVIOUS
<1>2. /\ Sound(shown) /\ shown.queue = s.queue /\ shown.tooltip.hoverState = "null"
      /\ shown.tooltip.attached = s.tooltip.attached /\ shown.tooltip.in = s.tooltip.in
      /\ Tidy(s) => Tidy(shown)
  BY <1>1, WithHoverState
<1>3. CASE s.tooltip.hoverState = "out"
  <2>1. t = LeaveOf(shown)
    BY <1>1, <1>3 DEF ShowComplete, Hovered
  <2>2. /\ Sound(t) /\ Going(t)
        /\ Tidy(shown) => Tidy(t)
        /\ Has(t.queue, "shown") => Has(shown.queue, "shown")
    BY <1>2, <2>1, LeaveFine
  <2>3. QED
    BY <1>2, <1>3, <2>2
<1>4. CASE s.tooltip.hoverState # "out"
  <2>1. t = shown
    BY <1>1, <1>4 DEF ShowComplete, Hovered
  <2>2. Going(s) => Going(t)
    BY <1>2, <1>4, <2>1 DEF Going
  <2>3. QED
    BY <1>2, <1>4, <2>1, <2>2
<1>5. QED
  BY <1>3, <1>4

LEMMA HideCompleteFine ==
  ASSUME NEW s, Sound(s), NEW call \in {"hidden", "destroyed"}, NEW t, t = HideComplete(s, call)
  PROVE  /\ Sound(t) /\ t.queue = s.queue /\ t.tooltip.hoverState = s.tooltip.hoverState
         /\ Going(s) \/ s.tooltip.hoverState = "null" => Going(t)
         /\ Tidy(s) /\ call = "hidden" /\ ~Has(s.queue, "shown") => Tidy(t)
         /\ t.tooltip.attached <=> s.tooltip.attached /\ s.tooltip.hoverState = "in"
         /\ t.tooltip.in = s.tooltip.in
<1>1. s \in State /\ s.queue \in Seq(Wait)
  BY StateIs DEF Sound
<1>2. /\ t.tooltip \in Tip /\ t = [tooltip |-> t.tooltip, queue |-> s.queue]
      /\ t.tooltip.attached <=> s.tooltip.attached /\ s.tooltip.hoverState = "in"
      /\ t.tooltip.bound <=> s.tooltip.bound /\ call # "destroyed"
      /\ t.tooltip.in = s.tooltip.in /\ t.tooltip.fade = s.tooltip.fade
      /\ t.tooltip.enabled = s.tooltip.enabled
      /\ t.tooltip.hoverState = s.tooltip.hoverState
  BY <1>1, HideCompleteIs
<1>3. t.queue = s.queue
  BY <1>2
<1>4. t \in State
  BY <1>1, <1>2 DEF State
<1>5. Sound(t)
  BY <1>2, <1>3, <1>4 DEF Sound
<1>6. Going(s) \/ s.tooltip.hoverState = "null" => Going(t)
  BY <1>2, <1>3 DEF Going
<1>7. Tidy(s) /\ call = "hidden" /\ ~Has(s.queue, "shown") => Tidy(t)
  BY <1>2, <1>3 DEF Tidy, There
<1>8. QED
  BY <1>2, <1>3, <1>5, <1>6, <1>7


\* What show does at once, before it waits for the transition.
Showing(s) ==
  [s EXCEPT !.tooltip.attached = TRUE,
            !.tooltip.fade = options.animation,
            !.tooltip.in = TRUE,
            !.tooltip.described = TRUE]

LEMMA ShowingIs ==
  ASSUME TypeOK, NEW s \in State, NEW t, t = Showing(s)
  PROVE  /\ t \in State /\ t.tooltip \in Tip /\ t.queue = s.queue
         /\ t = [tooltip |-> t.tooltip, queue |-> t.queue]
         /\ There(t) /\ t.tooltip.fade = options.animation
         /\ t.tooltip.hoverState = s.tooltip.hoverState
         /\ t.tooltip.enabled = s.tooltip.enabled /\ t.tooltip.bound = s.tooltip.bound
<1>1. s.tooltip \in Tip /\ s = [tooltip |-> s.tooltip, queue |-> s.queue]
  BY StateIs
<1>2. /\ t.tooltip = [s.tooltip EXCEPT !.attached = TRUE, !.fade = options.animation,
                                     !.in = TRUE, !.described = TRUE]
      /\ t.queue = s.queue /\ t = [tooltip |-> t.tooltip, queue |-> s.queue]
  BY <1>1 DEF Showing
<1>3. /\ t.tooltip \in Tip /\ t.tooltip.attached /\ t.tooltip.in
      /\ t.tooltip.fade = options.animation
      /\ t.tooltip.hoverState = s.tooltip.hoverState
      /\ t.tooltip.enabled = s.tooltip.enabled /\ t.tooltip.bound = s.tooltip.bound
  BY <1>1, <1>2, OptionsAre DEF Tip
<1>4. QED
  BY <1>2, <1>3 DEF State, There

LEMMA ShowFine ==
  ASSUME TypeOK, NEW s, Sound(s), NEW t, t = ShowOf(s)
  PROVE  /\ Sound(t)
         /\ Tidy(s) /\ ~s.tooltip.attached /\ ~Has(s.queue, "show") => Tidy(t)
         /\ Tidy(s) /\ s.tooltip.hoverState = "in" => Coming(t)
<1>1. s \in State /\ s.queue \in Seq(Wait) /\ Orderly(s.queue)
  BY DEF Sound, State
<1>2. CASE ~s.tooltip.enabled
  <2>1. t = s
    BY <1>2 DEF ShowOf
  <2>2. QED
    BY <1>2, <2>1 DEF Tidy
<1>3. CASE s.tooltip.enabled
  <2>1. PICK showing : showing = Showing(s)
    OBVIOUS
  <2>2. /\ showing \in State /\ showing.tooltip \in Tip /\ showing.queue = s.queue
        /\ showing = [tooltip |-> showing.tooltip, queue |-> showing.queue]
        /\ There(showing) /\ showing.tooltip.fade = options.animation
        /\ showing.tooltip.hoverState = s.tooltip.hoverState
        /\ showing.tooltip.enabled = s.tooltip.enabled /\ showing.tooltip.bound = s.tooltip.bound
    BY <1>1, <2>1, ShowingIs
  <2>3. CASE options.animation
    <3>1. t = [showing EXCEPT !.queue = Await(@, "tip", "shown", TipTime)]
      BY <1>3, <2>1, <2>3 DEF ShowOf, Showing
    <3>2. /\ t.tooltip = showing.tooltip /\ t.queue = Await(s.queue, "tip", "shown", TipTime)
          /\ t = [tooltip |-> showing.tooltip, queue |-> t.queue]
      BY <2>2, <3>1
    <3>3. /\ Orderly(t.queue)
          /\ \A c : Has(t.queue, c) <=> Has(s.queue, c) \/ c = "shown"
          /\ ShownOnce(s.queue) /\ ~Has(s.queue, "shown") => ShownOnce(t.queue)
          /\ ShownLast(t.queue)
      BY <1>1, <3>2, AwaitOrderly DEF Calls, Delays, TipTime
    <3>4. Sound(t)
      <4>1. t \in State
        BY <2>2, <3>2, <3>3 DEF State, Orderly
      <4>2. QED
        BY <2>2, <2>3, <3>2, <3>3, <4>1 DEF Sound
    <3>5. Tidy(s) /\ ~s.tooltip.attached /\ ~Has(s.queue, "show") => Tidy(t)
      BY <2>2, <3>2, <3>3 DEF Tidy, There
    <3>6. s.tooltip.hoverState = "in" => Coming(t)
      BY <2>2, <3>2 DEF Coming, There
    <3>7. QED
      BY <3>4, <3>5, <3>6
  <2>4. CASE ~options.animation
    <3>1. t = ShowComplete(showing)
      BY <1>3, <2>1, <2>4 DEF ShowOf, Showing
    <3>2. \A i \in DOMAIN s.queue : s.queue[i].el # "tip"
      BY <2>4 DEF Sound
    <3>3. Sound(showing)
      BY <1>1, <2>2, <2>4, <3>2 DEF Sound
    <3>4. ~Has(s.queue, "hidden")
      BY <1>1, <3>2, WaitsAre DEF Has, Orderly, Apt, Delays
    <3>5. ShownLast(s.queue)
      BY <3>4 DEF Has, ShownLast
    <3>6. Tidy(s) /\ ~Has(s.queue, "show") => Tidy(showing)
      BY <2>2, <3>5 DEF Tidy, There
    <3>7. /\ Sound(t)
          /\ Tidy(showing) => Tidy(t)
          /\ showing.tooltip.hoverState # "out" =>
               /\ t.tooltip.hoverState = "null" /\ t.queue = showing.queue
               /\ t.tooltip.attached = showing.tooltip.attached
               /\ t.tooltip.in = showing.tooltip.in
      BY <3>1, <3>3, ShowCompleteFine
    <3>8. s.tooltip.hoverState = "in" => Coming(t)
      BY <2>2, <3>4, <3>7 DEF Coming, There
    <3>9. QED
      BY <3>6, <3>7, <3>8
  <2>5. QED
    BY <2>3, <2>4
<1>4. QED
  BY <1>2, <1>3

LEMMA EnterFine ==
  ASSUME TypeOK, NEW s, Sound(s), NEW t, t = EnterOf(s)
  PROVE  /\ Sound(t)
         /\ Tidy(s) => Tidy(t)
         /\ Tidy(s) /\ (s.tooltip.attached => s.tooltip.in) => Coming(t)
<1>1. CASE s.tooltip.attached
  <2>1. t = Hovered(s, "in")
    BY <1>1 DEF EnterOf, Hovered
  <2>2. /\ Sound(t) /\ t.tooltip.hoverState = "in" /\ t.queue = s.queue
        /\ t.tooltip.attached = s.tooltip.attached /\ t.tooltip.in = s.tooltip.in
        /\ Tidy(s) => Tidy(t)
    BY <2>1, WithHoverState
  <2>3. QED
    BY <1>1, <2>2 DEF Coming, There
<1>2. CASE ~s.tooltip.attached
  <2>1. PICK clear : clear = ClearTimeout(s)
    OBVIOUS
  <2>2. PICK entered : entered = Hovered(clear, "in")
    OBVIOUS
  <2>3. /\ Sound(clear) /\ clear.tooltip = s.tooltip
        /\ \A i \in DOMAIN clear.queue : clear.queue[i].el # "timeout"
        /\ ~Has(clear.queue, "show")
        /\ Tidy(s) => Tidy(clear)
    BY <2>1, ClearFine
  <2>4. /\ Sound(entered) /\ entered.tooltip.hoverState = "in" /\ entered.queue = clear.queue
        /\ entered.tooltip.attached = clear.tooltip.attached
        /\ Tidy(clear) => Tidy(entered)
    BY <2>2, <2>3, WithHoverState
  <2>5. CASE options.show = 0
    <3>1. t = ShowOf(entered)
      BY <1>2, <2>1, <2>2, <2>5 DEF EnterOf, Hovered
    <3>2. /\ Sound(t)
          /\ Tidy(entered) /\ ~entered.tooltip.attached /\ ~Has(entered.queue, "show") => Tidy(t)
          /\ Tidy(entered) /\ entered.tooltip.hoverState = "in" => Coming(t)
      BY <2>4, <3>1, ShowFine
    <3>3. QED
      BY <1>2, <2>3, <2>4, <3>2
  <2>6. CASE options.show # 0
    <3>1. t = [entered EXCEPT !.queue = Await(@, "timeout", "show", options.show)]
      BY <1>2, <2>1, <2>2, <2>6 DEF EnterOf, Hovered
    <3>2. /\ Sound(t) /\ t.tooltip = entered.tooltip
          /\ \A c : Has(t.queue, c) <=> Has(entered.queue, c) \/ c = "show"
          /\ Tidy(entered) /\ ("show" = "show" => ~entered.tooltip.attached) => Tidy(t)
      <4>1. options.show \in 0..2 /\ "show" \in {"show", "hide"}
        BY OptionsAre
      <4>2. \A i \in DOMAIN entered.queue : entered.queue[i].el # "timeout"
        BY <2>3, <2>4
      <4>3. QED
        BY <2>4, <3>1, <4>1, <4>2, DelayFine
    <3>3. Coming(t)
      BY <1>2, <2>3, <2>4, <3>2 DEF Coming
    <3>4. QED
      BY <1>2, <2>3, <2>4, <3>2, <3>3
  <2>7. QED
    BY <2>5, <2>6
<1>3. QED
  BY <1>1, <1>2

\* What waited runs, in any state the object can be in.
LEMMA RunFine ==
  ASSUME TypeOK, NEW s, Sound(s), NEW w \in Wait, NEW t, t = Run(s, w)
  PROVE  /\ Sound(t)
         /\ Going(s) => Going(t)
         /\ s.tooltip.hoverState = "null" /\ w.call \in {"hidden", "destroyed"} => Going(t)
         /\ s.tooltip.hoverState = "out" /\ w.call = "hide" => Going(t)
         /\ s.tooltip.hoverState = "null" => t.tooltip.hoverState = "null"
         /\ s.tooltip.hoverState = "out" => t.tooltip.hoverState = "out" \/ Going(t)
<1>1. w.call \in Calls
  BY DEF Wait, Waits
<1>2. CASE w.call = "shown"
  <2>1. t = ShowComplete(s)
    BY <1>2 DEF Run
  <2>2. /\ Sound(t)
        /\ s.tooltip.hoverState = "out" \/ Going(s) => Going(t)
        /\ s.tooltip.hoverState # "out" => t.tooltip.hoverState = "null"
    BY <2>1, ShowCompleteFine
  <2>3. QED
    BY <1>2, <2>2
<1>3. CASE w.call = "show"
  <2>1. CASE s.tooltip.hoverState = "in"
    <3>1. t = ShowOf(s)
      BY <1>3, <2>1 DEF Run
    <3>2. Sound(t)
      BY <3>1, ShowFine
    <3>3. ~Going(s)
      BY <2>1 DEF Going
    <3>4. QED
      BY <1>3, <2>1, <3>2, <3>3
  <2>2. CASE s.tooltip.hoverState # "in"
    <3>1. t = s
      BY <1>3, <2>2 DEF Run
    <3>2. QED
      BY <1>3, <3>1
  <2>3. QED
    BY <2>1, <2>2
<1>4. CASE w.call = "hide"
  <2>1. CASE s.tooltip.hoverState = "out"
    <3>1. t = HideOf(s, "hidden")
      BY <1>4, <2>1 DEF Run
    <3>2. Sound(t) /\ (s.tooltip.hoverState = "out" \/ options.animation => Going(t))
      BY <3>1, HideFine
    <3>3. QED
      BY <1>4, <2>1, <3>2
  <2>2. CASE s.tooltip.hoverState # "out"
    <3>1. t = s
      BY <1>4, <2>2 DEF Run
    <3>2. QED
      BY <1>4, <2>2, <3>1
  <2>3. QED
    BY <2>1, <2>2
<1>5. CASE w.call \in {"hidden", "destroyed"}
  <2>1. t = HideComplete(s, w.call)
    BY <1>5 DEF Run
  <2>2. /\ Sound(t) /\ t.tooltip.hoverState = s.tooltip.hoverState
        /\ Going(s) \/ s.tooltip.hoverState = "null" => Going(t)
    BY <1>5, <2>1, HideCompleteFine
  <2>3. QED
    BY <1>5, <2>2
<1>6. QED
  BY <1>1, <1>2, <1>3, <1>4, <1>5 DEF Calls

-----------------------------------------------------------------------------
(* A dispatch *)

\* A dispatch takes all that waits on el out of the queue.
Begun(s, el) == [s EXCEPT !.queue = WithoutElement(@, el)]

\* f holds the states the dispatch on el goes through, from s to t.
Ran(s, el, f, t) ==
  /\ f[0] = Begun(s, el)
  /\ t = f[Len(s.queue)]
  /\ \A i \in 0..Len(s.queue) : Sound(f[i])
  /\ \A i \in 1..Len(s.queue) :
       f[i] = IF s.queue[i].el = el THEN Run(f[i - 1], s.queue[i]) ELSE f[i - 1]

\* The dispatch on el begins.
LEMMA WithoutFine ==
  ASSUME TypeOK, NEW s, Sound(s), NEW el \in {"tip", "timeout"},
         NEW t, t = Begun(s, el)
  PROVE  /\ Sound(t) /\ t.tooltip = s.tooltip /\ Orderly(t.queue)
         /\ \A i \in DOMAIN t.queue : t.queue[i].el # el
         /\ \A call : Has(t.queue, call) => Has(s.queue, call)
         /\ \A call : Has(s.queue, call) =>
              Has(t.queue, call) \/ \E i \in DOMAIN s.queue : s.queue[i].el = el /\ s.queue[i].call = call
         /\ ShownOnce(s.queue) => ShownOnce(t.queue)
         /\ ShownLast(s.queue) /\ el = "timeout" => ShownLast(t.queue)
<1>1. s \in State /\ s.tooltip \in Tip /\ s = [tooltip |-> s.tooltip, queue |-> s.queue]
  BY StateIs DEF Sound
<1>2. /\ t.tooltip = s.tooltip /\ t.queue = WithoutElement(s.queue, el)
      /\ t = [tooltip |-> s.tooltip, queue |-> t.queue]
  BY <1>1 DEF Begun
<1>3. /\ Orderly(t.queue) /\ \A i \in DOMAIN t.queue : t.queue[i].el # el
      /\ \A call : Has(t.queue, call) => Has(s.queue, call)
      /\ \A call : Has(s.queue, call) =>
           Has(t.queue, call) \/ \E i \in DOMAIN s.queue : s.queue[i].el = el /\ s.queue[i].call = call
      /\ ShownOnce(s.queue) => ShownOnce(t.queue)
      /\ ShownLast(s.queue) /\ el = "timeout" => ShownLast(t.queue)
  BY <1>2, WithoutOrderly DEF Sound
<1>4. t \in State
  BY <1>1, <1>2, <1>3 DEF State, Orderly
<1>5. ~s.tooltip.fade => \A i \in DOMAIN t.queue : t.queue[i].el # "tip"
  <2>1. ASSUME ~s.tooltip.fade, NEW i \in DOMAIN t.queue, t.queue[i].el = "tip"
        PROVE  FALSE
    <3>1. Has(t.queue, t.queue[i].call) /\ ~Delays(t.queue[i].call) /\ t.queue[i].call \in Calls
      BY <1>3, <2>1, WaitsAre DEF Has, Orderly, Apt
    <3>2. Has(s.queue, t.queue[i].call)
      BY <1>3, <3>1
    <3>3. QED
      BY <2>1, <3>1, <3>2, HasTip
  <2>2. QED
    BY <2>1
<1>6. Sound(t)
  BY <1>2, <1>3, <1>4, <1>5 DEF Sound
<1>7. QED
  BY <1>2, <1>3, <1>6

LEMMA DispatchRuns ==
  ASSUME TypeOK, NEW s, Sound(s), NEW el \in {"tip", "timeout"}, NEW t, t = Dispatch(s, el, Run)
  PROVE  \E f : Ran(s, el, f, t)
<1> DEFINE n == Len(s.queue)
           base == Begun(s, el)
           S == {x \in State : Sound(x)}
           loop(f) == [i \in 0..n |->
             IF i = 0 THEN base
             ELSE IF s.queue[i].el = el THEN Run(f[i - 1], s.queue[i]) ELSE f[i - 1]]
<1>1. s \in State /\ s.queue \in Seq(Wait) /\ n \in Nat /\ \A i \in 1..n : s.queue[i] \in Wait
  BY DEF Sound, State
<1>2. base \in S
  <2>1. Sound(base)
    BY WithoutFine
  <2>2. QED
    BY <2>1 DEF Sound
<1>3. \A x \in S, w \in Wait : Run(x, w) \in S
  <2>1. ASSUME NEW x \in S, NEW w \in Wait
        PROVE  Run(x, w) \in S
    <3>1. PICK y : y = Run(x, w)
      OBVIOUS
    <3>2. Sound(x)
      OBVIOUS
    <3>3. Sound(y)
      BY <3>1, <3>2, RunFine
    <3>4. QED
      BY <3>1, <3>3 DEF Sound
  <2>2. QED
    BY <2>1
<1>4. \A x \in S : Sound(x)
  OBVIOUS
<1>5. t = (CHOOSE f : f = loop(f))[n]
  BY DEF Dispatch, Begun
<1> HIDE DEF S, base
<1>6. PICK step \in [(1..n) \X S -> S] :
        \A i \in 1..n, x \in S :
          step[<<i, x>>] = IF s.queue[i].el = el THEN Run(x, s.queue[i]) ELSE x
  <2> DEFINE g == [y \in (1..n) \X S |->
                    IF s.queue[y[1]].el = el THEN Run(y[2], s.queue[y[1]]) ELSE y[2]]
  <2>1. g \in [(1..n) \X S -> S]
    BY <1>1, <1>3
  <2>2. \A i \in 1..n, x \in S :
          g[<<i, x>>] = IF s.queue[i].el = el THEN Run(x, s.queue[i]) ELSE x
    OBVIOUS
  <2>3. QED
    BY <2>1, <2>2
<1>7. PICK f : LoopRun(f, n, S, base, step)
  BY <1>1, <1>2, <1>6, LoopRuns, Zenon
<1>8. /\ f \in [0..n -> S] /\ f[0] = base
      /\ \A i \in 1..n : f[i] = step[<<i, f[i - 1]>>]
  BY <1>7 DEF LoopRun
<1>9. f = loop(f)
  <2>1. ASSUME NEW i \in 0..n
        PROVE  f[i] = IF i = 0 THEN base
                      ELSE IF s.queue[i].el = el THEN Run(f[i - 1], s.queue[i]) ELSE f[i - 1]
    <3>1. CASE i = 0
      BY <1>8, <3>1
    <3>2. CASE i # 0
      <4>1. i \in 1..n /\ i - 1 \in 0..n
        BY <1>1, <3>2
      <4>2. f[i - 1] \in S
        BY <1>8, <4>1
      <4>3. QED
        BY <1>6, <1>8, <3>2, <4>1, <4>2
    <3>3. QED
      BY <3>1, <3>2
  <2>2. QED
    BY <1>8, <2>1
<1>10. PICK ran : ran = loop(ran) /\ t = ran[n]
  <2>1. PICK ran : ran = CHOOSE h : h = loop(h)
    OBVIOUS
  <2>2. ran = loop(ran)
    BY <1>9, <2>1
  <2>3. t = ran[n]
    BY <1>5, <2>1
  <2>4. QED
    BY <2>2, <2>3
<1>11. /\ ran[0] = base
       /\ \A i \in 1..n :
            ran[i] = IF s.queue[i].el = el THEN Run(ran[i - 1], s.queue[i]) ELSE ran[i - 1]
  <2>1. loop(ran)[0] = base
    BY <1>1
  <2>2. ASSUME NEW i \in 1..n
        PROVE  loop(ran)[i] = IF s.queue[i].el = el THEN Run(ran[i - 1], s.queue[i]) ELSE ran[i - 1]
    <3>1. i \in 0..n /\ i # 0
      BY <1>1
    <3>2. QED
      BY <3>1
  <2> HIDE DEF loop
  <2>3. QED
    BY <1>10, <2>1, <2>2
<1> HIDE DEF loop
<1> DEFINE K == {k \in 0..n : ran[k] \in S}
<1>12. 0 \in K
  BY <1>1, <1>2, <1>11
<1>13. ASSUME NEW k \in 0..(n - 1), k \in K
       PROVE  k + 1 \in K
  <2>1. k + 1 \in 1..n /\ k + 1 \in 0..n /\ (k + 1) - 1 = k /\ ran[k] \in S
    BY <1>1, <1>13
  <2>2. ran[k + 1] = IF s.queue[k + 1].el = el THEN Run(ran[k], s.queue[k + 1]) ELSE ran[k]
    BY <1>11, <2>1
  <2>3. QED
    BY <1>1, <1>3, <2>1, <2>2
<1> HIDE DEF K
<1>14. 0..n \subseteq K
  BY <1>1, <1>12, <1>13, UpTo
<1>15. \A i \in 0..n : Sound(ran[i])
  BY <1>4, <1>14 DEF K
<1>16. Ran(s, el, ran, t)
  BY <1>10, <1>11, <1>15 DEF Ran, base
<1>17. QED
  BY <1>16

\* What still waits on el is to hide the tip.
ToHide(q, el, k, x) ==
  \/ x.tooltip.hoverState = "null"
     /\ \E j \in (k + 1)..Len(q) : q[j].el = el /\ q[j].call \in {"hidden", "destroyed"}
  \/ x.tooltip.hoverState = "out"
     /\ \E j \in (k + 1)..Len(q) : q[j].el = el /\ q[j].call = "hide"

\* A tip that goes still goes when a delay or a transition has ended.
LEMMA DispatchGoes ==
  ASSUME TypeOK, NEW s, Sound(s), NEW el \in {"tip", "timeout"}, NEW t, t = Dispatch(s, el, Run),
         Going(s)
  PROVE  Going(t)
<1>1. PICK f : Ran(s, el, f, t)
  BY DispatchRuns
<1>2. PICK q : q = s.queue
  OBVIOUS
<1>3. /\ q \in Seq(Wait) /\ Len(q) \in Nat /\ DOMAIN q = 1..Len(q)
      /\ \A i \in 1..Len(q) : q[i] \in Wait
  BY <1>2 DEF Sound, State
<1>4. PICK base : base = Begun(s, el)
  OBVIOUS
<1>5. /\ f[0] = base /\ t = f[Len(q)]
      /\ \A i \in 0..Len(q) : Sound(f[i])
      /\ \A i \in 1..Len(q) : f[i] = IF q[i].el = el THEN Run(f[i - 1], q[i]) ELSE f[i - 1]
  BY <1>1, <1>2, <1>4 DEF Ran
<1>6. /\ base.tooltip = s.tooltip
      /\ \A call : Has(s.queue, call) =>
           Has(base.queue, call) \/ \E i \in DOMAIN s.queue : s.queue[i].el = el /\ s.queue[i].call = call
  BY <1>4, WithoutFine
<1>7. \A call : Has(q, call) =>
        Has(base.queue, call) \/ \E j \in (0 + 1)..Len(q) : q[j].el = el /\ q[j].call = call
  BY <1>2, <1>3, <1>6
<1> DEFINE K == {k \in 0..Len(q) : Going(f[k]) \/ ToHide(q, el, k, f[k])}
<1>8. 0 \in K
  <2>1. CASE s.tooltip.hoverState = "out" /\ Has(q, "hide")
    BY <1>3, <1>5, <1>6, <1>7, <2>1 DEF Going, ToHide
  <2>2. CASE s.tooltip.hoverState = "null" /\ Has(q, "hidden")
    BY <1>3, <1>5, <1>6, <1>7, <2>2 DEF Going, ToHide
  <2>3. CASE s.tooltip.hoverState = "null" /\ Has(q, "destroyed")
    BY <1>3, <1>5, <1>6, <1>7, <2>3 DEF Going, ToHide
  <2>4. CASE s.tooltip.hoverState # "in" /\ ~s.tooltip.attached
    BY <1>3, <1>5, <1>6, <2>4 DEF Going
  <2>5. QED
    BY <1>2, <2>1, <2>2, <2>3, <2>4 DEF Going
<1>9. ASSUME NEW k \in 0..(Len(q) - 1), k \in K
      PROVE  k + 1 \in K
  <2>1. k + 1 \in 1..Len(q) /\ k + 1 \in 0..Len(q) /\ (k + 1) - 1 = k /\ k \in 0..Len(q)
    BY <1>3
  <2>2. PICK x, y : x = f[k] /\ y = f[k + 1]
    OBVIOUS
  <2>3. PICK w \in Wait : w = q[k + 1]
    BY <1>3, <2>1
  <2>4. Sound(x) /\ y = IF w.el = el THEN Run(x, w) ELSE x
    BY <1>5, <2>1, <2>2, <2>3
  <2>5. CASE w.el # el
    <3>1. \A j \in (k + 1)..Len(q) : q[j].el = el => j \in ((k + 1) + 1)..Len(q)
      BY <1>3, <2>1, <2>3, <2>5
    <3>2. ToHide(q, el, k, x) => ToHide(q, el, k + 1, x)
      BY <3>1 DEF ToHide
    <3>3. QED
      BY <1>9, <2>1, <2>2, <2>4, <2>5, <3>2
  <2>6. CASE w.el = el
    <3>1. y = Run(x, w)
      BY <2>4, <2>6
    <3>2. /\ Going(x) => Going(y)
          /\ x.tooltip.hoverState = "null" /\ w.call \in {"hidden", "destroyed"} => Going(y)
          /\ x.tooltip.hoverState = "out" /\ w.call = "hide" => Going(y)
          /\ x.tooltip.hoverState = "null" => y.tooltip.hoverState = "null"
          /\ x.tooltip.hoverState = "out" => y.tooltip.hoverState = "out" \/ Going(y)
      BY <2>4, <3>1, RunFine
    <3>3. \A j \in (k + 1)..Len(q) : j = k + 1 \/ j \in ((k + 1) + 1)..Len(q)
      BY <1>3, <2>1
    <3>4. ToHide(q, el, k, x) => Going(y) \/ ToHide(q, el, k + 1, y)
      BY <2>3, <3>2, <3>3 DEF ToHide
    <3>5. QED
      BY <1>9, <2>1, <2>2, <3>2, <3>4
  <2>7. QED
    BY <2>5, <2>6
<1> HIDE DEF K
<1>10. 0..Len(q) \subseteq K
  BY <1>3, <1>8, <1>9, UpTo
<1>11. Going(t) \/ ToHide(q, el, Len(q), t)
  BY <1>3, <1>5, <1>10 DEF K
<1>12. ~ToHide(q, el, Len(q), t)
  <2>1. (Len(q) + 1)..Len(q) = {}
    BY <1>3
  <2>2. QED
    BY <2>1 DEF ToHide
<1>13. QED
  BY <1>11, <1>12

\* The end of the delay, of which there is one.
LEMMA DelayEnds ==
  ASSUME TypeOK, NEW s, Sound(s), NEW m \in DOMAIN s.queue, s.queue[m].el = "timeout",
         NEW t, t = Dispatch(s, "timeout", Run), Tidy(s)
  PROVE  /\ Tidy(t)
         /\ Coming(s) => Coming(t)
<1>1. PICK f : Ran(s, "timeout", f, t)
  BY DispatchRuns
<1>2. PICK q : q = s.queue
  OBVIOUS
<1>3. /\ q \in Seq(Wait) /\ Len(q) \in Nat /\ DOMAIN q = 1..Len(q) /\ m \in 1..Len(q)
      /\ \A i \in 1..Len(q) : q[i] \in Wait /\ (q[i].el = "timeout" <=> i = m)
  BY <1>2 DEF Sound, State, Orderly
<1>4. PICK base : base = Begun(s, "timeout")
  OBVIOUS
<1>5. /\ f[0] = base /\ t = f[Len(q)]
      /\ \A i \in 1..Len(q) : f[i] = IF q[i].el = "timeout" THEN Run(f[i - 1], q[i]) ELSE f[i - 1]
  BY <1>1, <1>2, <1>4 DEF Ran
<1>6. base = ClearTimeout(s)
  BY <1>4 DEF ClearTimeout, Begun
<1>7. /\ Sound(base) /\ base.tooltip = s.tooltip /\ ~Has(base.queue, "show")
      /\ Tidy(base)
  BY <1>6, ClearFine
<1>8. \A call : Has(base.queue, call) => Has(s.queue, call)
  BY <1>4, WithoutFine
<1>9. t = Run(base, q[m])
  <2> DEFINE K == {k \in 0..Len(q) : f[k] = IF k < m THEN base ELSE Run(base, q[m])}
  <2>1. 0 \in K
    BY <1>3, <1>5
  <2>2. ASSUME NEW k \in 0..(Len(q) - 1), k \in K
        PROVE  k + 1 \in K
    <3>1. k + 1 \in 1..Len(q) /\ k + 1 \in 0..Len(q) /\ (k + 1) - 1 = k
      BY <1>3
    <3>2. f[k + 1] = IF k + 1 = m THEN Run(f[k], q[m]) ELSE f[k]
      BY <1>3, <1>5, <3>1
    <3>3. QED
      BY <1>3, <2>2, <3>1, <3>2
  <2> HIDE DEF K
  <2>3. 0..Len(q) \subseteq K
    BY <1>3, <2>1, <2>2, UpTo
  <2>4. Len(q) \in 0..Len(q) /\ ~(Len(q) < m)
    BY <1>3
  <2>5. f[Len(q)] = IF Len(q) < m THEN base ELSE Run(base, q[m])
    BY <2>3, <2>4 DEF K
  <2>6. QED
    BY <1>5, <2>4, <2>5
<1>10. q[m].call \in {"show", "hide"} /\ Has(s.queue, q[m].call)
  BY <1>2, <1>3 DEF Sound, Orderly, Apt, Delays, Has
<1>11. Has(s.queue, "show") => q[m].call = "show"
  BY <1>2, <1>3 DEF Has, Sound, Orderly, Apt, Delays
<1>12. CASE q[m].call = "show"
  <2>1. ~s.tooltip.attached
    BY <1>10, <1>12 DEF Tidy
  <2>2. CASE s.tooltip.hoverState = "in"
    <3>1. t = ShowOf(base)
      BY <1>7, <1>9, <1>12, <2>2 DEF Run
    <3>2. /\ Tidy(base) /\ ~base.tooltip.attached /\ ~Has(base.queue, "show") => Tidy(t)
          /\ Tidy(base) /\ base.tooltip.hoverState = "in" => Coming(t)
      BY <1>7, <3>1, ShowFine
    <3>3. QED
      BY <1>7, <2>1, <2>2, <3>2
  <2>3. CASE s.tooltip.hoverState # "in"
    <3>1. t = base
      BY <1>7, <1>9, <1>12, <2>3 DEF Run
    <3>2. ~Coming(s)
      BY <2>1, <2>3 DEF Coming, There
    <3>3. QED
      BY <1>7, <3>1, <3>2
  <2>4. QED
    BY <2>2, <2>3
<1>13. CASE q[m].call = "hide"
  <2>1. ~Has(s.queue, "show")
    BY <1>11, <1>13
  <2>2. CASE s.tooltip.hoverState = "out"
    <3>1. t = HideOf(base, "hidden")
      BY <1>7, <1>9, <1>13, <2>2 DEF Run
    <3>2. Tidy(base) /\ "hidden" = "hidden" /\ base.tooltip.hoverState # "in" => Tidy(t)
      BY <1>7, <3>1, HideFine
    <3>3. ~Coming(s)
      BY <2>2 DEF Coming
    <3>4. QED
      BY <1>7, <2>2, <3>2, <3>3
  <2>3. CASE s.tooltip.hoverState # "out"
    <3>1. t = base
      BY <1>7, <1>9, <1>13, <2>3 DEF Run
    <3>2. Coming(s) => Coming(base)
      BY <1>7, <1>8, <2>1 DEF Coming, There
    <3>3. QED
      BY <1>7, <3>1, <3>2
  <2>4. QED
    BY <2>2, <2>3
<1>14. QED
  BY <1>10, <1>12, <1>13

\* What the end of the tip's transition leaves of a tip that comes: the delay
\* to show it, or the tip, with no hide left to run.
Stays(q, k, x) ==
  \/ /\ x.tooltip.hoverState = "in" /\ ~x.tooltip.attached /\ Has(x.queue, "show")
     /\ ~Has(q, "shown")
  \/ /\ There(x) /\ ~Has(x.queue, "hidden")
     /\ \/ x.tooltip.hoverState = "in" /\ ShownLast(q)
        \/ /\ x.tooltip.hoverState = "null"
           /\ \A j \in (k + 1)..Len(q) : q[j].call # "hidden"

LEMMA TransitionEnds ==
  ASSUME TypeOK, NEW s, Sound(s), NEW t, t = Dispatch(s, "tip", Run), Tidy(s)
  PROVE  /\ Tidy(t)
         /\ Coming(s) => Coming(t)
<1>1. PICK f : Ran(s, "tip", f, t)
  BY DispatchRuns
<1>2. PICK q : q = s.queue
  OBVIOUS
<1>3. /\ q \in Seq(Wait) /\ Len(q) \in Nat /\ DOMAIN q = 1..Len(q)
      /\ \A i \in 1..Len(q) : q[i] \in Wait /\ q[i].call \in Calls
      /\ \A i \in 1..Len(q) : q[i].el = "timeout" <=> Delays(q[i].call)
      /\ \A i \in 1..Len(q) : q[i].el \in {"tip", "timeout"}
  BY <1>2, WaitsAre DEF Sound, State, Orderly, Apt
<1>4. PICK base : base = Begun(s, "tip")
  OBVIOUS
<1>5. /\ f[0] = base /\ t = f[Len(q)]
      /\ \A i \in 0..Len(q) : Sound(f[i])
      /\ \A i \in 1..Len(q) : f[i] = IF q[i].el = "tip" THEN Run(f[i - 1], q[i]) ELSE f[i - 1]
  BY <1>1, <1>2, <1>4 DEF Ran
<1>6. /\ Sound(base) /\ base.tooltip = s.tooltip /\ Orderly(base.queue)
      /\ \A i \in DOMAIN base.queue : base.queue[i].el # "tip"
      /\ \A call : Has(base.queue, call) => Has(s.queue, call)
      /\ \A call : Has(s.queue, call) =>
           Has(base.queue, call) \/ \E i \in DOMAIN s.queue : s.queue[i].el = "tip" /\ s.queue[i].call = call
      /\ ShownOnce(s.queue) => ShownOnce(base.queue)
  BY <1>4, WithoutFine
<1>7. ~Has(base.queue, "shown") /\ ~Has(base.queue, "hidden")
  BY <1>6, WaitsAre, SMTT(30) DEF Has, Orderly, Apt, Delays
<1>8. Has(s.queue, "show") => Has(base.queue, "show")
  BY <1>2, <1>3, <1>6 DEF Delays
<1>9. /\ Tidy(base) /\ ShownOnce(q) /\ (There(s) => ShownLast(q))
      /\ \A i \in 1..Len(q) : q[i].call # "destroyed"
  <2>1. ShownLast(base.queue)
    BY <1>7 DEF ShownLast, Has
  <2>2. \A i \in 1..Len(q) : q[i].call # "destroyed"
    BY <1>2, <1>3 DEF Tidy, Has
  <2>3. QED
    BY <1>2, <1>6, <2>1, <2>2 DEF Tidy, There
<1>10. Coming(s) => Stays(q, 0, base)
  <2>1. CASE s.tooltip.hoverState = "in" /\ ~s.tooltip.attached /\ Has(s.queue, "show")
    BY <1>2, <1>6, <1>8, <2>1 DEF Stays, Tidy
  <2>2. CASE s.tooltip.hoverState = "in" /\ There(s)
    BY <1>6, <1>7, <1>9, <2>2 DEF Stays, There
  <2>3. CASE s.tooltip.hoverState = "null" /\ There(s) /\ ~Has(s.queue, "hidden")
    <3>1. \A j \in (0 + 1)..Len(q) : q[j].call # "hidden"
      BY <1>2, <1>3, <2>3 DEF Has
    <3>2. QED
      BY <1>6, <1>7, <2>3, <3>1 DEF Stays, There
  <2>4. QED
    BY <2>1, <2>2, <2>3 DEF Coming
<1> DEFINE Well(k, x) == Tidy(x) /\ ~Has(x.queue, "shown") /\ (Coming(s) => Stays(q, k, x))
           K == {k \in 0..Len(q) : Well(k, f[k])}
<1>11. 0 \in K
  BY <1>3, <1>5, <1>7, <1>9, <1>10
<1>12. ASSUME NEW k \in 0..(Len(q) - 1), k \in K
       PROVE  k + 1 \in K
  <2>1. k + 1 \in 1..Len(q) /\ k + 1 \in 0..Len(q) /\ (k + 1) - 1 = k /\ k \in 0..Len(q)
    BY <1>3
  <2>2. PICK x, y : x = f[k] /\ y = f[k + 1]
    OBVIOUS
  <2>3. PICK w \in Wait : w = q[k + 1]
    BY <1>3, <2>1
  <2>4. Sound(x) /\ y = IF w.el = "tip" THEN Run(x, w) ELSE x
    BY <1>5, <2>1, <2>2, <2>3
  <2>5. Tidy(x) /\ ~Has(x.queue, "shown") /\ (Coming(s) => Stays(q, k, x))
    BY <1>12, <2>2
  <2>6. \A j \in ((k + 1) + 1)..Len(q) : j \in (k + 1)..Len(q)
    BY <1>3, <2>1
  <2>7. Stays(q, k, x) => Stays(q, k + 1, x)
    BY <2>6 DEF Stays
  <2>8. SUFFICES Tidy(y) /\ ~Has(y.queue, "shown") /\ (Stays(q, k, x) => Stays(q, k + 1, y))
    BY <2>1, <2>2, <2>5
  <2>9. CASE w.el # "tip"
    BY <2>4, <2>5, <2>7, <2>9
  <2>10. CASE w.el = "tip" /\ w.call = "shown"
    <3>1. y = ShowComplete(x)
      BY <2>4, <2>10 DEF Run
    <3>2. /\ Tidy(x) => Tidy(y)
          /\ Has(y.queue, "shown") => Has(x.queue, "shown")
          /\ x.tooltip.hoverState # "out" =>
               /\ y.tooltip.hoverState = "null" /\ y.queue = x.queue
               /\ y.tooltip.attached = x.tooltip.attached /\ y.tooltip.in = x.tooltip.in
      BY <2>4, <3>1, ShowCompleteFine
    <3>3. ASSUME Stays(q, k, x)
          PROVE  Stays(q, k + 1, y)
      <4>1. Has(q, "shown")
        BY <1>3, <2>1, <2>3, <2>10 DEF Has
      <4>2. /\ There(x) /\ ~Has(x.queue, "hidden") /\ x.tooltip.hoverState \in {"in", "null"}
            /\ x.tooltip.hoverState = "null" => \A j \in (k + 1)..Len(q) : q[j].call # "hidden"
            /\ x.tooltip.hoverState = "in" => ShownLast(q)
        BY <3>3, <4>1 DEF Stays
      <4>3. /\ y.tooltip.hoverState = "null" /\ There(y) /\ ~Has(y.queue, "hidden")
        BY <3>2, <4>2 DEF There
      <4>4. \A j \in ((k + 1) + 1)..Len(q) : q[j].call # "hidden"
        <5>1. CASE x.tooltip.hoverState = "null"
          BY <2>6, <4>2, <5>1
        <5>2. CASE ShownLast(q)
          <6>1. ASSUME NEW j \in ((k + 1) + 1)..Len(q), q[j].call = "hidden"
                PROVE  FALSE
            <7>1. j \in DOMAIN q /\ k + 1 \in DOMAIN q /\ k + 1 < j
              BY <1>3, <2>1, <6>1
            <7>2. PICK i \in DOMAIN q : j < i /\ q[i].call = "shown"
              BY <5>2, <6>1, <7>1 DEF ShownLast
            <7>3. i = k + 1
              BY <1>9, <2>3, <2>10, <7>1, <7>2 DEF ShownOnce
            <7>4. QED
              BY <1>3, <7>1, <7>2, <7>3
          <6>2. QED
            BY <6>1
        <5>3. QED
          BY <4>2, <5>1, <5>2
      <4>5. QED
        BY <4>3, <4>4 DEF Stays
    <3>4. QED
      BY <2>5, <3>2, <3>3
  <2>11. CASE w.el = "tip" /\ w.call = "hidden"
    <3>1. y = HideComplete(x, "hidden")
      BY <2>4, <2>11 DEF Run
    <3>2. /\ y.queue = x.queue /\ y.tooltip.hoverState = x.tooltip.hoverState
          /\ Tidy(x) /\ "hidden" = "hidden" /\ ~Has(x.queue, "shown") => Tidy(y)
          /\ y.tooltip.attached <=> x.tooltip.attached /\ x.tooltip.hoverState = "in"
          /\ y.tooltip.in = x.tooltip.in
      BY <2>4, <3>1, HideCompleteFine
    <3>3. k + 1 \in (k + 1)..Len(q) /\ q[k + 1].call = "hidden"
      BY <1>3, <2>1, <2>3, <2>11
    <3>4. Stays(q, k, x) => Stays(q, k + 1, y)
      BY <3>2, <3>3 DEF Stays, There
    <3>5. QED
      BY <2>5, <3>2, <3>4
  <2>12. w.el = "tip" => w.call \in {"shown", "hidden"}
    BY <1>3, <1>9, <2>1, <2>3 DEF Calls, Delays
  <2>13. QED
    BY <2>9, <2>10, <2>11, <2>12
<1> HIDE DEF K
<1>13. 0..Len(q) \subseteq K
  BY <1>3, <1>11, <1>12, UpTo
<1>14. Tidy(t) /\ (Coming(s) => Stays(q, Len(q), t))
  BY <1>3, <1>5, <1>13 DEF K
<1>15. Stays(q, Len(q), t) => Coming(t)
  BY DEF Stays, Coming
<1>16. QED
  BY <1>14, <1>15

-----------------------------------------------------------------------------
(* The tip, from call to call *)

\* The tip was told last to go.
ToGo == history.last = "leave" \/ (history.last = "hide" /\ options.animation)

\* It was told last to come by the pointer, the focus or a click, none of
\* which caught it on its way out, and no script has touched it.
ToCome == history.last = "enter" /\ ~history.caught /\ ~history.scripted

TipInv ==
  /\ TypeOK
  /\ Sound(Now)
  /\ ToGo => Going(Now)
  /\ ~history.scripted => Tidy(Now)
  /\ ToCome => Coming(Now)

LEMMA BecomesIs ==
  ASSUME NEW t, Sound(t), Becomes(t)
  PROVE  Now' = t
BY StateIs DEF Becomes, Now, Sound

LEMMA NowIs ==
  Now.tooltip = tooltip /\ Now.queue = queue
BY DEF Now

\* A state that is sound is of the type.
LEMMA TypesKept ==
  ASSUME TypeOK, options' = options, over' \subseteq {"hover", "focus"}, Sound(Now)',
         history' \in [last : {"none", "enter", "leave", "hide"}, events : 0..MaxEvents,
                       caught : BOOLEAN, scripted : BOOLEAN]
  PROVE  TypeOK'
<1>1. Now'.tooltip = tooltip' /\ Now'.queue = queue'
  BY DEF Now
<1>2. Now' \in State /\ Orderly(Now'.queue)
  BY DEF Sound
<1>3. tooltip' \in Tip /\ queue' \in Seq(Wait) /\ Orderly(queue')
  BY <1>1, <1>2 DEF State
<1>4. \A i, j \in DOMAIN queue' : queue'[i].el = "timeout" /\ queue'[j].el = "timeout" => i = j
  BY <1>3 DEF Orderly
<1>5. QED
  BY <1>3, <1>4 DEF TypeOK, Tip, Wait, Waits, Calls

\* What an event writes down.
LEMMA EventIs ==
  ASSUME TypeOK, NEW last \in {"none", "enter", "leave", "hide"}, NEW scripted \in BOOLEAN,
         Event(last, scripted)
  PROVE  /\ history' \in [last : {"none", "enter", "leave", "hide"}, events : 0..MaxEvents,
                          caught : BOOLEAN, scripted : BOOLEAN]
         /\ history'.last = last /\ options' = options
         /\ scripted => history'.scripted
         /\ history.scripted => history'.scripted
         /\ ~history'.caught /\ last = "enter" => (tooltip.attached => tooltip.in)
         /\ history.caught => history'.caught
<1>1. /\ history \in [last : {"none", "enter", "leave", "hide"}, events : 0..MaxEvents,
                      caught : BOOLEAN, scripted : BOOLEAN]
      /\ history.events < MaxEvents /\ MaxEvents \in Nat /\ options' = options
  BY BoundsAssumption DEF TypeOK, Event
<1>2. PICK caught \in BOOLEAN : caught = (history.caught \/ (last = "enter" /\ FadingOut))
  OBVIOUS
<1>3. PICK touched \in BOOLEAN : touched = (history.scripted \/ scripted)
  OBVIOUS
<1>4. PICK events \in 0..MaxEvents : events = history.events + 1
  BY <1>1
<1>5. history' = [history EXCEPT !.last = last, !.events = events,
                                 !.caught = caught, !.scripted = touched]
  BY <1>2, <1>3, <1>4 DEF Event
<1>6. /\ history' \in [last : {"none", "enter", "leave", "hide"}, events : 0..MaxEvents,
                       caught : BOOLEAN, scripted : BOOLEAN]
      /\ history'.last = last /\ history'.caught = caught /\ history'.scripted = touched
  BY <1>1, <1>5
<1>7. ~caught /\ last = "enter" => (tooltip.attached => tooltip.in)
  BY <1>2 DEF FadingOut
<1>8. QED
  BY <1>1, <1>2, <1>3, <1>6, <1>7

LEMMA TipInit == Init => TipInv
<1> SUFFICES ASSUME Init
             PROVE  TipInv
  OBVIOUS
<1>1. TypeOK
  <2>1. /\ history.last = "none" /\ history.events = 0 /\ ~history.caught /\ ~history.scripted
        /\ history \in [last : {"none", "enter", "leave", "hide"}, events : 0..MaxEvents,
                       caught : BOOLEAN, scripted : BOOLEAN]
    <3>1. 0 \in 0..MaxEvents
      BY BoundsAssumption
    <3>2. QED
      BY <3>1 DEF Init
  <2>2. queue = <<>> /\ over = {}
    BY DEF Init
  <2>3. queue \in Seq([el : {"tip", "timeout"},
                      call : {"shown", "hidden", "destroyed", "show", "hide"}, left : 0..2])
    BY <2>2
  <2>4. DOMAIN queue = {}
    BY <2>2
  <2>5. QED
    BY <2>1, <2>2, <2>3, <2>4 DEF Init, TypeOK
<1>2. Now.queue = <<>> /\ Now.tooltip = tooltip
  BY DEF Init, Now
<1>3. /\ tooltip \in Tip /\ ~tooltip.attached /\ ~tooltip.fade /\ ~tooltip.in
      /\ tooltip.enabled /\ tooltip.bound
  BY DEF Init, Tip
<1>4. Now \in State
  BY <1>2, <1>3 DEF Now, State
<1>5. Orderly(<<>>)
  BY DEF Orderly, Sorted
<1>6. \A call : ~Has(<<>>, call)
  BY DEF Has
<1>7. Sound(Now)
  BY <1>2, <1>3, <1>4, <1>5 DEF Sound
<1>8. ShownOnce(<<>>)
  BY DEF ShownOnce
<1>9. Tidy(Now)
  BY <1>2, <1>3, <1>6, <1>8 DEF Tidy, There
<1>10. history.last = "none"
  BY DEF Init
<1>11. QED
  BY <1>1, <1>7, <1>9, <1>10 DEF TipInv, ToGo, ToCome

\* Whatever makes the tip leave: the pointer, the focus or a click.
LEMMA LeaveKeeps ==
  ASSUME TipInv, over' \subseteq {"hover", "focus"}, Becomes(LeaveOf(Now)), Event("leave", FALSE)
  PROVE  TipInv'
<1>1. PICK t : t = LeaveOf(Now)
  OBVIOUS
<1>2. Sound(t) /\ Going(t) /\ (Tidy(Now) => Tidy(t))
  BY <1>1, LeaveFine DEF TipInv
<1>3. Now' = t
  BY <1>1, <1>2, BecomesIs
<1>4. /\ history' \in [last : {"none", "enter", "leave", "hide"}, events : 0..MaxEvents,
                       caught : BOOLEAN, scripted : BOOLEAN]
      /\ history'.last = "leave" /\ options' = options
      /\ history.scripted => history'.scripted
  BY EventIs DEF TipInv
<1>5. Sound(Now)' /\ Going(Now)' /\ (Tidy(Now) => Tidy(Now)')
  BY <1>2, <1>3, <1>4 DEF Sound, Going, Tidy, There
<1>6. TypeOK'
  BY <1>4, <1>5, TypesKept DEF TipInv
<1>7. QED
  BY <1>4, <1>5, <1>6 DEF TipInv, ToCome

\* Whatever makes it enter.
LEMMA EnterKeeps ==
  ASSUME TipInv, over' \subseteq {"hover", "focus"}, Becomes(EnterOf(Now)), Event("enter", FALSE)
  PROVE  TipInv'
<1>1. PICK t : t = EnterOf(Now)
  OBVIOUS
<1>2. /\ Sound(t)
      /\ Tidy(Now) => Tidy(t)
      /\ Tidy(Now) /\ (Now.tooltip.attached => Now.tooltip.in) => Coming(t)
  BY <1>1, EnterFine DEF TipInv
<1>3. Now' = t
  BY <1>1, <1>2, BecomesIs
<1>4. /\ history' \in [last : {"none", "enter", "leave", "hide"}, events : 0..MaxEvents,
                       caught : BOOLEAN, scripted : BOOLEAN]
      /\ history'.last = "enter" /\ options' = options
      /\ history.scripted => history'.scripted
      /\ ~history'.caught => (tooltip.attached => tooltip.in)
  BY EventIs DEF TipInv
<1>5. /\ Sound(Now)' /\ (Tidy(Now) => Tidy(Now)')
      /\ Tidy(Now) /\ (tooltip.attached => tooltip.in) => Coming(Now)'
  BY <1>2, <1>3, <1>4, NowIs DEF Sound, Tidy, Coming, There
<1>6. TypeOK'
  BY <1>4, <1>5, TypesKept DEF TipInv
<1>7. QED
  BY <1>4, <1>5, <1>6 DEF TipInv, ToGo, ToCome

\* Whatever a script does: the tip goes if it was told so.
LEMMA ScriptKeeps ==
  ASSUME TipInv, over' = over, NEW t, Sound(t), Becomes(t),
         NEW last \in {"none", "enter", "leave", "hide"}, Event(last, TRUE),
         last = "leave" \/ (last = "hide" /\ options.animation) => Going(t)
  PROVE  TipInv'
<1>1. Now' = t
  BY BecomesIs
<1>2. /\ history' \in [last : {"none", "enter", "leave", "hide"}, events : 0..MaxEvents,
                       caught : BOOLEAN, scripted : BOOLEAN]
      /\ history'.last = last /\ options' = options /\ history'.scripted
  BY EventIs DEF TipInv
<1>3. Sound(Now)' /\ (Going(t) => Going(Now)')
  BY <1>1, <1>2 DEF Sound, Going
<1>4. TypeOK'
  BY <1>2, <1>3, TypesKept DEF TipInv, TypeOK
<1>5. QED
  BY <1>2, <1>3, <1>4 DEF TipInv, ToGo, ToCome

\* What happens by itself leaves what the tip was told.
LEMMA RestKeeps ==
  ASSUME TipInv, NEW t, Sound(t), Now' = t, UNCHANGED <<options, over, history>>,
         Going(Now) => Going(t),
         Tidy(Now) => Tidy(t) /\ (Coming(Now) => Coming(t))
  PROVE  TipInv'
<1>1. /\ Sound(Now)' /\ (Going(t) => Going(Now)') /\ (Tidy(t) => Tidy(Now)')
      /\ Coming(t) => Coming(Now)'
  BY DEF Sound, Going, Tidy, Coming, There
<1>2. TypeOK'
  BY <1>1, TypesKept DEF TipInv, TypeOK
<1>3. QED
  BY <1>1, <1>2 DEF TipInv, ToGo, ToCome

LEMMA ElapseKeeps ==
  ASSUME TipInv, Elapse
  PROVE  TipInv'
<1>1. PICK el : el = Head(queue).el
  OBVIOUS
<1>2. PICK t : t = Dispatch(Now, el, Run)
  OBVIOUS
<1>3. Becomes(t) /\ UNCHANGED <<options, over, history>> /\ queue # <<>>
  BY <1>1, <1>2 DEF Elapse, IsDue
<1>4. /\ TypeOK /\ Sound(Now) /\ queue \in Seq(Wait)
      /\ 1 \in DOMAIN Now.queue /\ Now.queue[1].el = el /\ el \in {"tip", "timeout"}
  <2>1. Sound(Now) /\ queue \in Seq(Wait)
    BY NowIs DEF TipInv, Sound, State
  <2>2. 1 \in DOMAIN queue /\ Head(queue) = queue[1]
    BY <1>3, <2>1
  <2>3. queue[1].el \in {"tip", "timeout"}
    BY <2>1, <2>2, WaitsAre
  <2>4. QED
    BY <1>1, <2>1, <2>2, <2>3, NowIs DEF TipInv
<1>5. PICK f : Ran(Now, el, f, t)
  BY <1>2, <1>4, DispatchRuns
<1>6. Sound(t)
  <2>1. Len(queue) \in 0..Len(queue)
    BY <1>4
  <2>2. QED
    BY <1>5, <2>1, NowIs DEF Ran
<1>7. Going(Now) => Going(t)
  BY <1>2, <1>4, DispatchGoes
<1>8. Tidy(Now) => Tidy(t) /\ (Coming(Now) => Coming(t))
  <2>1. CASE el = "timeout"
    BY <1>2, <1>4, <2>1, DelayEnds
  <2>2. CASE el = "tip"
    BY <1>2, <1>4, <2>2, TransitionEnds
  <2>3. QED
    BY <1>4, <2>1, <2>2
<1>9. Now' = t
  BY <1>3, <1>6, BecomesIs
<1>10. QED
  BY <1>3, <1>6, <1>7, <1>8, <1>9, RestKeeps

LEMMA TickKeeps ==
  ASSUME TipInv, Tick
  PROVE  TipInv'
<1>1. PICK t : t = [tooltip |-> tooltip, queue |-> TimePasses(queue)]
  OBVIOUS
<1>2. /\ queue # <<>> /\ ~IsDue(queue) /\ UNCHANGED <<options, over, history>>
      /\ tooltip' = tooltip /\ queue' = TimePasses(queue)
  BY DEF Tick
<1>3. Now' = t /\ t.tooltip = tooltip /\ t.queue = TimePasses(queue)
  BY <1>1, <1>2 DEF Now
<1>4. Sound(Now) /\ Orderly(queue) /\ tooltip \in Tip
  BY NowIs, StateIs DEF TipInv, Sound
<1>5. /\ Orderly(t.queue)
      /\ \A c : Has(t.queue, c) <=> Has(queue, c)
      /\ ShownOnce(queue) => ShownOnce(t.queue)
      /\ ShownLast(queue) => ShownLast(t.queue)
  BY <1>2, <1>3, <1>4, PassesOrderly
<1>6. Sound(t)
  <2>1. t \in State
    BY <1>1, <1>3, <1>4, <1>5 DEF State, Orderly
  <2>2. queue \in Seq(Wait) /\ DOMAIN t.queue = DOMAIN queue
    BY <1>3, <1>4 DEF Orderly, TimePasses
  <2>3. ~tooltip.fade => \A i \in DOMAIN t.queue : t.queue[i].el # "tip"
    <3>1. ASSUME ~tooltip.fade, NEW i \in DOMAIN t.queue, t.queue[i].el = "tip"
          PROVE  FALSE
      <4>1. Has(t.queue, t.queue[i].call) /\ ~Delays(t.queue[i].call) /\ t.queue[i].call \in Calls
        BY <1>5, <3>1, WaitsAre DEF Has, Orderly, Apt
      <4>2. Has(queue, t.queue[i].call)
        BY <1>5, <4>1
      <4>3. QED
        BY <1>4, <3>1, <4>1, <4>2, NowIs, HasTip
    <3>2. QED
      BY <3>1
  <2>4. QED
    BY <1>3, <1>4, <1>5, <2>1, <2>3, NowIs DEF Sound
<1>7. Going(Now) => Going(t)
  BY <1>3, <1>5, NowIs DEF Going
<1>8. Tidy(Now) => Tidy(t) /\ (Coming(Now) => Coming(t))
  BY <1>3, <1>5, NowIs DEF Tidy, Coming, There
<1>9. QED
  BY <1>2, <1>3, <1>6, <1>7, <1>8, RestKeeps

LEMMA TipStep == TipInv /\ [Next]_vars => TipInv'
<1> SUFFICES ASSUME TipInv, [Next]_vars
             PROVE  TipInv'
  OBVIOUS
<1>1. TypeOK /\ Sound(Now) /\ over \subseteq {"hover", "focus"}
  BY DEF TipInv, TypeOK
<1>2. ASSUME NEW source \in {"hover", "focus"}, Enter(source)
      PROVE  TipInv'
  BY <1>1, <1>2, EnterKeeps DEF Enter
<1>3. ASSUME NEW source \in {"hover", "focus"}, Leave(source)
      PROVE  TipInv'
  BY <1>1, <1>3, LeaveKeeps DEF Leave
<1>4. CASE Click
  <2>1. CASE tooltip.in
    BY <1>1, <1>4, <2>1, LeaveKeeps DEF Click
  <2>2. CASE ~tooltip.in
    BY <1>1, <1>4, <2>2, EnterKeeps DEF Click
  <2>3. QED
    BY <2>1, <2>2
<1>5. CASE Show
  <2>1. PICK t : t = ShowOf(Now)
    OBVIOUS
  <2>2. Sound(t)
    BY <1>1, <2>1, ShowFine
  <2>3. Becomes(t) /\ Event("enter", TRUE) /\ over' = over
    BY <1>5, <2>1 DEF Show
  <2>4. QED
    BY <2>2, <2>3, ScriptKeeps
<1>6. CASE Hide
  <2>1. PICK t : t = HideOf(Now, "hidden")
    OBVIOUS
  <2>2. Sound(t) /\ (options.animation => Going(t))
    BY <1>1, <2>1, HideFine
  <2>3. Becomes(t) /\ Event("hide", TRUE) /\ over' = over
    BY <1>6, <2>1 DEF Hide
  <2>4. QED
    BY <2>2, <2>3, ScriptKeeps
<1>7. CASE Destroy
  <2>1. PICK clear : clear = ClearTimeout(Now)
    OBVIOUS
  <2>2. PICK t : t = HideOf(clear, "destroyed")
    OBVIOUS
  <2>3. Sound(clear)
    BY <1>1, <2>1, ClearFine
  <2>4. Sound(t) /\ (options.animation => Going(t))
    BY <1>1, <2>2, <2>3, HideFine
  <2>5. Becomes(t) /\ Event("hide", TRUE) /\ over' = over
    BY <1>7, <2>1, <2>2 DEF Destroy
  <2>6. QED
    BY <2>4, <2>5, ScriptKeeps
<1>8. CASE ToggleEnabled
  <2>1. PICK t : t = [tooltip |-> tooltip', queue |-> queue]
    OBVIOUS
  <2>2. t.tooltip = tooltip' /\ t.queue = queue /\ tooltip \in Tip
    BY <1>1, <2>1, NowIs, StateIs DEF Sound
  <2>3. /\ tooltip' \in Tip /\ tooltip'.attached = tooltip.attached
        /\ tooltip'.fade = tooltip.fade /\ tooltip'.hoverState = tooltip.hoverState
    BY <1>8, <2>2 DEF ToggleEnabled, Tip
  <2>4. Sound(t)
    <3>1. t \in State
      BY <1>1, <2>1, <2>2, <2>3, NowIs DEF State, Sound
    <3>2. QED
      BY <1>1, <2>2, <2>3, <3>1, NowIs DEF Sound
  <2>5. Going(Now) => Going(t)
    BY <2>2, <2>3, NowIs DEF Going
  <2>6. PICK last \in {"none", "enter", "leave", "hide"} : last = history.last
    BY <1>1 DEF TypeOK
  <2>7. Becomes(t) /\ Event(last, TRUE) /\ over' = over
    BY <1>8, <2>2, <2>6 DEF ToggleEnabled, Becomes
  <2>8. last = "leave" \/ (last = "hide" /\ options.animation) => Going(t)
    BY <2>5, <2>6 DEF TipInv, ToGo
  <2>9. QED
    BY <2>4, <2>6, <2>7, <2>8, ScriptKeeps
<1>9. CASE Elapse
  BY <1>9, ElapseKeeps
<1>10. CASE Tick
  BY <1>10, TickKeeps
<1>11. CASE UNCHANGED vars
  <2>1. PICK t : t = Now
    OBVIOUS
  <2>2. Now' = t /\ UNCHANGED <<options, over, history>>
    BY <1>11, <2>1 DEF vars, Now
  <2>3. QED
    BY <1>1, <2>1, <2>2, RestKeeps
<1>12. QED
  BY <1>2, <1>3, <1>4, <1>5, <1>6, <1>7, <1>8, <1>9, <1>10, <1>11 DEF Next

\* A tip is always in order: what it was told last is what waits to happen
\* to it, or has happened.
THEOREM TooltipHolds == Spec => []TipInv
BY TipInit, TipStep, PTL DEF Spec

\* The type of the tooltip, its tip and its queue; one delay runs at a time.
THEOREM TooltipTypes == Spec => []TypeOK
<1>1. TipInv => TypeOK
  BY DEF TipInv
<1>2. QED
  BY <1>1, TooltipHolds, PTL

\* A tip that was left, or an animated tip that was hidden or destroyed, is
\* gone once nothing waits any more, for all delays and events before.
THEOREM TipsGo == Spec => []TipGoes
<1>1. TipInv => TipGoes
  <2> SUFFICES ASSUME TipInv, AtRest, ToGo
               PROVE  ~tooltip.attached
    BY DEF TipGoes, ToGo
  <2>1. \A call : ~Has(Now.queue, call)
    BY NowIs DEF AtRest, Has
  <2>2. QED
    BY <2>1, NowIs DEF TipInv, Going
<1>2. QED
  BY <1>1, TooltipHolds, PTL

\* A tip that was entered, by pointer, focus or clicks alone, and not caught
\* on its way out, is there once nothing waits any more.
THEOREM TipsCome == Spec => []TipComes
<1>1. TipInv => TipComes
  <2> SUFFICES ASSUME TipInv, AtRest, ToCome
               PROVE  tooltip.attached /\ tooltip.in
    BY DEF TipComes, ToCome
  <2>1. \A call : ~Has(Now.queue, call)
    BY NowIs DEF AtRest, Has
  <2>2. QED
    BY <2>1, NowIs DEF TipInv, Coming, There
<1>2. QED
  BY <1>1, TooltipHolds, PTL

=============================================================================
