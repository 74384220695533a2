--------------------------- MODULE CollapseProofs ----------------------------
(***************************************************************************)
(* Collapse for any number of panels, clicks and calls.  A panel moves     *)
(* exactly while callbacks wait for it, and they know how it will end; an  *)
(* accordion that only its triggers have opened has an object for every    *)
(* panel that is open or moves, which is the one that moves it, so that    *)
(* show finds out that it must not go on.                                  *)
(***************************************************************************)
EXTENDS Collapse, SharedLemmas

PanelRecord ==
  [classes : SUBSET {"collapse", "collapsing", "in"}, expanded : BOOLEAN,
   data : Nat, made : Nat, transitioning : SUBSET Object, children : SUBSET Object,
   wanted : BOOLEAN, mistold : BOOLEAN]

Wait == Waits(Panel, {"shown", "hidden"} \X Object)

\* The states on which the methods work.
State == [panel : [Panel -> PanelRecord], queue : Seq(Wait), loose : BOOLEAN]

\* A panel's objects are numbered.
Numbered(q) == q.data <= q.made /\ q.transitioning \cup q.children \subseteq 1..q.made

\* The callbacks that wait are those of the objects that believe to move, and
\* the panel will be what was asked of it last.
Moves(q, calls) ==
  /\ q.transitioning = {call[2] : call \in calls}
  /\ calls = {} => q.classes = IF q.wanted THEN {"collapse", "in"} ELSE {"collapse"}
  /\ calls # {} => /\ q.classes = {"collapsing"}
                   /\ q.wanted <=> \E call \in calls : call[1] = "shown"

Tells(q) == ~q.mistold => q.expanded = q.wanted

Fit(q, calls) == Numbered(q) /\ Moves(q, calls) /\ Tells(q)

Sound(s) ==
  /\ s \in State
  /\ Sorted(s.queue)
  /\ \A p \in Panel : Fit(s.panel[p], CallsFor(s, p))

\* Two states that differ in one panel at most.
But(s, t, p) ==
  /\ t.loose = s.loose
  /\ \A q \in Panel \ {p} : t.panel[q] = s.panel[q] /\ CallsFor(t, q) = CallsFor(s, q)

-----------------------------------------------------------------------------
(* Numbers *)

LEMMA PanelsAre == Panels \in Nat \ {0} /\ Panel \subseteq Nat \ {0} /\ Panel = 1..Panels
BY CollapseAssumption DEF Panel

LEMMA LeastPanel ==
  ASSUME NEW actives \in SUBSET Panel, actives # {}
  PROVE  Min(actives) \in actives /\ \A p \in actives : Min(actives) <= p
<1>1. actives \in SUBSET Nat
  BY PanelsAre
<1>2. PICK m \in actives : \A p \in actives : m <= p
  BY <1>1, LeastNumber
<1>3. /\ m \in actives /\ \A y \in actives : m =< y
      /\ \A x \in actives : (\A y \in actives : x =< y) => x = m
  BY <1>1, <1>2
<1>4. Min(actives) = m
  BY <1>3 DEF Min
<1>5. QED
  BY <1>2, <1>4

-----------------------------------------------------------------------------
(* What waits *)

LEMMA LeftIs ==
  ASSUME NEW waiting \in Seq(Wait), NEW i \in DOMAIN waiting
  PROVE  waiting[i] \in Wait /\ waiting[i].left \in Nat /\ waiting[i].left <= Duration
<1>1. waiting[i] \in Wait
  OBVIOUS
<1>2. \A w \in Wait : w.left \in Nat /\ w.left <= Duration
  BY DEF Wait, Waits, Duration
<1>3. QED
  BY <1>1, <1>2

\* No transition takes longer than a panel's, so a new one ends last.
LEMMA AppendedIs ==
  ASSUME NEW waiting \in Seq(Wait), Sorted(waiting), NEW p \in Panel,
         NEW call \in {"shown", "hidden"} \X Object
  PROVE  LET more == Append(waiting, Waiting(p, call, Duration)) IN
         /\ Await(waiting, p, call, Duration) = more
         /\ more \in Seq(Wait) /\ Sorted(more)
<1> DEFINE r == Await(waiting, p, call, Duration)
           w == Waiting(p, call, Duration)
<1>1. PICK n \in Nat : n = Len(waiting) /\ DOMAIN waiting = 1..n
  OBVIOUS
<1>2. r \in Seq(Wait) /\ Sorted(r) /\ \E k : Awaited(waiting, r, k, w)
  <2>1. PICK calls : calls = {"shown", "hidden"} \X Object /\ call \in calls
                     /\ Wait = Waits(Panel, calls) /\ Duration \in 0..2
    BY DEF Wait, Duration
  <2> HIDE DEF r
  <2>2. r = Await(waiting, p, call, Duration)
    BY DEF r
  <2>3. QED
    BY <2>1, <2>2, AwaitIs
<1> HIDE DEF r, w
<1>3. PICK k \in 0..n : /\ Inserted(waiting, r, k, w)
                       /\ \A i \in (k + 1)..n : ~(waiting[i].left <= Duration)
  <2>1. w.left = Duration
    BY DEF w, Waiting
  <2>2. PICK k : Awaited(waiting, r, k, w)
    BY <1>2
  <2>3. QED
    BY <1>1, <2>1, <2>2 DEF Awaited, Inserted
<1>4. \A i \in 1..n : waiting[i].left <= Duration
  BY <1>1, LeftIs
<1>5. k = n
  <2>1. CASE k # n
    <3>1. k + 1 \in (k + 1)..n /\ k + 1 \in 1..n
      BY <1>1, <2>1
    <3>2. QED
      BY <1>3, <1>4, <3>1
  <2>2. QED
    BY <2>1
<1>6. /\ Len(r) = n + 1 /\ r[n + 1] = w
      /\ \A i \in 1..n : r[i] = waiting[i]
  BY <1>1, <1>3, <1>5 DEF Inserted
<1>7. w \in Wait
  BY DEF w, Wait, Waits, Waiting, Duration
<1>8. Append(waiting, w) = r
  <2>1. r \in Seq(Wait) /\ Append(waiting, w) \in Seq(Wait) /\ Len(Append(waiting, w)) = Len(r)
    BY <1>1, <1>2, <1>6, <1>7
  <2>2. \A i \in 1..Len(r) : Append(waiting, w)[i] = r[i]
    BY <1>1, <1>6, <1>7
  <2>3. QED
    BY <2>1, <2>2
<1>9. QED
  BY <1>2, <1>8 DEF r, w

LEMMA CallsAppended ==
  ASSUME NEW s, s.queue \in Seq(Wait), NEW w \in Wait,
         NEW t, t.queue = Append(s.queue, w), NEW q \in Panel
  PROVE  CallsFor(t, q) = CallsFor(s, q) \cup (IF q = w.el THEN {w.call} ELSE {})
<1>1. /\ DOMAIN t.queue = DOMAIN s.queue \cup {Len(s.queue) + 1}
      /\ t.queue[Len(s.queue) + 1] = w
      /\ \A i \in DOMAIN s.queue : t.queue[i] = s.queue[i]
  OBVIOUS
<1>2. ASSUME NEW x
      PROVE  x \in CallsFor(t, q) <=> x \in CallsFor(s, q) \/ (q = w.el /\ x = w.call)
  <2>1. x \in CallsFor(t, q) <=> \E i \in DOMAIN t.queue : t.queue[i].el = q /\ t.queue[i].call = x
    BY DEF CallsFor
  <2>2. x \in CallsFor(s, q) <=> \E i \in DOMAIN s.queue : s.queue[i].el = q /\ s.queue[i].call = x
    BY DEF CallsFor
  <2>3. QED
    BY <1>1, <2>1, <2>2, Zenon
<1>3. QED
  BY <1>2

LEMMA SortedAppended ==
  ASSUME NEW waiting \in Seq(Wait), Sorted(waiting), NEW w \in Wait,
         \A i \in DOMAIN waiting : waiting[i].left <= w.left
  PROVE  Append(waiting, w) \in Seq(Wait) /\ Sorted(Append(waiting, w))
<1>1. w.left \in Nat
  BY DEF Wait, Waits
<1>2. \A i \in DOMAIN waiting : waiting[i].left \in Nat
  BY LeftIs
<1>3. QED
  BY <1>1, <1>2 DEF Sorted

-----------------------------------------------------------------------------
(* The methods of one panel *)

LEMMA SoundBut ==
  ASSUME NEW s, Sound(s), NEW t \in State, NEW p \in Panel, But(s, t, p),
         Sorted(t.queue), Fit(t.panel[p], CallsFor(t, p))
  PROVE  Sound(t)
BY DEF Sound, But

\* The panel moves, and its object and trigger know it.
Moving(q, r, n, call) ==
  /\ r.classes = {"collapsing"} /\ r.wanted = (call = "shown")
  /\ r.transitioning = q.transitioning \cup {n}
  /\ r.data = q.data /\ r.made = q.made /\ r.children = q.children

LEMMA StartIs ==
  ASSUME NEW s, Sound(s), NEW p \in Panel, NEW n \in 1..s.panel[p].made,
         NEW call \in {"shown", "hidden"}, call = "hidden" => CallsFor(s, p) = {},
         NEW t, t = Start(s, p, n, {"collapsing"}, call)
  PROVE  Sound(t) /\ But(s, t, p) /\ Moving(s.panel[p], t.panel[p], n, call)
<1> DEFINE w == Waiting(p, <<call, n>>, Duration)
           new == [s.panel[p] EXCEPT !.classes = {"collapsing"},
                                     !.expanded = call = "shown",
                                     !.transitioning = @ \cup {n},
                                     !.wanted = call = "shown",
                                     !.mistold = FALSE]
<1>1. /\ s \in State /\ s.panel \in [Panel -> PanelRecord] /\ s.panel[p] \in PanelRecord
      /\ s.queue \in Seq(Wait) /\ Sorted(s.queue) /\ Fit(s.panel[p], CallsFor(s, p))
  BY DEF Sound, State
<1>2. n \in Object /\ s.panel[p].made \in Nat
  BY <1>1 DEF Object, PanelRecord
<1>3. w \in Wait /\ w.el = p /\ w.call = <<call, n>> /\ w.left = Duration
  BY <1>2 DEF Wait, Waits, Waiting, Duration
<1>4. new \in PanelRecord
  BY <1>1, <1>2 DEF PanelRecord
<1>5. Await(s.queue, p, <<call, n>>, Duration) = Append(s.queue, w)
  BY <1>1, <1>2, AppendedIs DEF w
<1>6. /\ t.panel = [s.panel EXCEPT ![p] = new] /\ t.queue = Append(s.queue, w)
      /\ t.loose = s.loose
      /\ t = [panel |-> t.panel, queue |-> t.queue, loose |-> t.loose]
  <2> HIDE DEF w
  <2>1. s = [panel |-> s.panel, queue |-> s.queue, loose |-> s.loose]
    BY <1>1 DEF State
  <2>2. QED
    BY <1>1, <1>5, <2>1 DEF Start
<1>7. t \in State /\ Sorted(t.queue)
  <2>1. t.panel \in [Panel -> PanelRecord]
    BY <1>1, <1>4, <1>6
  <2>2. t.queue \in Seq(Wait) /\ Sorted(t.queue)
    <3> HIDE DEF w
    <3>1. \A i \in DOMAIN s.queue : s.queue[i].left <= w.left
      BY <1>1, <1>3, LeftIs
    <3>2. Append(s.queue, w) \in Seq(Wait) /\ Sorted(Append(s.queue, w))
      BY <1>1, <1>3, <3>1, SortedAppended
    <3>3. QED
      BY <1>6, <3>2
  <2>3. t.loose \in BOOLEAN
    BY <1>1, <1>6 DEF State
  <2>4. QED
    BY <1>6, <2>1, <2>2, <2>3 DEF State
<1>8. \A q \in Panel : CallsFor(t, q) = CallsFor(s, q) \cup (IF q = p THEN {<<call, n>>} ELSE {})
  <2> HIDE DEF w
  <2>1. t.queue = Append(s.queue, w)
    BY <1>6
  <2>2. ASSUME NEW q \in Panel
        PROVE  CallsFor(t, q) = CallsFor(s, q) \cup (IF q = w.el THEN {w.call} ELSE {})
    <3>1. s.queue \in Seq(Wait) /\ w \in Wait
      BY <1>1, <1>3
    <3>2. QED
      BY <2>1, <3>1, CallsAppended
  <2>3. QED
    BY <1>3, <2>2
<1>9. But(s, t, p)
  <2> HIDE DEF new
  <2>1. \A q \in Panel \ {p} : t.panel[q] = s.panel[q]
    BY <1>1, <1>6
  <2>2. \A q \in Panel \ {p} : CallsFor(t, q) = CallsFor(s, q)
    BY <1>8
  <2>3. QED
    BY <1>6, <2>1, <2>2 DEF But
<1>10. t.panel[p] = new
  BY <1>1, <1>6
<1>11. Fit(new, CallsFor(t, p))
  <2>1. CallsFor(t, p) = CallsFor(s, p) \cup {<<call, n>>}
    BY <1>8
  <2>2. Numbered(new)
    BY <1>1, <1>2 DEF Fit, Numbered, PanelRecord
  <2>3. Moves(new, CallsFor(t, p))
    <3>1. new.transitioning = s.panel[p].transitioning \cup {n}
      BY <1>1 DEF PanelRecord
    <3>2. s.panel[p].transitioning = {c[2] : c \in CallsFor(s, p)}
      BY <1>1 DEF Fit, Moves
    <3>3. new.transitioning = {c[2] : c \in CallsFor(t, p)}
      <4>1. <<call, n>>[2] = n
        OBVIOUS
      <4>2. QED
        BY <2>1, <3>1, <3>2, <4>1, Zenon
    <3>4. new.wanted <=> \E c \in CallsFor(t, p) : c[1] = "shown"
      <4>1. new.wanted = (call = "shown")
        BY <1>1 DEF PanelRecord
      <4>2. \A c \in CallsFor(t, p) : c = <<call, n>> \/ (call # "hidden" /\ c \in CallsFor(s, p))
        BY <2>1
      <4>3. <<call, n>> \in CallsFor(t, p) /\ <<call, n>>[1] = call
        BY <2>1
      <4>4. QED
        BY <4>1, <4>2, <4>3
    <3>5. new.classes = {"collapsing"} /\ CallsFor(t, p) # {}
      BY <1>1, <2>1 DEF PanelRecord
    <3>6. QED
      BY <3>3, <3>4, <3>5 DEF Moves
  <2>4. Tells(new)
    BY <1>1 DEF Tells, PanelRecord
  <2>5. QED
    BY <2>2, <2>3, <2>4 DEF Fit
<1>12. Moving(s.panel[p], new, n, call)
  BY <1>1 DEF Moving, PanelRecord
<1>13. QED
  BY <1>7, <1>9, <1>10, <1>11, <1>12, SoundBut

\* What hiding does to a panel, q before and r after it: it opens nothing, and
\* an object that does not move closes an open panel.
HidBy(q, r, n) ==
  /\ r.data = q.data
  /\ r.transitioning \subseteq q.transitioning \cup {n}
  /\ "in" \in q.classes /\ n \notin q.transitioning => ~r.wanted

Yields(q, r) ==
  /\ q.made <= r.made
  /\ "in" \in r.classes => "in" \in q.classes
  /\ r.wanted => q.wanted
  /\ q.data # 0 => HidBy(q, r, q.data)

\* What tells the triggers leaves the panels alone.
Like(q, r) ==
  /\ r.classes = q.classes /\ r.data = q.data /\ r.made = q.made
  /\ r.transitioning = q.transitioning /\ r.children = q.children /\ r.wanted = q.wanted

LEMMA RecordsAre ==
  ASSUME NEW s, Sound(s)
  PROVE  /\ s = [panel |-> s.panel, queue |-> s.queue, loose |-> s.loose]
         /\ s.panel \in [Panel -> PanelRecord] /\ s.queue \in Seq(Wait) /\ s.loose \in BOOLEAN
         /\ Sorted(s.queue)
         /\ \A p \in Panel : /\ s.panel[p] \in PanelRecord
                             /\ s.panel[p].made \in Nat /\ s.panel[p].data \in Nat
                             /\ Fit(s.panel[p], CallsFor(s, p))
<1>1. s \in State
  BY DEF Sound
<1>2. /\ s = [panel |-> s.panel, queue |-> s.queue, loose |-> s.loose]
      /\ s.panel \in [Panel -> PanelRecord] /\ s.queue \in Seq(Wait) /\ s.loose \in BOOLEAN
  BY <1>1 DEF State
<1>3. \A p \in Panel : s.panel[p] \in PanelRecord
  BY <1>2
<1>4. \A q \in PanelRecord : q.made \in Nat /\ q.data \in Nat
  BY DEF PanelRecord
<1>5. QED
  BY <1>2, <1>3, <1>4 DEF Sound

\* A panel that is open does not move.
LEMMA OpenIsStill ==
  ASSUME NEW q, NEW calls, Moves(q, calls), "in" \in q.classes
  PROVE  calls = {} /\ q.classes = {"collapse", "in"} /\ q.wanted /\ q.transitioning = {}
BY DEF Moves

LEMMA HideIs ==
  ASSUME NEW s, Sound(s), NEW p \in Panel, NEW n \in 1..s.panel[p].made,
         NEW t, t = HideOf(s, p, n)
  PROVE  /\ Sound(t) /\ But(s, t, p)
         /\ t.panel[p].made = s.panel[p].made
         /\ t.panel[p].children = s.panel[p].children
         /\ "in" \in t.panel[p].classes => "in" \in s.panel[p].classes
         /\ t.panel[p].wanted => s.panel[p].wanted
         /\ HidBy(s.panel[p], t.panel[p], n)
<1>1. Fit(s.panel[p], CallsFor(s, p)) /\ s.panel[p] \in PanelRecord
  BY RecordsAre
<1>2. CASE n \in s.panel[p].transitioning \/ ~IsOpen(s, p)
  <2>1. t = s
    BY <1>2 DEF HideOf
  <2>2. QED
    BY <1>2, <2>1 DEF But, HidBy, IsOpen
<1>3. CASE ~(n \in s.panel[p].transitioning \/ ~IsOpen(s, p))
  <2>1. CallsFor(s, p) = {} /\ s.panel[p].classes = {"collapse", "in"} /\ s.panel[p].wanted
    BY <1>1, <1>3, OpenIsStill DEF Fit, IsOpen
  <2>2. (s.panel[p].classes \cup {"collapsing"}) \ {"collapse", "in"} = {"collapsing"}
    BY <2>1
  <2>3. t = Start(s, p, n, {"collapsing"}, "hidden")
    BY <1>3, <2>2 DEF HideOf
  <2>4. Sound(t) /\ But(s, t, p) /\ Moving(s.panel[p], t.panel[p], n, "hidden")
    <3>1. "hidden" \in {"shown", "hidden"} /\ CallsFor(s, p) = {}
      BY <2>1
    <3>2. QED
      BY <2>3, <3>1, StartIs, Zenon
  <2>5. QED
    BY <2>4 DEF HidBy, Moving
<1>4. QED
  BY <1>2, <1>3

\* A panel that moves is told wrong, one that does not is told right.
LEMMA AddAriaIs ==
  ASSUME NEW s, Sound(s), NEW told \in SUBSET Panel, NEW t, t = AddAria(s, told)
  PROVE  /\ Sound(t) /\ t.loose = s.loose /\ t.queue = s.queue
         /\ \A q \in Panel : /\ Like(s.panel[q], t.panel[q])
                             /\ q \notin told => t.panel[q] = s.panel[q]
<1> DEFINE new(q) == [s.panel[q] EXCEPT !.expanded = IsOpen(s, q),
                                        !.mistold = @ \/ "collapsing" \in s.panel[q].classes]
<1>1. /\ t.panel = [q \in Panel |-> IF q \in told THEN new(q) ELSE s.panel[q]]
      /\ t.queue = s.queue /\ t.loose = s.loose
      /\ t = [panel |-> t.panel, queue |-> s.queue, loose |-> s.loose]
  <2>1. s = [panel |-> s.panel, queue |-> s.queue, loose |-> s.loose]
    BY RecordsAre
  <2>2. t = [s EXCEPT !.panel = [q \in Panel |-> IF q \in told THEN new(q) ELSE s.panel[q]]]
    BY DEF AddAria
  <2> HIDE DEF new
  <2>3. QED
    BY <2>1, <2>2
<1>2. ASSUME NEW q \in Panel
      PROVE  /\ new(q) \in PanelRecord /\ Like(s.panel[q], new(q))
             /\ new(q).expanded = IsOpen(s, q)
             /\ new(q).mistold = (s.panel[q].mistold \/ "collapsing" \in s.panel[q].classes)
  <2>1. s.panel[q] \in PanelRecord
    BY RecordsAre
  <2>2. IsOpen(s, q) \in BOOLEAN
    BY DEF IsOpen
  <2>3. QED
    BY <2>1, <2>2 DEF PanelRecord, Like
<1> HIDE DEF new
<1>3. ASSUME NEW q \in Panel
      PROVE  Fit(new(q), CallsFor(s, q))
  <2>1. Fit(s.panel[q], CallsFor(s, q)) /\ Like(s.panel[q], new(q))
    BY <1>2, RecordsAre
  <2>2. Numbered(new(q)) /\ Moves(new(q), CallsFor(s, q))
    BY <2>1 DEF Fit, Numbered, Moves, Like
  <2>3. Tells(new(q))
    <3>1. SUFFICES ASSUME ~new(q).mistold
                   PROVE  new(q).expanded = new(q).wanted
      BY DEF Tells
    <3>2. "collapsing" \notin s.panel[q].classes
      BY <1>2, <3>1
    <3>3. IsOpen(s, q) = s.panel[q].wanted
      <4>1. s.panel[q].wanted \in BOOLEAN
        BY RecordsAre DEF PanelRecord
      <4>2. QED
        BY <2>1, <3>2, <4>1 DEF Fit, Moves, IsOpen
    <3>4. QED
      BY <1>2, <2>1, <3>3 DEF Like
  <2>4. QED
    BY <2>2, <2>3 DEF Fit
<1>4. \A q \in Panel : CallsFor(t, q) = CallsFor(s, q)
  BY <1>1 DEF CallsFor
<1>5. t \in State
  <2>1. t.panel \in [Panel -> PanelRecord]
    <3>1. \A q \in Panel : s.panel[q] \in PanelRecord
      BY RecordsAre
    <3>2. QED
      BY <1>1, <1>2, <3>1
  <2>2. s.queue \in Seq(Wait) /\ s.loose \in BOOLEAN
    BY RecordsAre
  <2>3. QED
    BY <1>1, <2>1, <2>2 DEF State
<1>6. QED
  <2>1. Sorted(t.queue)
    BY <1>1, RecordsAre
  <2>2. ASSUME NEW q \in Panel
        PROVE  /\ Fit(t.panel[q], CallsFor(t, q)) /\ Like(s.panel[q], t.panel[q])
               /\ q \notin told => t.panel[q] = s.panel[q]
    <3>1. CASE q \in told
      BY <1>1, <1>2, <1>3, <1>4, <3>1
    <3>2. CASE q \notin told
      BY <1>1, <1>4, <3>2, RecordsAre DEF Like
    <3>3. QED
      BY <3>1, <3>2
  <2>3. QED
    BY <1>1, <1>5, <2>1, <2>2 DEF Sound

\* A new object has the next number, and leaves the panels as they are.
LEMMA ConstructIs ==
  ASSUME NEW s, Sound(s), NEW p \in Panel, NEW child \in BOOLEAN,
         NEW t, t = Construct(s, p, child)
  PROVE  /\ Sound(t) /\ t.loose = s.loose /\ t.queue = s.queue
         /\ \A q \in Panel \ {p} : /\ Like(s.panel[q], t.panel[q])
                                   /\ ~child => t.panel[q] = s.panel[q]
         /\ LET q == s.panel[p]
                r == t.panel[p]
            IN /\ r.made = q.made + 1 /\ r.data = q.data /\ r.classes = q.classes
               /\ r.transitioning = q.transitioning /\ r.wanted = q.wanted
               /\ r.children = q.children \cup (IF child THEN {r.made} ELSE {})
<1> DEFINE n == s.panel[p].made + 1
           children == s.panel[p].children \cup (IF child THEN {n} ELSE {})
           new == [s.panel[p] EXCEPT !.made = n, !.children = children]
           made == [panel |-> [s.panel EXCEPT ![p] = new], queue |-> s.queue, loose |-> s.loose]
           told == IF child THEN Panel ELSE {p}
<1>1. /\ s.panel[p] \in PanelRecord /\ s.panel \in [Panel -> PanelRecord]
      /\ s.panel[p].made \in Nat /\ Fit(s.panel[p], CallsFor(s, p))
  BY RecordsAre
<1>2. t = AddAria(made, told)
  <2>1. s = [panel |-> s.panel, queue |-> s.queue, loose |-> s.loose]
    BY RecordsAre
  <2>2. made = [s EXCEPT !.panel[p] = [s.panel[p] EXCEPT
           !.made = n, !.children = IF child THEN @ \cup {n} ELSE @]]
    <3>1. children = IF child THEN s.panel[p].children \cup {n} ELSE s.panel[p].children
      OBVIOUS
    <3> HIDE DEF children, n
    <3>2. QED
      BY <2>1, <3>1
  <2>3. QED
    BY <2>2 DEF Construct
<1>3. children \in SUBSET Object /\ n \in Nat
  BY <1>1 DEF PanelRecord, Object
<1>4. /\ new \in PanelRecord
      /\ new.made = n /\ new.data = s.panel[p].data /\ new.classes = s.panel[p].classes
      /\ new.transitioning = s.panel[p].transitioning /\ new.wanted = s.panel[p].wanted
      /\ new.children = children
      /\ new.expanded = s.panel[p].expanded /\ new.mistold = s.panel[p].mistold
  <2> HIDE DEF children, n
  <2>1. QED
    BY <1>1, <1>3 DEF PanelRecord
<1> HIDE DEF new
<1>5. Fit(new, CallsFor(s, p))
  <2>1. s.panel[p].data \in Nat
    BY RecordsAre
  <2>2. Numbered(new)
    BY <1>1, <1>4, <2>1 DEF Fit, Numbered
  <2>3. QED
    BY <1>1, <1>4, <2>2 DEF Fit, Moves, Tells
<1>6. /\ made.panel[p] = new
      /\ \A q \in Panel \ {p} : made.panel[q] = s.panel[q]
      /\ \A q \in Panel : CallsFor(made, q) = CallsFor(s, q)
  BY <1>1 DEF CallsFor
<1>7. Sound(made)
  <2>1. made.panel \in [Panel -> PanelRecord]
    BY <1>1, <1>4
  <2>2. made \in State
    BY <2>1, RecordsAre DEF State
  <2>3. Sorted(made.queue) /\ But(s, made, p)
    BY <1>6, RecordsAre DEF But
  <2>4. QED
    BY <1>5, <1>6, <2>2, <2>3, SoundBut
<1>8. told \in SUBSET Panel
  OBVIOUS
<1>9. made.queue = s.queue /\ made.loose = s.loose
  OBVIOUS
<1> HIDE DEF made, told, children
<1>10. /\ Sound(t) /\ t.loose = s.loose /\ t.queue = s.queue
       /\ \A q \in Panel : /\ Like(made.panel[q], t.panel[q])
                           /\ q \notin told => t.panel[q] = made.panel[q]
  BY <1>2, <1>7, <1>8, <1>9, AddAriaIs
<1>11. ~child => told = {p}
  BY DEF told
<1>12. \A q \in Panel \ {p} : /\ Like(s.panel[q], t.panel[q])
                              /\ ~child => t.panel[q] = s.panel[q]
  BY <1>6, <1>10, <1>11
<1>13. Like(new, t.panel[p])
  BY <1>6, <1>10
<1>14. /\ t.panel[p].made = n /\ t.panel[p].data = s.panel[p].data
       /\ t.panel[p].classes = s.panel[p].classes /\ t.panel[p].wanted = s.panel[p].wanted
       /\ t.panel[p].transitioning = s.panel[p].transitioning
       /\ t.panel[p].children = children
  BY <1>4, <1>13 DEF Like
<1>15. QED
  BY <1>10, <1>12, <1>14 DEF children

\* The panel gets another object.
Labelled(q, r, n) ==
  /\ r.data = n
  /\ r.classes = q.classes /\ r.made = q.made /\ r.transitioning = q.transitioning
  /\ r.children = q.children /\ r.wanted = q.wanted

LEMMA WithDataIs ==
  ASSUME NEW s, Sound(s), NEW p \in Panel, NEW n \in 0..s.panel[p].made,
         NEW t, t = [s EXCEPT !.panel[p].data = n]
  PROVE  /\ Sound(t) /\ But(s, t, p) /\ t.queue = s.queue
         /\ Labelled(s.panel[p], t.panel[p], n)
         /\ CallsFor(t, p) = CallsFor(s, p)
<1> DEFINE new == [s.panel[p] EXCEPT !.data = n]
<1>1. /\ s.panel[p] \in PanelRecord /\ s.panel \in [Panel -> PanelRecord]
      /\ s.panel[p].made \in Nat /\ Fit(s.panel[p], CallsFor(s, p))
      /\ s = [panel |-> s.panel, queue |-> s.queue, loose |-> s.loose]
  BY RecordsAre
<1>2. t = [panel |-> [s.panel EXCEPT ![p] = new], queue |-> s.queue, loose |-> s.loose]
  BY <1>1
<1>3. /\ t.queue = s.queue /\ t.loose = s.loose /\ t.panel = [s.panel EXCEPT ![p] = new]
  BY <1>2
<1>4. new \in PanelRecord /\ Fit(new, CallsFor(s, p)) /\ Labelled(s.panel[p], new, n)
  <2>1. /\ new \in PanelRecord
        /\ new.data = n /\ new.made = s.panel[p].made /\ new.children = s.panel[p].children
        /\ new.classes = s.panel[p].classes /\ new.transitioning = s.panel[p].transitioning
        /\ new.wanted = s.panel[p].wanted /\ new.expanded = s.panel[p].expanded
        /\ new.mistold = s.panel[p].mistold
    BY <1>1 DEF PanelRecord
  <2> HIDE DEF new
  <2>2. QED
    BY <1>1, <2>1 DEF Fit, Numbered, Moves, Tells, Labelled
<1>5. \A q \in Panel : CallsFor(t, q) = CallsFor(s, q)
  BY <1>3 DEF CallsFor
<1> HIDE DEF new
<1>6. t.panel[p] = new /\ But(s, t, p)
  BY <1>1, <1>3, <1>5 DEF But
<1>7. t \in State
  <2>1. t.panel \in [Panel -> PanelRecord]
    BY <1>1, <1>3, <1>4
  <2>2. QED
    BY <1>2, <1>3, <2>1, RecordsAre DEF State
<1>8. Sound(t)
  <2>1. Sorted(t.queue)
    BY <1>3, RecordsAre
  <2>2. QED
    BY <1>4, <1>5, <1>6, <1>7, <2>1, SoundBut
<1>9. QED
  BY <1>3, <1>4, <1>5, <1>6, <1>8

LEMMA ButTwice ==
  ASSUME NEW s, NEW t, NEW u, NEW p \in Panel, But(s, t, p), But(t, u, p)
  PROVE  But(s, u, p)
BY DEF But

\* Plugin.call(q, 'hide'), whether or not the panel has an object.
LEMMA HideActiveIs ==
  ASSUME NEW s, Sound(s), NEW q \in Panel, NEW t, t = HideActive(s, q)
  PROVE  Sound(t) /\ But(s, t, q) /\ Yields(s.panel[q], t.panel[q])
<1>1. s.panel[q].made \in Nat /\ s.panel[q].data \in Nat /\ s.panel[q].data <= s.panel[q].made
  BY RecordsAre DEF Fit, Numbered
<1>2. CASE s.panel[q].data # 0
  <2>1. s.panel[q].data \in 1..s.panel[q].made
    BY <1>1, <1>2
  <2>2. t = HideOf(s, q, s.panel[q].data)
    BY <1>2 DEF HideActive
  <2>3. /\ Sound(t) /\ But(s, t, q)
        /\ t.panel[q].made = s.panel[q].made
        /\ "in" \in t.panel[q].classes => "in" \in s.panel[q].classes
        /\ t.panel[q].wanted => s.panel[q].wanted
        /\ HidBy(s.panel[q], t.panel[q], s.panel[q].data)
    BY <2>1, <2>2, HideIs
  <2>4. QED
    BY <1>1, <2>3 DEF Yields
<1>3. CASE s.panel[q].data = 0
  <2>1. PICK child \in BOOLEAN : child = FALSE
    OBVIOUS
  <2>2. PICK c : c = Construct(s, q, child)
    OBVIOUS
  <2>3. PICK n \in Nat : n = s.panel[q].made + 1 /\ n # 0
    BY <1>1
  <2>4. PICK d : d = [c EXCEPT !.panel[q].data = n]
    OBVIOUS
  <2>5. /\ Sound(c) /\ c.loose = s.loose /\ c.queue = s.queue
        /\ \A r \in Panel \ {q} : c.panel[r] = s.panel[r]
        /\ c.panel[q].made = n /\ c.panel[q].classes = s.panel[q].classes
        /\ c.panel[q].wanted = s.panel[q].wanted
    BY <2>1, <2>2, <2>3, ConstructIs
  <2>6. But(s, c, q)
    BY <2>5 DEF But, CallsFor
  <2>7. n \in 0..c.panel[q].made
    BY <2>3, <2>5
  <2>8. Sound(d) /\ But(c, d, q) /\ Labelled(c.panel[q], d.panel[q], n)
    BY <2>4, <2>5, <2>7, WithDataIs
  <2>9. /\ d.panel[q].made = n /\ d.panel[q].classes = s.panel[q].classes
        /\ d.panel[q].wanted = s.panel[q].wanted
    BY <2>5, <2>8 DEF Labelled
  <2>10. n \in 1..d.panel[q].made
    BY <2>3, <2>9
  <2>11. /\ Sound(t) /\ But(d, t, q)
         /\ t.panel[q].made = d.panel[q].made
         /\ "in" \in t.panel[q].classes => "in" \in d.panel[q].classes
         /\ t.panel[q].wanted => d.panel[q].wanted
    <3>1. t = HideOf(d, q, n)
      BY <1>3, <2>1, <2>2, <2>3, <2>4 DEF HideActive
    <3>2. Sound(d)
      BY <2>8
    <3>3. QED
      BY <2>10, <3>1, <3>2, HideIs
  <2>12. But(s, t, q)
    BY <2>6, <2>8, <2>11, ButTwice
  <2>13. QED
    BY <1>1, <1>3, <2>3, <2>9, <2>11, <2>12 DEF Yields
<1>4. QED
  BY <1>2, <1>3

-----------------------------------------------------------------------------
(* The methods that go over several panels *)

\* Hiding several panels hides each of them, and touches no other.
LEMMA HideActivesIs ==
  ASSUME NEW s, Sound(s), NEW actives \in SUBSET Panel, NEW t, t = HideActives(s, actives)
  PROVE  /\ Sound(t) /\ t.loose = s.loose
         /\ \A q \in actives : Yields(s.panel[q], t.panel[q])
         /\ \A q \in Panel \ actives : /\ t.panel[q] = s.panel[q]
                                       /\ CallsFor(t, q) = CallsFor(s, q)
<1> DEFINE S == {u \in State : Sound(u)}
           loop(f) == [q \in 0..Panels |->
             IF q = 0 THEN s
             ELSE IF q \in actives THEN HideActive(f[q - 1], q) ELSE f[q - 1]]
<1>1. s \in S /\ Panels \in Nat /\ Panel = 1..Panels
  BY PanelsAre DEF Sound
<1>2. \E f : f = loop(f)
  <2>1. \A q \in Panel, u \in S : HideActive(u, q) \in S
    BY HideActiveIs DEF Sound
  <2> HIDE DEF S
  <2>2. PICK step \in [(1..Panels) \X S -> S] :
          \A q \in 1..Panels, u \in S :
            step[<<q, u>>] = IF q \in actives THEN HideActive(u, q) ELSE u
    <3> DEFINE g == [x \in (1..Panels) \X S |->
                      IF x[1] \in actives THEN HideActive(x[2], x[1]) ELSE x[2]]
    <3>1. g \in [(1..Panels) \X S -> S]
      BY <1>1, <2>1
    <3>2. \A q \in 1..Panels, u \in S : g[<<q, u>>] = IF q \in actives THEN HideActive(u, q) ELSE u
      OBVIOUS
    <3>3. QED
      BY <3>1, <3>2
  <2>3. Panels \in Nat /\ s \in S /\ step \in [(1..Panels) \X S -> S]
    BY <1>1, <2>2
  <2>4. PICK f : LoopRun(f, Panels, S, s, step)
    BY <2>3, LoopRuns, Zenon
  <2>5. f \in [0..Panels -> S] /\ f[0] = s /\ \A q \in 1..Panels : f[q] = step[<<q, f[q - 1]>>]
    BY <2>4 DEF LoopRun
  <2>6. ASSUME NEW q \in 0..Panels
        PROVE  f[q] = IF q = 0 THEN s
                      ELSE IF q \in actives THEN HideActive(f[q - 1], q) ELSE f[q - 1]
    <3>1. CASE q = 0
      BY <2>5, <3>1
    <3>2. CASE q # 0
      <4>1. q \in 1..Panels /\ q - 1 \in 0..Panels
        BY <1>1, <3>2
      <4>2. f[q - 1] \in S
        BY <2>5, <4>1
      <4>3. QED
        BY <2>2, <2>5, <3>2, <4>1, <4>2
    <3>3. QED
      BY <3>1, <3>2
  <2>7. f = loop(f)
    BY <2>5, <2>6
  <2>8. QED
    BY <2>7
<1>3. PICK hidden : hidden = loop(hidden) /\ t = hidden[Panels]
  <2>1. PICK hidden : hidden = CHOOSE f : f = loop(f)
    OBVIOUS
  <2>2. hidden = loop(hidden)
    BY <1>2, <2>1
  <2>3. t = hidden[Panels]
    BY <2>1 DEF HideActives
  <2>4. QED
    BY <2>2, <2>3
<1>4. /\ hidden[0] = s
      /\ \A q \in Panel : hidden[q] = IF q \in actives THEN HideActive(hidden[q - 1], q)
                                                       ELSE hidden[q - 1]
  BY <1>1, <1>3
<1> HIDE DEF S, loop
<1> DEFINE Hidden(k, u) ==
             /\ Sound(u) /\ u.loose = s.loose
             /\ \A q \in Panel : IF q \in actives /\ q <= k
                                 THEN Yields(s.panel[q], u.panel[q])
                                 ELSE u.panel[q] = s.panel[q] /\ CallsFor(u, q) = CallsFor(s, q)
           K == {k \in 0..Panels : Hidden(k, hidden[k])}
<1>5. 0 \in K
  <2>1. \A q \in Panel : ~(q <= 0)
    BY <1>1
  <2>2. Hidden(0, hidden[0])
    BY <1>4, <2>1
  <2>3. QED
    BY <1>1, <2>2
<1>6. ASSUME NEW k \in 0..(Panels - 1), k \in K
      PROVE  k + 1 \in K
  <2>1. Hidden(k, hidden[k])
    BY <1>6
  <2>2. PICK p \in Panel : p = k + 1 /\ p - 1 = k
    BY <1>1
  <2>3. \A q \in Panel : q <= k + 1 <=> q <= k \/ q = p
    BY <1>1, <2>2
  <2>4. ~(p <= k)
    BY <1>1, <2>2
  <2>5. Hidden(k + 1, hidden[p])
    <3>1. CASE p \in actives
      <4>1. hidden[p] = HideActive(hidden[k], p)
        BY <1>4, <2>2, <3>1
      <4>2. /\ Sound(hidden[p]) /\ But(hidden[k], hidden[p], p)
            /\ Yields(hidden[k].panel[p], hidden[p].panel[p])
        BY <2>1, <4>1, HideActiveIs
      <4>3. hidden[k].panel[p] = s.panel[p]
        BY <2>1, <2>4
      <4>4. Sound(hidden[p]) /\ hidden[p].loose = s.loose
        BY <2>1, <4>2 DEF But
      <4>5. ASSUME NEW q \in Panel
            PROVE  IF q \in actives /\ q <= k + 1
                   THEN Yields(s.panel[q], hidden[p].panel[q])
                   ELSE hidden[p].panel[q] = s.panel[q] /\ CallsFor(hidden[p], q) = CallsFor(s, q)
        <5>1. CASE q = p
          BY <2>3, <3>1, <4>2, <4>3, <5>1
        <5>2. CASE q # p
          <6>1. /\ hidden[p].panel[q] = hidden[k].panel[q]
                /\ CallsFor(hidden[p], q) = CallsFor(hidden[k], q)
            BY <4>2, <5>2 DEF But
          <6>2. QED
            BY <2>1, <2>3, <5>2, <6>1
        <5>3. QED
          BY <5>1, <5>2
      <4>6. QED
        BY <4>4, <4>5
    <3>2. CASE p \notin actives
      <4>1. hidden[p] = hidden[k]
        BY <1>4, <2>2, <3>2
      <4>2. QED
        BY <2>1, <2>3, <3>2, <4>1
    <3>3. QED
      BY <3>1, <3>2
  <2>6. QED
    BY <1>1, <2>2, <2>5
<1> HIDE DEF K
<1>7. 0..Panels \subseteq K
  BY <1>1, <1>5, <1>6, UpTo
<1>8. Hidden(Panels, t)
  BY <1>1, <1>3, <1>7 DEF K
<1>9. \A q \in Panel : q <= Panels
  BY <1>1
<1>10. QED
  BY <1>8, <1>9

LEMMA ForgetIs ==
  ASSUME NEW s, Sound(s), NEW actives \in SUBSET Panel, NEW t, t = Forget(s, actives)
  PROVE  /\ Sound(t) /\ t.loose = s.loose
         /\ \A q \in actives : Labelled(s.panel[q], t.panel[q], 0)
         /\ \A q \in Panel \ actives : t.panel[q] = s.panel[q]
<1> DEFINE new(q) == [s.panel[q] EXCEPT !.data = 0]
<1>1. /\ t.panel = [q \in Panel |-> IF q \in actives THEN new(q) ELSE s.panel[q]]
      /\ t.queue = s.queue /\ t.loose = s.loose
      /\ t = [panel |-> t.panel, queue |-> s.queue, loose |-> s.loose]
  <2>1. s = [panel |-> s.panel, queue |-> s.queue, loose |-> s.loose]
    BY RecordsAre
  <2>2. t = [s EXCEPT !.panel = [q \in Panel |-> IF q \in actives THEN new(q) ELSE s.panel[q]]]
    BY DEF Forget
  <2> HIDE DEF new
  <2>3. QED
    BY <2>1, <2>2
<1>2. ASSUME NEW q \in Panel
      PROVE  /\ new(q) \in PanelRecord /\ Labelled(s.panel[q], new(q), 0)
             /\ Fit(new(q), CallsFor(s, q))
  <2>1. s.panel[q] \in PanelRecord /\ Fit(s.panel[q], CallsFor(s, q)) /\ s.panel[q].made \in Nat
    BY RecordsAre
  <2>2. /\ new(q) \in PanelRecord /\ Labelled(s.panel[q], new(q), 0)
        /\ new(q).expanded = s.panel[q].expanded /\ new(q).mistold = s.panel[q].mistold
    BY <2>1 DEF PanelRecord, Labelled
  <2> HIDE DEF new
  <2>3. QED
    BY <2>1, <2>2 DEF Fit, Numbered, Moves, Tells, Labelled
<1> HIDE DEF new
<1>3. \A q \in Panel : CallsFor(t, q) = CallsFor(s, q)
  BY <1>1 DEF CallsFor
<1>4. t \in State
  <2>1. t.panel \in [Panel -> PanelRecord]
    <3>1. \A q \in Panel : s.panel[q] \in PanelRecord
      BY RecordsAre
    <3>2. QED
      BY <1>1, <1>2, <3>1
  <2>2. s.queue \in Seq(Wait) /\ s.loose \in BOOLEAN
    BY RecordsAre
  <2>3. QED
    BY <1>1, <2>1, <2>2 DEF State
<1>5. Sorted(t.queue)
  BY <1>1, RecordsAre
<1>6. \A q \in Panel : Fit(t.panel[q], CallsFor(t, q))
  <2>1. \A q \in Panel : Fit(s.panel[q], CallsFor(s, q))
    BY RecordsAre
  <2>2. QED
    BY <1>1, <1>2, <1>3, <2>1
<1>7. QED
  BY <1>1, <1>2, <1>4, <1>5, <1>6 DEF Sound

\* A show that is not given up: u is what it finds when the others have been
\* told to hide.
LEMMA ShowSteps ==
  ASSUME NEW s, Sound(s), NEW p \in Panel, NEW n \in 1..s.panel[p].made,
         NEW t, t = ShowOf(s, p, n), NEW actives \in SUBSET Panel, actives = Actives(s, p, n),
         n \notin s.panel[p].transitioning, ~IsOpen(s, p), ~Blocked(s, actives)
  PROVE  \E u :
           /\ Sound(u) /\ Sound(t) /\ But(u, t, p)
           /\ Moving(u.panel[p], t.panel[p], n, "shown")
           /\ u.loose = (s.loose \/ n \notin s.panel[p].children)
           /\ s.panel[p].made <= u.panel[p].made
           /\ \A q \in Panel \ actives : u.panel[q] = s.panel[q]
           /\ (\A q \in actives : s.panel[q].data # 0) =>
                \A q \in actives : Yields(s.panel[q], u.panel[q])
<1>1. PICK hidden : hidden = HideActives(s, actives)
  OBVIOUS
<1>2. /\ Sound(hidden) /\ hidden.loose = s.loose
      /\ \A q \in actives : Yields(s.panel[q], hidden.panel[q])
      /\ \A q \in Panel \ actives : hidden.panel[q] = s.panel[q]
  BY <1>1, HideActivesIs
<1>3. PICK alone : alone = IF actives # {} /\ s.panel[Min(actives)].data = 0
                           THEN Forget(hidden, actives) ELSE hidden
  OBVIOUS
<1>4. /\ Sound(alone) /\ alone.loose = s.loose
      /\ \A q \in Panel \ actives : alone.panel[q] = s.panel[q]
      /\ \A q \in Panel : /\ "in" \in alone.panel[q].classes => "in" \in s.panel[q].classes
                          /\ s.panel[q].made <= alone.panel[q].made
      /\ (\A q \in actives : s.panel[q].data # 0) =>
           \A q \in actives : Yields(s.panel[q], alone.panel[q])
  <2>1. \A q \in Panel : s.panel[q].made \in Nat
    BY RecordsAre
  <2>2. \A q \in Panel : /\ "in" \in hidden.panel[q].classes => "in" \in s.panel[q].classes
                         /\ s.panel[q].made <= hidden.panel[q].made
    <3>1. ASSUME NEW q \in Panel
          PROVE  /\ "in" \in hidden.panel[q].classes => "in" \in s.panel[q].classes
                 /\ s.panel[q].made <= hidden.panel[q].made
      <4>1. CASE q \in actives
        BY <1>2, <4>1 DEF Yields
      <4>2. CASE q \notin actives
        BY <1>2, <2>1, <4>2
      <4>3. QED
        BY <4>1, <4>2
    <3>2. QED
      BY <3>1
  <2>3. CASE actives # {} /\ s.panel[Min(actives)].data = 0
    <3>1. alone = Forget(hidden, actives)
      BY <1>3, <2>3
    <3>2. /\ Sound(alone) /\ alone.loose = hidden.loose
          /\ \A q \in actives : Labelled(hidden.panel[q], alone.panel[q], 0)
          /\ \A q \in Panel \ actives : alone.panel[q] = hidden.panel[q]
      BY <1>2, <3>1, ForgetIs
    <3>3. \A q \in Panel : /\ alone.panel[q].classes = hidden.panel[q].classes
                           /\ alone.panel[q].made = hidden.panel[q].made
      BY <3>2 DEF Labelled
    <3>4. Min(actives) \in actives
      BY <2>3, LeastPanel
    <3>5. QED
      BY <1>2, <2>2, <2>3, <3>2, <3>3, <3>4
  <2>4. CASE ~(actives # {} /\ s.panel[Min(actives)].data = 0)
    <3>1. alone = hidden
      BY <1>3, <2>4
    <3>2. QED
      BY <1>2, <2>2, <3>1
  <2>5. QED
    BY <2>3, <2>4
<1>5. PICK u : u = [alone EXCEPT !.loose = @ \/ n \notin s.panel[p].children]
  OBVIOUS
<1>6. /\ u.panel = alone.panel /\ u.queue = alone.queue
      /\ u.loose = (s.loose \/ n \notin s.panel[p].children)
      /\ u = [panel |-> alone.panel, queue |-> alone.queue, loose |-> u.loose]
  <2>1. alone = [panel |-> alone.panel, queue |-> alone.queue, loose |-> alone.loose]
    BY <1>4, RecordsAre
  <2>2. QED
    BY <1>4, <1>5, <2>1
<1>7. Sound(u)
  <2>1. u.loose \in BOOLEAN
    BY <1>6, RecordsAre
  <2>2. u \in State
    BY <1>4, <1>6, <2>1, RecordsAre DEF State
  <2>3. \A q \in Panel : CallsFor(u, q) = CallsFor(alone, q)
    BY <1>6 DEF CallsFor
  <2>4. QED
    BY <1>4, <1>6, <2>2, <2>3 DEF Sound
<1>8. "in" \notin u.panel[p].classes /\ n \in 1..u.panel[p].made
  <2>1. alone.panel[p].made \in Nat /\ s.panel[p].made \in Nat
    BY <1>4, RecordsAre
  <2>2. QED
    BY <1>4, <1>6, <2>1 DEF IsOpen
<1>9. (alone.panel[p].classes \cup {"collapsing"}) \ {"collapse"} = {"collapsing"}
  <2>1. Fit(u.panel[p], CallsFor(u, p))
    BY <1>7, RecordsAre
  <2>2. u.panel[p].classes \in {{"collapse"}, {"collapsing"}}
    BY <1>8, <2>1 DEF Fit, Moves
  <2>3. QED
    BY <1>6, <2>2
<1>10. t = Start(u, p, n, {"collapsing"}, "shown")
  BY <1>1, <1>3, <1>5, <1>9 DEF ShowOf
<1>11. /\ Sound(t) /\ But(u, t, p) /\ Moving(u.panel[p], t.panel[p], n, "shown")
  <2>1. "shown" \in {"shown", "hidden"} /\ ~("shown" = "hidden")
    OBVIOUS
  <2>2. QED
    BY <1>7, <1>8, <1>10, <2>1, StartIs, Zenon
<1>12. QED
  BY <1>4, <1>6, <1>7, <1>11

LEMMA ShowIs ==
  ASSUME NEW s, Sound(s), NEW p \in Panel, NEW n \in 1..s.panel[p].made,
         NEW t, t = ShowOf(s, p, n)
  PROVE  Sound(t) /\ s.panel[p].made <= t.panel[p].made
<1>1. PICK actives : actives = Actives(s, p, n)
  OBVIOUS
<1>2. actives \in SUBSET Panel /\ s.panel[p].made \in Nat
  BY <1>1, RecordsAre DEF Actives
<1>3. CASE n \in s.panel[p].transitioning \/ IsOpen(s, p) \/ Blocked(s, actives)
  <2>1. t = s
    BY <1>1, <1>3 DEF ShowOf
  <2>2. QED
    BY <1>2, <2>1
<1>4. CASE ~(n \in s.panel[p].transitioning \/ IsOpen(s, p) \/ Blocked(s, actives))
  <2>1. PICK u : /\ Sound(t) /\ Moving(u.panel[p], t.panel[p], n, "shown")
                 /\ s.panel[p].made <= u.panel[p].made
    BY <1>1, <1>2, <1>4, ShowSteps
  <2>2. QED
    BY <2>1 DEF Moving
<1>5. QED
  BY <1>3, <1>4

LEMMA ToggleIs ==
  ASSUME NEW s, Sound(s), NEW p \in Panel, NEW n \in 1..s.panel[p].made,
         NEW t, t = ToggleOf(s, p, n)
  PROVE  Sound(t) /\ s.panel[p].made <= t.panel[p].made
<1>1. s.panel[p].made \in Nat
  BY RecordsAre
<1>2. CASE IsOpen(s, p)
  BY <1>1, <1>2, HideIs DEF ToggleOf
<1>3. CASE ~IsOpen(s, p)
  BY <1>3, ShowIs DEF ToggleOf
<1>4. QED
  BY <1>2, <1>3

LEMMA MakeIs ==
  ASSUME NEW s, Sound(s), NEW p \in Panel, NEW child \in BOOLEAN, NEW toggle \in BOOLEAN,
         NEW t, t = Make(s, p, child, toggle)
  PROVE  Sound(t) /\ t.panel[p].data \in 1..t.panel[p].made
<1>1. PICK c : c = Construct(s, p, child)
  OBVIOUS
<1>2. PICK n \in Nat : n = s.panel[p].made + 1 /\ n # 0
  BY RecordsAre
<1>3. Sound(c) /\ c.panel[p].made = n
  BY <1>1, <1>2, ConstructIs
<1>4. PICK d : d = IF toggle THEN ToggleOf(c, p, n) ELSE c
  OBVIOUS
<1>5. Sound(d) /\ n <= d.panel[p].made
  <2>1. n \in 1..c.panel[p].made
    BY <1>2, <1>3
  <2>2. CASE toggle
    BY <1>3, <1>4, <2>1, <2>2, ToggleIs
  <2>3. CASE ~toggle
    BY <1>2, <1>3, <1>4, <2>3
  <2>4. QED
    BY <2>2, <2>3
<1>6. t = [d EXCEPT !.panel[p].data = n]
  BY <1>1, <1>2, <1>4 DEF Make
<1>7. n \in 0..d.panel[p].made /\ d.panel[p].made \in Nat
  BY <1>2, <1>5, RecordsAre
<1>8. Sound(t) /\ Labelled(d.panel[p], t.panel[p], n)
  <2>1. Sound(d) /\ n \in 0..d.panel[p].made
    BY <1>5, <1>7
  <2>2. PICK e : e = [d EXCEPT !.panel[p].data = n]
    OBVIOUS
  <2>3. Sound(e) /\ Labelled(d.panel[p], e.panel[p], n)
    BY <2>1, <2>2, WithDataIs
  <2>4. t = e
    BY <1>6, <2>2
  <2>5. QED
    BY <2>3, <2>4
<1>9. QED
  BY <1>2, <1>7, <1>8 DEF Labelled

-----------------------------------------------------------------------------
(* Time *)

\* What is left of the queue when an element's callbacks have run.
LEMMA WithoutPanelIs ==
  ASSUME NEW waiting \in Seq(Wait), Sorted(waiting), NEW el,
         NEW rest, rest = WithoutElement(waiting, el)
  PROVE  /\ rest \in Seq(Wait) /\ Sorted(rest)
         /\ \A w : (\E i \in DOMAIN rest : rest[i] = w) <=>
                   (\E i \in DOMAIN waiting : waiting[i] = w /\ w.el # el)
<1>1. /\ rest \in Seq(Wait) /\ Sorted(rest)
      /\ \E f : Picked(waiting, rest, f, Len(waiting), el)
  BY WithoutIs DEF Wait
<1>2. PICK f : Picked(waiting, rest, f, Len(waiting), el)
  BY <1>1
<1>3. DOMAIN rest = 1..Len(rest) /\ DOMAIN waiting = 1..Len(waiting)
  BY <1>1
<1>4. /\ \A i \in 1..Len(rest) : /\ f[i] \in 1..Len(waiting)
                                /\ rest[i] = waiting[f[i]] /\ waiting[f[i]].el # el
      /\ \A j \in 1..Len(waiting) : waiting[j].el # el => \E i \in 1..Len(rest) : f[i] = j
  BY <1>2 DEF Picked
<1>5. ASSUME NEW w
      PROVE  (\E i \in DOMAIN rest : rest[i] = w) <=>
             (\E i \in DOMAIN waiting : waiting[i] = w /\ w.el # el)
  BY <1>3, <1>4
<1>6. QED
  BY <1>1, <1>5

\* The callbacks of a panel run together: it comes to rest.
LEMMA CompleteIs ==
  ASSUME NEW s, Sound(s), NEW p \in Panel, CallsFor(s, p) # {},
         NEW u, u = [s EXCEPT !.queue = WithoutElement(@, p)],
         NEW t, t = Complete(u, p, CallsFor(s, p))
  PROVE  /\ Sound(t) /\ But(s, t, p)
         /\ t.panel[p].transitioning = {} /\ t.panel[p].data = s.panel[p].data
         /\ t.panel[p].wanted = s.panel[p].wanted
<1> DEFINE calls == CallsFor(s, p)
           shown == {call \in calls : call[1] = "shown"}
           classes == {"collapse"} \cup {"in" : call \in shown}
           new == [s.panel[p] EXCEPT !.classes = classes, !.transitioning = {}]
<1>1. /\ s.panel[p] \in PanelRecord /\ s.panel \in [Panel -> PanelRecord]
      /\ s.queue \in Seq(Wait) /\ Sorted(s.queue)
      /\ s = [panel |-> s.panel, queue |-> s.queue, loose |-> s.loose]
  BY RecordsAre
<1>2. /\ Numbered(s.panel[p]) /\ Tells(s.panel[p])
      /\ s.panel[p].classes = {"collapsing"}
      /\ s.panel[p].wanted <=> \E call \in calls : call[1] = "shown"
      /\ s.panel[p].transitioning = {call[2] : call \in calls}
  BY RecordsAre DEF Fit, Moves
<1>3. PICK rest : rest = WithoutElement(s.queue, p)
  OBVIOUS
<1>4. /\ rest \in Seq(Wait) /\ Sorted(rest)
      /\ \A w : (\E i \in DOMAIN rest : rest[i] = w) <=>
                (\E i \in DOMAIN s.queue : s.queue[i] = w /\ w.el # p)
  BY <1>1, <1>3, WithoutPanelIs
<1>5. u = [panel |-> s.panel, queue |-> rest, loose |-> s.loose]
  BY <1>1, <1>3
<1>6. t = [u EXCEPT !.panel[p] = new]
  <2>1. u.panel = s.panel
    BY <1>5
  <2>2. (s.panel[p].classes \ {"collapsing"}) \cup {"collapse"} \cup {"in" : call \in shown} = classes
    BY <1>2
  <2>3. s.panel[p].transitioning \ {call[2] : call \in calls} = {}
    BY <1>2
  <2>4. [s.panel[p] EXCEPT
           !.classes = (@ \ {"collapsing"}) \cup {"collapse"} \cup {"in" : call \in shown},
           !.transitioning = @ \ {call[2] : call \in calls}] = new
    BY <2>2, <2>3
  <2>5. QED
    BY <2>1, <2>4 DEF Complete
<1>7. classes = IF s.panel[p].wanted THEN {"collapse", "in"} ELSE {"collapse"}
  <2>1. CASE shown = {}
    BY <1>2, <2>1
  <2>2. CASE shown # {}
    <3>1. s.panel[p].wanted /\ {"in" : call \in shown} = {"in"}
      BY <1>2, <2>2
    <3>2. QED
      BY <3>1
  <2>3. QED
    BY <2>1, <2>2
<1>8. /\ new \in PanelRecord
      /\ new.classes = classes /\ new.transitioning = {} /\ new.data = s.panel[p].data
      /\ new.wanted = s.panel[p].wanted /\ new.made = s.panel[p].made
      /\ new.children = s.panel[p].children /\ new.expanded = s.panel[p].expanded
      /\ new.mistold = s.panel[p].mistold
  <2> HIDE DEF classes
  <2>1. classes \in SUBSET {"collapse", "collapsing", "in"}
    BY <1>7
  <2>2. QED
    BY <1>1, <2>1 DEF PanelRecord
<1> HIDE DEF new
<1>9. /\ t.panel = [s.panel EXCEPT ![p] = new] /\ t.queue = rest /\ t.loose = s.loose
      /\ t = [panel |-> t.panel, queue |-> t.queue, loose |-> t.loose]
  <2>1. t = [panel |-> [s.panel EXCEPT ![p] = new], queue |-> rest, loose |-> s.loose]
    <3>1. u = [panel |-> u.panel, queue |-> u.queue, loose |-> u.loose]
      BY <1>5
    <3>2. u.panel = s.panel /\ u.queue = rest /\ u.loose = s.loose
      BY <1>5
    <3>3. t = [panel |-> [u.panel EXCEPT ![p] = new], queue |-> u.queue, loose |-> u.loose]
      BY <1>6, <3>1
    <3>4. QED
      BY <3>2, <3>3
  <2>2. QED
    BY <2>1
<1>10. ASSUME NEW q \in Panel
       PROVE  CallsFor(t, q) = IF q = p THEN {} ELSE CallsFor(s, q)
  <2>1. ASSUME NEW x
        PROVE  x \in CallsFor(t, q) <=> q # p /\ x \in CallsFor(s, q)
    <3>1. x \in CallsFor(t, q) <=> \E i \in DOMAIN rest : rest[i].el = q /\ rest[i].call = x
      BY <1>9 DEF CallsFor
    <3>2. x \in CallsFor(s, q) <=> \E i \in DOMAIN s.queue : s.queue[i].el = q /\ s.queue[i].call = x
      BY DEF CallsFor
    <3>3. ASSUME NEW i \in DOMAIN rest
          PROVE  \E j \in DOMAIN s.queue : s.queue[j] = rest[i] /\ rest[i].el # p
      BY <1>4, Zenon
    <3>4. ASSUME NEW j \in DOMAIN s.queue, s.queue[j].el # p
          PROVE  \E i \in DOMAIN rest : rest[i] = s.queue[j]
      BY <1>4, <3>4, Zenon
    <3>5. (\E i \in DOMAIN rest : rest[i].el = q /\ rest[i].call = x) =>
             q # p /\ \E j \in DOMAIN s.queue : s.queue[j].el = q /\ s.queue[j].call = x
      BY <3>3, Zenon
    <3>6. q # p /\ (\E j \in DOMAIN s.queue : s.queue[j].el = q /\ s.queue[j].call = x) =>
             \E i \in DOMAIN rest : rest[i].el = q /\ rest[i].call = x
      BY <3>4, Zenon
    <3>7. QED
      BY <3>1, <3>2, <3>5, <3>6, Zenon
  <2>2. QED
    BY <2>1
<1>11. Fit(new, CallsFor(t, p))
  <2>1. CallsFor(t, p) = {}
    BY <1>10
  <2>2. Numbered(new) /\ Tells(new)
    BY <1>2, <1>8 DEF Numbered, Tells
  <2>3. {call[2] : call \in CallsFor(t, p)} = {}
    BY <2>1
  <2>4. Moves(new, CallsFor(t, p))
    BY <1>7, <1>8, <2>1, <2>3 DEF Moves
  <2>5. QED
    BY <2>2, <2>4 DEF Fit
<1>12. t.panel[p] = new /\ But(s, t, p)
  BY <1>1, <1>9, <1>10 DEF But
<1>13. t \in State
  <2>1. t.panel \in [Panel -> PanelRecord]
    BY <1>1, <1>8, <1>9
  <2>2. t.loose \in BOOLEAN
    BY <1>9, RecordsAre
  <2>3. QED
    BY <1>4, <1>9, <2>1, <2>2 DEF State
<1>14. QED
  BY <1>4, <1>8, <1>9, <1>11, <1>12, <1>13, SoundBut

-----------------------------------------------------------------------------
(* The specification *)

LEMMA NowIs ==
  /\ Now.panel = panel /\ Now.queue = queue /\ Now.loose = loose
  /\ \A s : s = [panel |-> s.panel, queue |-> s.queue, loose |-> s.loose] /\ Becomes(s) => Now' = s
<1>1. Now.panel = panel /\ Now.queue = queue /\ Now.loose = loose
  BY DEF Now
<1>2. ASSUME NEW s, s = [panel |-> s.panel, queue |-> s.queue, loose |-> s.loose], Becomes(s)
      PROVE  Now' = s
  BY <1>2 DEF Becomes, Now
<1>3. QED
  BY <1>1, <1>2

LEMMA InitSound ==
  ASSUME Init
  PROVE  Sound(Now)
<1>1. PICK open \in Panel \cup {0} :
        panel = [p \in Panel |->
          [classes |-> IF p = open THEN {"collapse", "in"} ELSE {"collapse"},
           expanded |-> p = open, data |-> 0, made |-> 0,
           transitioning |-> {}, children |-> {},
           wanted |-> p = open, mistold |-> FALSE]] /\ loose = (open # 0)
  BY DEF Init
<1>2. queue = <<>>
  BY DEF Init
<1>3. \A p \in Panel : CallsFor(Now, p) = {}
  BY <1>2, NowIs DEF CallsFor
<1>4. ASSUME NEW p \in Panel
      PROVE  panel[p] \in PanelRecord /\ Fit(panel[p], {})
  <2>1. /\ panel[p].classes = IF p = open THEN {"collapse", "in"} ELSE {"collapse"}
        /\ panel[p].expanded = (p = open) /\ panel[p].data = 0 /\ panel[p].made = 0
        /\ panel[p].transitioning = {} /\ panel[p].children = {}
        /\ panel[p].wanted = (p = open) /\ panel[p].mistold = FALSE
        /\ panel[p] \in PanelRecord
    BY <1>1 DEF PanelRecord
  <2>2. Numbered(panel[p]) /\ Tells(panel[p])
    BY <2>1 DEF Numbered, Tells
  <2>3. {call[2] : call \in {}} = {}
    OBVIOUS
  <2>4. Moves(panel[p], {})
    BY <2>1, <2>3 DEF Moves
  <2>5. QED
    BY <2>1, <2>2, <2>4 DEF Fit
<1>5. panel \in [Panel -> PanelRecord]
  BY <1>1, <1>4
<1>6. Now \in State
  BY <1>1, <1>2, <1>5 DEF Now, State
<1>7. Sorted(Now.queue)
  BY <1>2, NowIs DEF Sorted
<1>8. QED
  BY <1>3, <1>4, <1>6, <1>7, NowIs DEF Sound

-----------------------------------------------------------------------------
(* An accordion that only its triggers have opened *)

\* The panel's object is n: there is one when the panel is open or moves, and
\* no other believes to move it.
Keeps(q, n) ==
  /\ q.classes \cap {"in", "collapsing"} # {} => n # 0
  /\ q.transitioning \subseteq {n}

OneWanted(s) == \A p, q \in Panel : s.panel[p].wanted /\ s.panel[q].wanted => p = q

Orderly(s) == ~s.loose => /\ \A q \in Panel : Keeps(s.panel[q], s.panel[q].data)
                          /\ OneWanted(s)

\* The same, while p's object n has not become its data yet.
OrderlyAs(s, p, n) ==
  ~s.loose => /\ Keeps(s.panel[p], n)
              /\ \A q \in Panel \ {p} : Keeps(s.panel[q], s.panel[q].data)
              /\ OneWanted(s)

LEMMA OrderlyIs ==
  ASSUME NEW s, NEW p \in Panel
  PROVE  OrderlyAs(s, p, s.panel[p].data) <=> Orderly(s)
BY DEF Orderly, OrderlyAs

\* A panel looks open or moving when a show was the last it was asked, and
\* what moves has an object that knows.
LEMMA ActiveIs ==
  ASSUME NEW s, Sound(s), NEW p \in Panel
  PROVE  /\ s.panel[p].wanted => IsActive(s, p)
         /\ IsActive(s, p) /\ s.panel[p].transitioning = {} =>
              s.panel[p].wanted /\ "in" \in s.panel[p].classes
         /\ s.panel[p].transitioning # {} => IsActive(s, p) /\ ~IsOpen(s, p)
         /\ IsActive(s, p) /\ ~IsOpen(s, p) => s.panel[p].transitioning # {}
         /\ s.panel[p].transitioning \subseteq 1..s.panel[p].made
<1> DEFINE q == s.panel[p]
           calls == CallsFor(s, p)
<1>1. Numbered(q) /\ Moves(q, calls)
  BY RecordsAre DEF Fit
<1>2. CASE calls = {}
  <2>1. /\ q.transitioning = {}
        /\ q.classes = IF q.wanted THEN {"collapse", "in"} ELSE {"collapse"}
    BY <1>1, <1>2 DEF Moves
  <2>2. QED
    BY <1>1, <2>1 DEF IsActive, IsOpen, Numbered
<1>3. CASE calls # {}
  <2>1. q.transitioning # {} /\ q.classes = {"collapsing"}
    BY <1>1, <1>3 DEF Moves
  <2>2. QED
    BY <1>1, <2>1 DEF IsActive, IsOpen, Numbered
<1>4. QED
  BY <1>2, <1>3

LEMMA HideOrderly ==
  ASSUME NEW s, Sound(s), NEW p \in Panel, NEW n \in 1..s.panel[p].made, OrderlyAs(s, p, n),
         NEW t, t = HideOf(s, p, n)
  PROVE  OrderlyAs(t, p, n) /\ (~t.loose => t.panel[p].data = s.panel[p].data)
<1>1. /\ But(s, t, p) /\ HidBy(s.panel[p], t.panel[p], n)
      /\ t.panel[p].wanted => s.panel[p].wanted
  BY HideIs
<1>2. SUFFICES ASSUME ~t.loose
               PROVE  /\ Keeps(t.panel[p], n)
                      /\ \A q \in Panel \ {p} : Keeps(t.panel[q], t.panel[q].data)
                      /\ OneWanted(t)
  BY <1>1 DEF OrderlyAs, HidBy
<1>3. /\ Keeps(s.panel[p], n) /\ OneWanted(s)
      /\ \A q \in Panel \ {p} : Keeps(s.panel[q], s.panel[q].data)
  BY <1>1, <1>2 DEF But, OrderlyAs
<1>4. Keeps(t.panel[p], n)
  BY <1>1, <1>3 DEF HidBy, Keeps
<1>5. \A q \in Panel : t.panel[q].wanted => s.panel[q].wanted
  BY <1>1 DEF But
<1>6. OneWanted(t)
  BY <1>3, <1>5 DEF OneWanted
<1>7. QED
  BY <1>1, <1>3, <1>4, <1>6 DEF But

LEMMA ShowOrderly ==
  ASSUME NEW s, Sound(s), NEW p \in Panel, NEW n \in 1..s.panel[p].made, OrderlyAs(s, p, n),
         NEW t, t = ShowOf(s, p, n)
  PROVE  OrderlyAs(t, p, n) /\ (~t.loose => t.panel[p].data = s.panel[p].data)
<1>1. PICK actives : actives = Actives(s, p, n)
  OBVIOUS
<1>2. actives \in SUBSET Panel
  BY <1>1 DEF Actives
<1>3. CASE n \in s.panel[p].transitioning \/ IsOpen(s, p) \/ Blocked(s, actives)
  <2>1. t = s
    BY <1>1, <1>3 DEF ShowOf
  <2>2. QED
    BY <2>1
<1>4. CASE ~(n \in s.panel[p].transitioning \/ IsOpen(s, p) \/ Blocked(s, actives))
  <2>1. PICK u :
          /\ Sound(u) /\ Sound(t) /\ But(u, t, p)
          /\ Moving(u.panel[p], t.panel[p], n, "shown")
          /\ u.loose = (s.loose \/ n \notin s.panel[p].children)
          /\ \A q \in Panel \ actives : u.panel[q] = s.panel[q]
          /\ (\A q \in actives : s.panel[q].data # 0) =>
               \A q \in actives : Yields(s.panel[q], u.panel[q])
    BY <1>1, <1>2, <1>4, ShowSteps
  <2>2. SUFFICES ASSUME ~t.loose
                 PROVE  /\ Keeps(t.panel[p], n) /\ t.panel[p].data = s.panel[p].data
                        /\ \A q \in Panel \ {p} : Keeps(t.panel[q], t.panel[q].data)
                        /\ OneWanted(t)
    BY DEF OrderlyAs
  <2>3. ~s.loose /\ n \in s.panel[p].children
    BY <2>1, <2>2 DEF But
  <2>4. /\ Keeps(s.panel[p], n) /\ OneWanted(s)
        /\ \A q \in Panel \ {p} : Keeps(s.panel[q], s.panel[q].data)
    BY <2>3 DEF OrderlyAs
  \* The panel itself is closed and at rest: were it moving, n would move it.
  <2>5. ~IsActive(s, p) /\ s.panel[p].transitioning = {}
    BY <1>4, <2>4, ActiveIs DEF Keeps
  <2>6. \A q \in Panel : q \in actives <=> IsActive(s, q)
    BY <1>1, <2>3 DEF Actives
  <2>7. p \notin actives
    BY <2>5, <2>6
  <2>8. \A q \in actives : s.panel[q].data # 0
    BY <1>2, <2>4, <2>6, <2>7 DEF Keeps, IsActive
  <2>9. u.panel[p] = s.panel[p] /\ \A q \in actives : Yields(s.panel[q], u.panel[q])
    BY <2>1, <2>7, <2>8
  <2>10. Keeps(t.panel[p], n) /\ t.panel[p].data = s.panel[p].data
    <3>1. n # 0
      BY RecordsAre
    <3>2. QED
      BY <2>1, <2>5, <2>9, <3>1 DEF Keeps, Moving
  <2>11. ASSUME NEW q \in Panel \ {p}
         PROVE  Keeps(t.panel[q], t.panel[q].data) /\ ~t.panel[q].wanted
    <3>1. t.panel[q] = u.panel[q]
      BY <2>1 DEF But
    <3>2. CASE q \in actives
      <4>1. /\ u.panel[q].data = s.panel[q].data /\ s.panel[q].data # 0
            /\ u.panel[q].transitioning \subseteq {s.panel[q].data}
        BY <2>4, <2>8, <2>9, <3>2 DEF Yields, HidBy, Keeps
      \* The first that is open or moves is at rest, and so it is the one that
      \* was wanted.
      <4>2. PICK first \in actives : first = Min(actives)
        BY <1>2, <3>2, LeastPanel
      <4>3. first \in Panel \ {p} /\ s.panel[first].data # 0 /\ IsActive(s, first)
        BY <1>2, <2>6, <2>7, <2>8, <4>2
      <4>4. s.panel[first].data \notin s.panel[first].transitioning
        BY <1>4, <3>2, <4>2 DEF Blocked
      <4>5. s.panel[first].transitioning = {}
        BY <2>4, <4>3, <4>4 DEF Keeps
      <4>6. s.panel[first].wanted /\ "in" \in s.panel[first].classes
        BY <4>3, <4>5, ActiveIs
      <4>7. ~u.panel[first].wanted
        BY <2>9, <4>2, <4>3, <4>4, <4>6 DEF Yields, HidBy
      <4>8. ~u.panel[q].wanted
        <5>1. u.panel[q].wanted => s.panel[q].wanted
          BY <2>9, <3>2 DEF Yields
        <5>2. s.panel[q].wanted => q = first
          BY <2>4, <4>3, <4>6 DEF OneWanted
        <5>3. QED
          BY <4>7, <5>1, <5>2
      <4>9. QED
        BY <3>1, <4>1, <4>8 DEF Keeps
    <3>3. CASE q \notin actives
      <4>1. u.panel[q] = s.panel[q]
        BY <2>1, <3>3
      <4>2. ~s.panel[q].wanted
        BY <2>6, <3>3, ActiveIs
      <4>3. QED
        BY <2>4, <3>1, <4>1, <4>2
    <3>4. QED
      BY <3>2, <3>3
  <2>12. OneWanted(t)
    BY <2>11 DEF OneWanted
  <2>13. QED
    BY <2>10, <2>11, <2>12
<1>5. QED
  BY <1>3, <1>4

LEMMA ToggleOrderly ==
  ASSUME NEW s, Sound(s), NEW p \in Panel, NEW n \in 1..s.panel[p].made, OrderlyAs(s, p, n),
         NEW t, t = ToggleOf(s, p, n)
  PROVE  OrderlyAs(t, p, n) /\ (~t.loose => t.panel[p].data = s.panel[p].data)
<1>1. CASE IsOpen(s, p)
  BY <1>1, HideOrderly DEF ToggleOf
<1>2. CASE ~IsOpen(s, p)
  BY <1>2, ShowOrderly DEF ToggleOf
<1>3. QED
  BY <1>1, <1>2

LEMMA MakeOrderly ==
  ASSUME NEW s, Sound(s), Orderly(s), NEW p \in Panel, s.panel[p].data = 0,
         NEW child \in BOOLEAN, NEW toggle \in BOOLEAN, NEW t, t = Make(s, p, child, toggle)
  PROVE  Orderly(t)
<1>1. PICK c : c = Construct(s, p, child)
  OBVIOUS
<1>2. PICK n \in Nat : n = s.panel[p].made + 1 /\ n # 0
  BY RecordsAre
<1>3. /\ Sound(c) /\ c.loose = s.loose
      /\ \A q \in Panel \ {p} : Like(s.panel[q], c.panel[q])
      /\ c.panel[p].made = n /\ c.panel[p].classes = s.panel[p].classes
      /\ c.panel[p].transitioning = s.panel[p].transitioning
      /\ c.panel[p].wanted = s.panel[p].wanted
  <2>1. /\ Sound(c) /\ c.loose = s.loose
        /\ \A q \in Panel \ {p} : Like(s.panel[q], c.panel[q])
    BY <1>1, ConstructIs
  <2>2. /\ c.panel[p].made = s.panel[p].made + 1 /\ c.panel[p].classes = s.panel[p].classes
        /\ c.panel[p].transitioning = s.panel[p].transitioning
        /\ c.panel[p].wanted = s.panel[p].wanted
    BY <1>1, ConstructIs
  <2>3. QED
    BY <1>2, <2>1, <2>2
<1>4. OrderlyAs(c, p, n)
  <2>1. SUFFICES ASSUME ~c.loose
                 PROVE  /\ Keeps(c.panel[p], n) /\ OneWanted(c)
                        /\ \A q \in Panel \ {p} : Keeps(c.panel[q], c.panel[q].data)
    BY DEF OrderlyAs
  <2>2. OneWanted(s) /\ \A q \in Panel : Keeps(s.panel[q], s.panel[q].data)
    BY <1>3, <2>1 DEF Orderly
  <2>3. s.panel[p].transitioning = {}
    <3>1. s.panel[p].transitioning \subseteq 1..s.panel[p].made /\ s.panel[p].made \in Nat
      BY ActiveIs, RecordsAre
    <3>2. s.panel[p].transitioning \subseteq {0}
      BY <2>2 DEF Keeps
    <3>3. QED
      BY <3>1, <3>2
  <2>4. Keeps(c.panel[p], n)
    BY <1>2, <1>3, <2>3 DEF Keeps
  <2>5. \A q \in Panel : c.panel[q].wanted = s.panel[q].wanted
    BY <1>3 DEF Like
  <2>6. OneWanted(c)
    BY <2>2, <2>5 DEF OneWanted
  <2>7. \A q \in Panel \ {p} : Keeps(c.panel[q], c.panel[q].data)
    BY <1>3, <2>2 DEF Like, Keeps
  <2>8. QED
    BY <2>4, <2>6, <2>7
<1>5. PICK d : d = IF toggle THEN ToggleOf(c, p, n) ELSE c
  OBVIOUS
<1>6. Sound(d) /\ n <= d.panel[p].made /\ OrderlyAs(d, p, n)
  <2>1. n \in 1..c.panel[p].made
    BY <1>2, <1>3
  <2>2. CASE toggle
    <3>1. d = ToggleOf(c, p, n)
      BY <1>5, <2>2
    <3>2. Sound(d) /\ c.panel[p].made <= d.panel[p].made
      BY <1>3, <2>1, <3>1, ToggleIs
    <3>3. OrderlyAs(d, p, n)
      BY <1>3, <1>4, <2>1, <3>1, ToggleOrderly
    <3>4. QED
      BY <1>3, <3>2, <3>3
  <2>3. CASE ~toggle
    BY <1>2, <1>3, <1>4, <1>5, <2>3
  <2>4. QED
    BY <2>2, <2>3
<1>7. PICK e : e = [d EXCEPT !.panel[p].data = n]
  OBVIOUS
<1>8. t = e
  BY <1>1, <1>2, <1>5, <1>7 DEF Make
<1>9. But(d, e, p) /\ Labelled(d.panel[p], e.panel[p], n)
  <2>1. Sound(d) /\ n \in 0..d.panel[p].made
    BY <1>2, <1>6, RecordsAre
  <2>2. QED
    BY <1>7, <2>1, WithDataIs
<1>10. OrderlyAs(e, p, n)
  <2>1. SUFFICES ASSUME ~e.loose
                 PROVE  /\ Keeps(e.panel[p], n) /\ OneWanted(e)
                        /\ \A q \in Panel \ {p} : Keeps(e.panel[q], e.panel[q].data)
    BY DEF OrderlyAs
  <2>2. /\ Keeps(d.panel[p], n) /\ OneWanted(d)
        /\ \A q \in Panel \ {p} : Keeps(d.panel[q], d.panel[q].data)
    BY <1>6, <1>9, <2>1 DEF OrderlyAs, But
  <2>3. \A q \in Panel : e.panel[q].wanted = d.panel[q].wanted
    BY <1>9 DEF But, Labelled
  <2>4. OneWanted(e)
    BY <2>2, <2>3 DEF OneWanted
  <2>5. QED
    BY <1>9, <2>2, <2>4 DEF But, Labelled, Keeps
<1>11. QED
  BY <1>8, <1>9, <1>10, OrderlyIs DEF Labelled

\* What a step leaves: a sound state in order.
Fine(s) == Sound(s) /\ Orderly(s)

CollapseInv == Fine(Now) /\ acts \in 0..MaxActs

LEMMA BecomesFine ==
  ASSUME NEW s, Fine(s), Becomes(s)
  PROVE  Fine(Now)'
<1>1. Now' = s
  BY NowIs, RecordsAre DEF Fine
<1>2. QED
  BY <1>1 DEF Fine, Sound, Orderly, OneWanted, CallsFor

LEMMA DataIs ==
  ASSUME NEW s, Sound(s), NEW p \in Panel, s.panel[p].data # 0
  PROVE  s.panel[p].data \in 1..s.panel[p].made
BY RecordsAre DEF Fit, Numbered

LEMMA ToggleFine ==
  ASSUME NEW s, Fine(s), NEW p \in Panel, s.panel[p].data # 0,
         NEW t, t = ToggleOf(s, p, s.panel[p].data)
  PROVE  Fine(t)
<1>1. PICK n : n = s.panel[p].data
  OBVIOUS
<1>2. Sound(s) /\ n \in 1..s.panel[p].made /\ OrderlyAs(s, p, n)
  BY <1>1, DataIs, OrderlyIs DEF Fine
<1>3. Sound(t)
  BY <1>1, <1>2, ToggleIs
<1>4. OrderlyAs(t, p, n) /\ (~t.loose => t.panel[p].data = n)
  BY <1>1, <1>2, ToggleOrderly
<1>5. Orderly(t)
  BY <1>4, OrderlyIs DEF Orderly
<1>6. QED
  BY <1>3, <1>5 DEF Fine

LEMMA CalledFine ==
  ASSUME Fine(Now), NEW p \in Panel, NEW toggle \in BOOLEAN, NEW s, s = Called(p, toggle)
  PROVE  Fine(s) /\ s.panel[p].data \in 1..s.panel[p].made
<1>1. CASE panel[p].data = 0
  <2>1. PICK child \in BOOLEAN : child = FALSE
    OBVIOUS
  <2>2. s = Make(Now, p, child, toggle)
    BY <1>1, <2>1 DEF Called
  <2>3. Sound(Now) /\ Orderly(Now) /\ Now.panel[p].data = 0
    BY <1>1, NowIs DEF Fine
  <2>4. Sound(s) /\ s.panel[p].data \in 1..s.panel[p].made
    BY <2>1, <2>2, <2>3, MakeIs
  <2>5. Orderly(s)
    BY <2>1, <2>2, <2>3, MakeOrderly
  <2>6. QED
    BY <2>4, <2>5 DEF Fine
<1>2. CASE panel[p].data # 0
  <2>1. s = Now
    BY <1>2 DEF Called
  <2>2. Sound(s) /\ s.panel[p].data # 0
    BY <1>2, <2>1, NowIs DEF Fine
  <2>3. QED
    BY <2>1, <2>2, DataIs
<1>3. QED
  BY <1>1, <1>2

LEMMA ClickFine ==
  ASSUME CollapseInv, NEW p \in Panel, Click(p)
  PROVE  CollapseInv'
<1>1. Fine(Now) /\ acts' \in 0..MaxActs
  BY CollapseAssumption DEF CollapseInv, Click, Act
<1>2. Sound(Now) /\ Orderly(Now) /\ Now.panel[p].data = panel[p].data
  BY <1>1, NowIs DEF Fine
<1>3. CASE panel[p].data = 0
  <2>1. PICK yes \in BOOLEAN : yes = TRUE
    OBVIOUS
  <2>2. PICK t : t = Make(Now, p, yes, yes)
    OBVIOUS
  <2>3. Becomes(t)
    BY <1>3, <2>1, <2>2 DEF Click
  <2>4. Sound(t) /\ Orderly(t)
    BY <1>2, <1>3, <2>1, <2>2, MakeIs, MakeOrderly
  <2>5. QED
    BY <1>1, <2>3, <2>4, BecomesFine DEF CollapseInv, Fine
<1>4. CASE panel[p].data # 0
  <2>1. PICK t : t = ToggleOf(Now, p, Now.panel[p].data)
    OBVIOUS
  <2>2. Becomes(t)
    BY <1>2, <1>4, <2>1 DEF Click
  <2>3. Fine(t)
    BY <1>1, <1>2, <1>4, <2>1, ToggleFine
  <2>4. QED
    BY <1>1, <2>2, <2>3, BecomesFine DEF CollapseInv
<1>5. QED
  BY <1>3, <1>4

LEMMA CallsFine ==
  ASSUME CollapseInv, NEW p \in Panel, Show(p) \/ Hide(p) \/ Toggle(p)
  PROVE  CollapseInv'
<1>1. Fine(Now) /\ acts' \in 0..MaxActs
  <2>1. Act
    BY DEF Show, Hide, Toggle
  <2>2. QED
    BY <2>1, CollapseAssumption DEF CollapseInv, Act
<1>2. PICK toggle, s, t :
        /\ toggle \in BOOLEAN /\ s = Called(p, toggle) /\ Becomes(t)
        /\ \/ t = ShowOf(s, p, s.panel[p].data)
           \/ t = HideOf(s, p, s.panel[p].data)
           \/ t = ToggleOf(s, p, s.panel[p].data)
  BY DEF Show, Hide, Toggle
<1>3. Fine(s) /\ s.panel[p].data \in 1..s.panel[p].made
  BY <1>1, <1>2, CalledFine
<1>4. PICK n : n = s.panel[p].data
  OBVIOUS
<1>5. /\ Sound(s) /\ n \in 1..s.panel[p].made /\ OrderlyAs(s, p, n)
      /\ s.panel[p].data = n
  BY <1>3, <1>4, OrderlyIs DEF Fine
<1>6. Sound(t) /\ OrderlyAs(t, p, n) /\ (~t.loose => t.panel[p].data = n)
  <2>1. CASE t = ShowOf(s, p, n)
    BY <1>5, <2>1, ShowIs, ShowOrderly
  <2>2. CASE t = HideOf(s, p, n)
    BY <1>5, <2>2, HideIs, HideOrderly
  <2>3. CASE t = ToggleOf(s, p, n)
    BY <1>5, <2>3, ToggleIs, ToggleOrderly
  <2>4. QED
    BY <1>2, <1>4, <2>1, <2>2, <2>3
<1>7. Fine(t)
  BY <1>6, OrderlyIs DEF Fine, Orderly
<1>8. QED
  BY <1>1, <1>2, <1>7, BecomesFine DEF CollapseInv

LEMMA EndFine ==
  ASSUME CollapseInv, TransitionEnd
  PROVE  CollapseInv'
<1>1. Sound(Now) /\ Orderly(Now) /\ acts' \in 0..MaxActs
  BY DEF CollapseInv, Fine, TransitionEnd
<1>2. queue \in Seq(Wait) /\ queue # <<>>
  BY <1>1, NowIs, RecordsAre DEF TransitionEnd, IsDue
<1>3. PICK p \in Panel : p = Head(queue).el
  <2>1. queue[1] \in Wait /\ Head(queue) = queue[1]
    BY <1>2
  <2>2. QED
    BY <2>1 DEF Wait, Waits
<1>4. CallsFor(Now, p) # {}
  <2>1. 1 \in DOMAIN queue /\ Head(queue) = queue[1]
    BY <1>2
  <2>2. QED
    BY <1>3, <2>1, NowIs DEF CallsFor
<1>5. PICK u, t : /\ u = [Now EXCEPT !.queue = WithoutElement(@, p)]
                  /\ t = Complete(u, p, CallsFor(Now, p)) /\ Becomes(t)
  BY <1>3 DEF TransitionEnd
<1>6. PICK s : s = Now
  OBVIOUS
<1>7. /\ Sound(t) /\ But(s, t, p)
      /\ t.panel[p].transitioning = {} /\ t.panel[p].data = s.panel[p].data
      /\ t.panel[p].wanted = s.panel[p].wanted
  BY <1>1, <1>4, <1>5, <1>6, CompleteIs
<1>8. Orderly(t)
  <2>1. SUFFICES ASSUME ~t.loose
                 PROVE  (\A q \in Panel : Keeps(t.panel[q], t.panel[q].data)) /\ OneWanted(t)
    BY DEF Orderly
  <2>2. (\A q \in Panel : Keeps(s.panel[q], s.panel[q].data)) /\ OneWanted(s)
    BY <1>1, <1>6, <1>7, <2>1 DEF Orderly, But
  <2>3. IsActive(s, p)
    <3>1. s.panel[p].classes = {"collapsing"}
      BY <1>1, <1>4, <1>6, RecordsAre DEF Fit, Moves
    <3>2. QED
      BY <3>1 DEF IsActive
  <2>4. s.panel[p].data # 0
    BY <2>2, <2>3 DEF Keeps, IsActive
  <2>5. Keeps(t.panel[p], t.panel[p].data)
    BY <1>7, <2>4 DEF Keeps
  <2>6. \A q \in Panel : t.panel[q].wanted = s.panel[q].wanted
    BY <1>7 DEF But
  <2>7. OneWanted(t)
    BY <2>2, <2>6 DEF OneWanted
  <2>8. QED
    BY <1>7, <2>2, <2>5, <2>7 DEF But
<1>9. QED
  BY <1>1, <1>5, <1>7, <1>8, BecomesFine DEF CollapseInv, Fine

LEMMA TickFine ==
  ASSUME CollapseInv, Tick
  PROVE  CollapseInv'
<1>1. Sound(Now) /\ Orderly(Now) /\ acts \in 0..MaxActs
  BY DEF CollapseInv, Fine
<1>2. /\ queue \in Seq(Wait) /\ Sorted(queue) /\ queue # <<>> /\ Head(queue).left # 0
      /\ panel' = panel /\ loose' = loose /\ acts' = acts /\ queue' = TimePasses(queue)
  BY <1>1, NowIs, RecordsAre DEF Tick, IsDue
<1>3. PICK s : s = Now'
  OBVIOUS
<1>4. /\ s = [panel |-> s.panel, queue |-> s.queue, loose |-> s.loose]
      /\ s.panel = Now.panel /\ s.loose = Now.loose /\ s.queue = TimePasses(queue)
  BY <1>2, <1>3 DEF Now
<1>5. /\ s.queue \in Seq(Wait) /\ Sorted(s.queue) /\ Len(s.queue) = Len(queue)
      /\ \A i \in 1..Len(queue) : s.queue[i].el = queue[i].el /\ s.queue[i].call = queue[i].call
  <2>1. ~IsDue(queue)
    BY DEF Tick
  <2>2. QED
    BY <1>2, <1>4, <2>1, PassesIs DEF Wait
<1>6. \A p \in Panel : CallsFor(s, p) = CallsFor(Now, p)
  <2>1. DOMAIN s.queue = 1..Len(queue) /\ DOMAIN queue = 1..Len(queue)
    BY <1>2, <1>5
  <2>2. ASSUME NEW p \in Panel, NEW x
        PROVE  x \in CallsFor(s, p) <=> x \in CallsFor(Now, p)
    BY <1>5, <2>1, NowIs DEF CallsFor
  <2>3. QED
    BY <2>2
<1>7. Sound(s)
  <2>1. s.panel \in [Panel -> PanelRecord] /\ s.loose \in BOOLEAN
    BY <1>1, <1>4, RecordsAre
  <2>2. s \in State
    BY <1>4, <1>5, <2>1 DEF State
  <2>3. QED
    BY <1>1, <1>4, <1>5, <1>6, <2>2 DEF Sound
<1>8. Orderly(s)
  BY <1>1, <1>4 DEF Orderly, OneWanted
<1>9. Becomes(s)
  BY <1>3 DEF Becomes, Now
<1>10. QED
  BY <1>1, <1>2, <1>7, <1>8, <1>9, BecomesFine DEF CollapseInv, Fine

LEMMA CollapseInitially ==
  ASSUME Init
  PROVE  CollapseInv
<1>1. Sound(Now) /\ acts \in 0..MaxActs
  <2>1. acts = 0
    BY DEF Init
  <2>2. QED
    BY <2>1, InitSound, CollapseAssumption
<1>2. Orderly(Now)
  <2>1. SUFFICES ASSUME ~loose
                 PROVE  (\A q \in Panel : Keeps(panel[q], panel[q].data)) /\ OneWanted(Now)
    BY NowIs DEF Orderly
  <2>2. PICK open \in Panel \cup {0} :
          panel = [p \in Panel |->
            [classes |-> IF p = open THEN {"collapse", "in"} ELSE {"collapse"},
             expanded |-> p = open, data |-> 0, made |-> 0,
             transitioning |-> {}, children |-> {},
             wanted |-> p = open, mistold |-> FALSE]] /\ loose = (open # 0)
    BY DEF Init
  <2>3. \A q \in Panel : /\ panel[q].classes = {"collapse"} /\ panel[q].transitioning = {}
                         /\ panel[q].wanted = FALSE
    BY <2>1, <2>2, PanelsAre
  <2>4. QED
    BY <2>3, NowIs DEF Keeps, OneWanted
<1>3. QED
  BY <1>1, <1>2 DEF CollapseInv, Fine

LEMMA CollapseStep ==
  ASSUME CollapseInv, [Next]_vars
  PROVE  CollapseInv'
<1>1. ASSUME NEW p \in Panel, Click(p)
      PROVE  CollapseInv'
  BY <1>1, ClickFine
<1>2. ASSUME NEW p \in Panel, Show(p) \/ Hide(p) \/ Toggle(p)
      PROVE  CollapseInv'
  BY <1>2, CallsFine
<1>3. CASE TransitionEnd
  BY <1>3, EndFine
<1>4. CASE Tick
  BY <1>4, TickFine
<1>5. CASE UNCHANGED vars
  <2>1. Becomes(Now) /\ acts' = acts
    BY <1>5, NowIs DEF vars, Becomes
  <2>2. QED
    BY <2>1, BecomesFine DEF CollapseInv
<1>6. QED
  BY <1>1, <1>2, <1>3, <1>4, <1>5 DEF Next

\* The state of every panel is sound, and in order while only triggers have
\* opened the accordion's panels.
THEOREM CollapseHolds == Spec => []CollapseInv
<1>1. Init => CollapseInv
  BY CollapseInitially
<1>2. CollapseInv /\ [Next]_vars => CollapseInv'
  BY CollapseStep
<1>3. QED
  BY <1>1, <1>2, PTL DEF Spec

\* Every variable keeps its type, and the objects that wait or are known as
\* children are among those the panel has had.
THEOREM CollapseTypes == Spec => []TypeOK
<1>1. ASSUME CollapseInv
      PROVE  TypeOK
  <2>1. Sound(Now) /\ acts \in 0..MaxActs
    BY <1>1 DEF CollapseInv, Fine
  <2>2. /\ panel \in [Panel -> PanelRecord] /\ queue \in Seq(Wait) /\ loose \in BOOLEAN
        /\ \A p \in Panel : Fit(panel[p], CallsFor(Now, p))
    BY <2>1, NowIs, RecordsAre
  <2>3. ASSUME NEW i \in DOMAIN queue
        PROVE  queue[i].call[2] <= panel[queue[i].el].made
    <3>1. queue[i] \in Wait
      BY <2>2
    <3>2. PICK p \in Panel : p = queue[i].el
      BY <3>1 DEF Wait, Waits
    <3>3. queue[i].call \in CallsFor(Now, p)
      BY <3>2, NowIs DEF CallsFor
    <3>4. queue[i].call[2] \in panel[p].transitioning
      BY <2>2, <3>3 DEF Fit, Moves
    <3>5. queue[i].call[2] \in 1..panel[p].made
      BY <2>2, <3>4 DEF Fit, Numbered
    <3>6. panel[p].made \in Nat
      BY <2>2 DEF PanelRecord
    <3>7. QED
      BY <3>2, <3>5, <3>6
  <2>4. \A p \in Panel : LET q == panel[p] IN
          q.data <= q.made /\ q.transitioning \cup q.children \subseteq 1..q.made
    BY <2>2 DEF Fit, Numbered
  <2>5. QED
    BY <2>1, <2>2, <2>3, <2>4 DEF TypeOK, PanelRecord, Wait, Waits
<1>2. QED
  BY <1>1, CollapseHolds, PTL

\* When nothing waits, a panel looks as its last show or hide wanted it, and no
\* object believes it to move.
THEOREM PanelsSettle == Spec => []Settled
<1>1. ASSUME CollapseInv
      PROVE  Settled
  <2>1. SUFFICES ASSUME queue = <<>>, NEW p \in Panel
                 PROVE  /\ panel[p].classes = IF panel[p].wanted THEN {"collapse", "in"} ELSE {"collapse"}
                        /\ panel[p].transitioning = {}
    BY DEF Settled, AtRest
  <2>2. Moves(panel[p], CallsFor(Now, p))
    BY <1>1, NowIs, RecordsAre DEF CollapseInv, Fine, Fit
  <2>3. CallsFor(Now, p) = {}
    BY <2>1, NowIs DEF CallsFor
  <2>4. QED
    BY <2>2, <2>3 DEF Moves
<1>2. QED
  BY <1>1, CollapseHolds, PTL

\* When nothing waits, a trigger tells whether its panel is open, unless
\* another panel's object was made while this one moved.
THEOREM TriggersTell == Spec => []TriggerTells
<1>1. ASSUME CollapseInv
      PROVE  TriggerTells
  <2>1. SUFFICES ASSUME queue = <<>>, NEW p \in Panel, ~panel[p].mistold
                 PROVE  panel[p].expanded = IsOpen(Now, p)
    BY DEF TriggerTells, AtRest
  <2>2. Moves(panel[p], CallsFor(Now, p)) /\ Tells(panel[p])
    BY <1>1, NowIs, RecordsAre DEF CollapseInv, Fine, Fit
  <2>3. CallsFor(Now, p) = {}
    BY <2>1, NowIs DEF CallsFor
  <2>4. panel[p].wanted \in BOOLEAN
    BY <1>1, NowIs, RecordsAre DEF CollapseInv, Fine, PanelRecord
  <2>5. IsOpen(Now, p) = panel[p].wanted
    BY <2>2, <2>3, <2>4, NowIs DEF Moves, IsOpen
  <2>6. QED
    BY <2>1, <2>2, <2>5 DEF Tells
<1>2. QED
  BY <1>1, CollapseHolds, PTL

\* While only triggers have opened the accordion's panels, one of them is open
\* or opening.
THEOREM OneIsOpen == Spec => []OnePanelOpen
<1>1. ASSUME CollapseInv
      PROVE  OnePanelOpen
  BY <1>1, NowIs DEF CollapseInv, Fine, Orderly, OneWanted, OnePanelOpen
<1>2. QED
  BY <1>1, CollapseHolds, PTL

============================================================================
