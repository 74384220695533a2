------------------------------ MODULE Collapse ------------------------------
(***************************************************************************)
(* Bootstrap's collapsing panels (web/js/bootstrap.js, collapse.js): one   *)
(* accordion, whose panels open and close one another.                     *)
(*                                                                         *)
(* A panel gets its object when it is first needed.  A click on its        *)
(* trigger makes one that knows the accordion; a script's call, and the    *)
(* show of another panel, make one that does not.  show() looks at the     *)
(* first open panel's object to find out whether something moves, and      *)
(* drops the objects it made only in order to hide.                        *)
(*                                                                         *)
(* Abstractions.  Sizes are left out; a panel's and its trigger's          *)
(* aria-expanded and the trigger's class collapsed are set together and    *)
(* are one value; the browser has transitions, and no listener prevents    *)
(* an event's default.                                                     *)
(***************************************************************************)
EXTENDS Transitions, FiniteSets

CONSTANTS
  Panels,   \* how many panels the accordion has
  MaxActs   \* bound: clicks and calls

ASSUME CollapseAssumption == Panels \in Nat \ {0} /\ MaxActs \in Nat

\* The panels, in the order of the document.
Panel == 1..Panels

VARIABLES
  panel,   \* the classes, the object and the trigger of each panel
  queue,   \* the transitions that have not ended
  loose,   \* history: a panel was open that no object of the accordion opened
  acts     \* counted for the bound

vars == <<panel, queue, loose, acts>>

Object == Nat \ {0}

TypeOK ==
  /\ panel \in [Panel ->
       [classes : SUBSET {"collapse", "collapsing", "in"},
        expanded : BOOLEAN,          \* what the trigger and aria-expanded say
        data : Nat,                  \* the panel's object, 0 for none
        made : Nat,                  \* how many it has had
        transitioning : SUBSET Object,
        children : SUBSET Object,    \* those whose option parent is the accordion
        wanted : BOOLEAN,            \* history: the last show or hide was a show
        mistold : BOOLEAN]]          \* history: expanded was set in the middle of it
  /\ queue \in Seq([el : Panel, call : {"shown", "hidden"} \X Object, left : 0..2])
  /\ \A i \in DOMAIN queue : queue[i].call[2] <= panel[queue[i].el].made
  /\ \A p \in Panel :
       LET q == panel[p] IN
       q.data <= q.made /\ q.transitioning \cup q.children \subseteq 1..q.made
  /\ loose \in BOOLEAN
  /\ acts \in 0..MaxActs

\* The page's source may have one panel open.
Init ==
  /\ \E open \in Panel \cup {0} :
       /\ panel = [p \in Panel |->
            [classes |-> IF p = open THEN {"collapse", "in"} ELSE {"collapse"},
             expanded |-> p = open, data |-> 0, made |-> 0,
             transitioning |-> {}, children |-> {},
             wanted |-> p = open, mistold |-> FALSE]]
       /\ loose = (open # 0)
  /\ queue = <<>>
  /\ acts = 0

-----------------------------------------------------------------------------
(* The methods of the object n of panel p, on the state s *)

\* Mutant of Duration: the emulation waits longer than the transition takes.
DurationLong == 3

Duration == 2   \* Collapse.TRANSITION_DURATION

IsOpen(s, p) == "in" \in s.panel[p].classes

\* Mutant of Complete: the end of hide leaves transitioning set.
CompleteStuck(s, p, calls) ==
  LET shown == {call \in calls : call[1] = "shown"}
      still == [s.panel[p] EXCEPT !.classes = (@ \ {"collapsing"}) \cup {"collapse"} \cup
                                                {"in" : call \in shown},
                                  !.transitioning = @ \ {call[2] : call \in shown}]
  IN [s EXCEPT !.panel[p] = still]

\* The callbacks that one dispatch on p runs.  That of a show adds the class
\* in, and that of a hide does not take it away, in whatever order they come.
Complete(s, p, calls) ==
  LET shown == {call \in calls : call[1] = "shown"}
      still == [s.panel[p] EXCEPT !.classes = (@ \ {"collapsing"}) \cup {"collapse"} \cup
                                                {"in" : call \in shown},
                                  !.transitioning = @ \ {call[2] : call \in calls}]
  IN [s EXCEPT !.panel[p] = still]

\* What show and hide have in common: the panel begins to move.
Start(s, p, n, classes, call) ==
  LET moving == [s.panel[p] EXCEPT !.classes = classes,
                                   !.expanded = call = "shown",
                                   !.transitioning = @ \cup {n},
                                   !.wanted = call = "shown",
                                   !.mistold = FALSE]
  IN [s EXCEPT !.panel[p] = moving, !.queue = Await(@, p, <<call, n>>, Duration)]

HideOf(s, p, n) ==
  IF n \in s.panel[p].transitioning \/ ~IsOpen(s, p) THEN s
  ELSE Start(s, p, n, (s.panel[p].classes \cup {"collapsing"}) \ {"collapse", "in"}, "hidden")

\* Mutant of AddAria: every trigger is told what this panel's will be.
AddAriaOpen(s, told) ==
  [s EXCEPT !.panel = [q \in Panel |->
     IF q \in told THEN [s.panel[q] EXCEPT !.expanded = TRUE] ELSE s.panel[q]]]

\* addAriaAndCollapsedClass for the triggers of some panels: one that is still
\* opening counts as closed.
AddAria(s, told) ==
  [s EXCEPT !.panel = [q \in Panel |->
     IF q \in told
     THEN [s.panel[q] EXCEPT !.expanded = IsOpen(s, q),
                             !.mistold = @ \/ "collapsing" \in s.panel[q].classes]
     ELSE s.panel[q]]]

\* The constructor, but for its toggle: getParent tells every trigger.
Construct(s, p, child) ==
  LET n == s.panel[p].made + 1
      made == [s.panel[p] EXCEPT !.made = n,
                                 !.children = IF child THEN @ \cup {n} ELSE @]
  IN AddAria([s EXCEPT !.panel[p] = made], IF child THEN Panel ELSE {p})

\* Plugin.call(q, 'hide')
HideActive(s, q) ==
  LET n == s.panel[q].made + 1
      constructed == [Construct(s, q, FALSE) EXCEPT !.panel[q].data = n]
  IN IF s.panel[q].data # 0 THEN HideOf(s, q, s.panel[q].data) ELSE HideOf(constructed, q, n)

\* Plugin.call(actives, 'hide'), in the order of the document.
HideActives(s, actives) ==
  LET hidden[q \in 0..Panels] ==
        IF q = 0 THEN s
        ELSE IF q \in actives THEN HideActive(hidden[q - 1], q) ELSE hidden[q - 1]
  IN hidden[Panels]

IsActive(s, p) == s.panel[p].classes \cap {"in", "collapsing"} # {}

\* The accordion's panels that are open or moving.
Actives(s, p, n) == {q \in Panel : n \in s.panel[p].children /\ IsActive(s, q)}

\* Mutant of Blocked: nothing does.
BlockedNever(s, actives) == FALSE

\* The first of them moves: the show is given up.
Blocked(s, actives) ==
  actives # {} /\ s.panel[Min(actives)].data \in s.panel[Min(actives)].transitioning

\* activesData || actives.data('bs.collapse', null)
Forget(s, actives) == [s EXCEPT !.panel = [q \in Panel |->
  IF q \in actives THEN [s.panel[q] EXCEPT !.data = 0] ELSE s.panel[q]]]

ShowOf(s, p, n) ==
  LET actives == Actives(s, p, n)
      hidden == HideActives(s, actives)
      alone == IF actives # {} /\ s.panel[Min(actives)].data = 0
               THEN Forget(hidden, actives) ELSE hidden
      loosened == [alone EXCEPT !.loose = @ \/ n \notin s.panel[p].children]
  IN IF n \in s.panel[p].transitioning \/ IsOpen(s, p) \/ Blocked(s, actives) THEN s
     ELSE Start(loosened, p, n, (alone.panel[p].classes \cup {"collapsing"}) \ {"collapse"}, "shown")

ToggleOf(s, p, n) == IF IsOpen(s, p) THEN HideOf(s, p, n) ELSE ShowOf(s, p, n)

\* Plugin for a panel without an object, whose data is set after its toggle.
Make(s, p, child, toggle) ==
  LET n == s.panel[p].made + 1
      constructed == Construct(s, p, child)
      toggled == IF toggle THEN ToggleOf(constructed, p, n) ELSE constructed
  IN [toggled EXCEPT !.panel[p].data = n]

-----------------------------------------------------------------------------

Now == [panel |-> panel, queue |-> queue, loose |-> loose]

Becomes(s) == panel' = s.panel /\ queue' = s.queue /\ loose' = s.loose

\* What waits for the end of p's transition.
CallsFor(s, p) == {s.queue[i].call : i \in {j \in DOMAIN s.queue : s.queue[j].el = p}}

Act == acts < MaxActs /\ acts' = acts + 1

\* A click on the panel's trigger.
Click(p) ==
  /\ Act
  /\ Becomes(IF panel[p].data = 0 THEN Make(Now, p, TRUE, TRUE)
             ELSE ToggleOf(Now, p, panel[p].data))

\* Calls by scripts, which say nothing of the accordion.  show and hide make
\* an object that does not toggle, toggle one that does.
Called(p, toggle) == IF panel[p].data = 0 THEN Make(Now, p, FALSE, toggle) ELSE Now

Show(p) ==
  LET s == Called(p, FALSE)
  IN Act /\ Becomes(ShowOf(s, p, s.panel[p].data))

Hide(p) ==
  LET s == Called(p, FALSE)
  IN Act /\ Becomes(HideOf(s, p, s.panel[p].data))

Toggle(p) ==
  LET s == Called(p, TRUE)
  IN Act /\ Becomes(ToggleOf(s, p, s.panel[p].data))

TransitionEnd ==
  /\ IsDue(queue)
  /\ LET p == Head(queue).el IN
     Becomes(Complete([Now EXCEPT !.queue = WithoutElement(@, p)], p, CallsFor(Now, p)))
  /\ UNCHANGED acts

Tick ==
  /\ queue # <<>> /\ ~IsDue(queue)
  /\ queue' = TimePasses(queue)
  /\ UNCHANGED <<panel, loose, acts>>

Next ==
  \/ \E p \in Panel : Click(p) \/ Show(p) \/ Hide(p) \/ Toggle(p)
  \/ TransitionEnd
  \/ Tick

Spec == Init /\ [][Next]_vars

-----------------------------------------------------------------------------
(* Properties *)

AtRest == queue = <<>>

\* One panel of the accordion is open or opening, as long as all panels were
\* opened by their triggers.  (A panel that is open in the page's source has no
\* object: while it closes, the show of a third panel is not given up, and two
\* panels are open.)
OnePanelOpen ==
  ~loose => \A p, q \in Panel : panel[p].wanted /\ panel[q].wanted => p = q

\* Transitions end: a panel comes to look as its last show or hide wanted it,
\* and no object of it is left that believes it to move, whichever objects were
\* dropped and made again while it moved.
Settled ==
  AtRest => \A p \in Panel :
    /\ panel[p].classes = IF panel[p].wanted THEN {"collapse", "in"} ELSE {"collapse"}
    /\ panel[p].transitioning = {}

\* The trigger tells whether its panel is open, unless the object of another
\* panel was made while this one moved.
TriggerTells ==
  AtRest => \A p \in Panel : ~panel[p].mistold => panel[p].expanded = IsOpen(Now, p)

=============================================================================
