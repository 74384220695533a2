------------------------------ MODULE Tooltip ------------------------------
(***************************************************************************)
(* Bootstrap's tooltips and popovers (web/js/bootstrap.js, tooltip.js).    *)
(*                                                                         *)
(* enter and leave set hoverState and start a delay; show and hide change  *)
(* the tip at once and finish when its transition ends.  All of them look  *)
(* at hoverState, and at whether the tip is on the page, to find out what  *)
(* the calls before them were about.                                       *)
(*                                                                         *)
(* Abstractions.  What the tip says and where it is put is left out, the   *)
(* element has content and stays on the page, and one object is followed   *)
(* until it is destroyed.                                                  *)
(***************************************************************************)
EXTENDS Transitions, FiniteSets

CONSTANTS
  Delay,     \* the delays an instance may have, in steps of 150 ms
  MaxEvents  \* bound: events at the element and calls

ASSUME BoundsAssumption == Delay \subseteq 0..2 /\ MaxEvents \in Nat

VARIABLES
  options,   \* trigger, animation, delay.show and delay.hide
  over,      \* which of pointer and focus are on the element
  tooltip,   \* the object, its tip and the element's attributes
  queue,     \* the delay that runs and the transitions that have not ended
  history    \* what the element was told last

vars == <<options, over, tooltip, queue, history>>

TypeOK ==
  /\ options \in [trigger : {"hover focus", "click"}, animation : BOOLEAN,
                show : Delay, hide : Delay]
  /\ over \subseteq {"hover", "focus"}
  /\ tooltip \in
       [hoverState : {"null", "in", "out"},
        enabled : BOOLEAN,
        attached : BOOLEAN,     \* the tip is on the page, and so visible
        fade : BOOLEAN,         \* its classes
        in : BOOLEAN,
        described : BOOLEAN,    \* the element's aria-describedby
        bound : BOOLEAN]        \* the element's handlers and data are there
  /\ queue \in Seq([el : {"tip", "timeout"},
                    call : {"shown", "hidden", "destroyed", "show", "hide"}, left : 0..2])
  /\ \A i, j \in DOMAIN queue :    \* this.timeout is one delay
       queue[i].el = "timeout" /\ queue[j].el = "timeout" => i = j
  /\ history \in [last : {"none", "enter", "leave", "hide"}, events : 0..MaxEvents,
                  caught : BOOLEAN, scripted : BOOLEAN]

Init ==
  /\ options \in [trigger : {"hover focus", "click"}, animation : BOOLEAN,
                show : Delay, hide : Delay]
  /\ over = {}
  /\ tooltip = [hoverState |-> "null", enabled |-> TRUE, attached |-> FALSE,
                fade |-> FALSE, in |-> FALSE, described |-> FALSE, bound |-> TRUE]
  /\ queue = <<>>
  /\ history = [last |-> "none", events |-> 0, caught |-> FALSE, scripted |-> FALSE]

-----------------------------------------------------------------------------
(* The methods, on the state s of the object and the queue *)

Now == [tooltip |-> tooltip, queue |-> queue]

Becomes(s) == tooltip' = s.tooltip /\ queue' = s.queue

TipTime == 1   \* Tooltip.TRANSITION_DURATION

\* Mutant of ClearTimeout: the delay goes on.
ClearTimeoutNot(s) == s

ClearTimeout(s) == [s EXCEPT !.queue = WithoutElement(@, "timeout")]

\* Mutant of HideComplete: the tip is not taken off when it is not hovered.
HideCompleteHovered(s, call) ==
  [s EXCEPT !.tooltip.attached = s.tooltip.attached /\ s.tooltip.hoverState # "null",
            !.tooltip.described = FALSE,
            !.tooltip.bound = s.tooltip.bound /\ call # "destroyed"]

\* hide's complete, for hide and for the hide of destroy.
HideComplete(s, call) ==
  [s EXCEPT !.tooltip.attached = s.tooltip.attached /\ s.tooltip.hoverState = "in",
            !.tooltip.described = FALSE,
            !.tooltip.bound = s.tooltip.bound /\ call # "destroyed"]

\* hide(callback); before the first show there is no tip, and no transition.
HideOf(s, call) ==
  LET hiding == [s EXCEPT !.tooltip.in = FALSE]
      pending == IF hiding.tooltip.fade
                 THEN [hiding EXCEPT !.queue = Await(@, "tip", call, TipTime)]
                 ELSE HideComplete(hiding, call)
  IN [pending EXCEPT !.tooltip.hoverState = "null"]

LeaveOf(s) ==
  LET out == [ClearTimeout(s) EXCEPT !.tooltip.hoverState = "out"]
  IN IF options.hide = 0 THEN HideOf(out, "hidden")
     ELSE [out EXCEPT !.queue = Await(@, "timeout", "hide", options.hide)]

\* show's complete: a leave that came in the meantime is made up for.
ShowComplete(s) ==
  LET shown == [s EXCEPT !.tooltip.hoverState = "null"]
  IN IF s.tooltip.hoverState = "out" THEN LeaveOf(shown) ELSE shown

ShowOf(s) ==
  LET showing == [s EXCEPT !.tooltip.attached = TRUE,
                           !.tooltip.fade = options.animation,
                           !.tooltip.in = TRUE,
                           !.tooltip.described = TRUE]
  IN IF ~s.tooltip.enabled THEN s
     ELSE IF options.animation THEN [showing EXCEPT !.queue = Await(@, "tip", "shown", TipTime)]
     ELSE ShowComplete(showing)

\* Mutant of EnterOf: the hoverState of a visible tip is left alone.
EnterOfVisible(s) ==
  LET entered == [ClearTimeout(s) EXCEPT !.tooltip.hoverState = "in"]
  IN IF s.tooltip.attached THEN s
     ELSE IF options.show = 0 THEN ShowOf(entered)
     ELSE [entered EXCEPT !.queue = Await(@, "timeout", "show", options.show)]

\* A tip that is on the page, be it on its way out, is not shown again.
EnterOf(s) ==
  LET entered == [ClearTimeout(s) EXCEPT !.tooltip.hoverState = "in"]
  IN IF s.tooltip.attached THEN [s EXCEPT !.tooltip.hoverState = "in"]
     ELSE IF options.show = 0 THEN ShowOf(entered)
     ELSE [entered EXCEPT !.queue = Await(@, "timeout", "show", options.show)]

Run(s, w) ==
  CASE w.call = "shown" -> ShowComplete(s)
    [] w.call = "show" -> IF s.tooltip.hoverState = "in" THEN ShowOf(s) ELSE s
    [] w.call = "hide" -> IF s.tooltip.hoverState = "out" THEN HideOf(s, "hidden") ELSE s
    [] OTHER -> HideComplete(s, w.call)

-----------------------------------------------------------------------------
(* What happens to the element.  Handlers and calls end with the object. *)

\* The tip is on the page, on its way out.
FadingOut == tooltip.attached /\ ~tooltip.in

Event(last, scripted) ==
  /\ tooltip.bound
  /\ history.events < MaxEvents
  /\ history' = [history EXCEPT !.last = last,
                               !.events = @ + 1,
                               !.caught = @ \/ (last = "enter" /\ FadingOut),
                               !.scripted = @ \/ scripted]
  /\ UNCHANGED options

\* The pointer comes or the focus: mouseenter, focusin.
Enter(source) ==
  /\ options.trigger = "hover focus" /\ source \notin over
  /\ over' = over \cup {source}
  /\ Becomes(EnterOf(Now))
  /\ Event("enter", FALSE)

Leave(source) ==
  /\ source \in over
  /\ over' = over \ {source}
  /\ Becomes(LeaveOf(Now))
  /\ Event("leave", FALSE)

\* A click on an element with the trigger click.
Click ==
  /\ options.trigger = "click"
  /\ Becomes(IF tooltip.in THEN LeaveOf(Now) ELSE EnterOf(Now))
  /\ Event(IF tooltip.in THEN "leave" ELSE "enter", FALSE)
  /\ UNCHANGED over

\* Calls by scripts.
Show == Becomes(ShowOf(Now)) /\ Event("enter", TRUE) /\ UNCHANGED over

Hide == Becomes(HideOf(Now, "hidden")) /\ Event("hide", TRUE) /\ UNCHANGED over

Destroy ==
  /\ Becomes(HideOf(ClearTimeout(Now), "destroyed"))
  /\ Event("hide", TRUE)
  /\ UNCHANGED over

ToggleEnabled ==
  /\ tooltip' = [tooltip EXCEPT !.enabled = ~@]
  /\ Event(history.last, TRUE)
  /\ UNCHANGED <<over, queue>>

\* The delay is over, or the transition.
Elapse ==
  /\ IsDue(queue)
  /\ Becomes(Dispatch(Now, Head(queue).el, Run))
  /\ UNCHANGED <<options, over, history>>

Tick ==
  /\ queue # <<>> /\ ~IsDue(queue)
  /\ queue' = TimePasses(queue)
  /\ UNCHANGED <<options, over, tooltip, history>>

Next ==
  \/ \E source \in {"hover", "focus"} : Enter(source) \/ Leave(source)
  \/ Click \/ Show \/ Hide \/ Destroy \/ ToggleEnabled
  \/ Elapse \/ Tick

Spec == Init /\ [][Next]_vars

-----------------------------------------------------------------------------
(* Properties *)

AtRest == queue = <<>>

\* When the last event was a leave, the tip goes, whatever delays and
\* transitions it met on its way; an animated tip also goes when it is hidden
\* or destroyed by a call.  (Without animation, hide keeps a tip whose
\* hoverState is in: the element has pointer and focus.)
TipGoes ==
  AtRest /\ (history.last = "leave" \/ (history.last = "hide" /\ options.animation)) =>
    ~tooltip.attached

\* When the last event was an enter, the tip comes and is not hidden by a
\* delay or a transition that an earlier leave has begun.  (A tip that the
\* enter catches on its way out stays on the page without the class in, and
\* further enters do not show it.)
TipComes ==
  AtRest /\ history.last = "enter" /\ ~history.caught /\ ~history.scripted =>
    tooltip.attached /\ tooltip.in

=============================================================================
