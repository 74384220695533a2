---------------------------- MODULE Transitions ----------------------------
(***************************************************************************)
(* Bootstrap's transition support (web/js/bootstrap.js, transition.js),    *)
(* as its widgets use it:                                                  *)
(*   el.one('bsTransitionEnd', callback).emulateTransitionEnd(duration)    *)
(*                                                                         *)
(* The browser may dispatch the end of an element's CSS transition, and    *)
(* the emulation's timer dispatches it if no dispatch has come first.  One *)
(* dispatch runs every callback that waits on the element, in the order    *)
(* they were attached, and turns all timers of the element off (their      *)
(* variable called).  The ends of other elements' transitions bubble up    *)
(* and are filtered out.                                                   *)
(*                                                                         *)
(* So what waits is one queue, in the order in which it will end.  left    *)
(* counts steps of 150 ms, the shortest transition; timers due together    *)
(* fire in the order they were set.                                        *)
(***************************************************************************)
EXTENDS Naturals, Sequences, SequencesExt

Waiting(el, call, left) == [el |-> el, call |-> call, left |-> left]

\* Wait for the end of el's transition.
Await(queue, el, call, duration) ==
  LET earlier == Cardinality({i \in DOMAIN queue : queue[i].left <= duration})
  IN InsertAt(queue, earlier + 1, Waiting(el, call, duration))

\* What a dispatch on el leaves.
WithoutElement(queue, el) ==
  LET left[i \in 0..Len(queue)] ==
        IF i = 0 THEN <<>>
        ELSE IF queue[i].el = el THEN left[i - 1] ELSE Append(left[i - 1], queue[i])
  IN left[Len(queue)]

\* A dispatch on el: nothing waits on it any more, and what did runs in turn.
Dispatch(s, el, Run(_, _)) ==
  LET ran[i \in 0..Len(s.queue)] ==
        IF i = 0 THEN [s EXCEPT !.queue = WithoutElement(@, el)]
        ELSE IF s.queue[i].el = el THEN Run(ran[i - 1], s.queue[i]) ELSE ran[i - 1]
  IN ran[Len(s.queue)]

\* The first transition ends now.
IsDue(queue) == queue # <<>> /\ Head(queue).left = 0

\* Time goes by while none does.
TimePasses(queue) == [i \in DOMAIN queue |-> [queue[i] EXCEPT !.left = @ - 1]]

=============================================================================
