------------------------------- MODULE Modal -------------------------------
(***************************************************************************)
(* Bootstrap's modal dialogs (web/js/bootstrap.js, modal.js).              *)
(*                                                                         *)
(* show() and hide() set isShown at once and leave the rest to callbacks   *)
(* that run when the transitions of the backdrop, the dialog and the modal *)
(* itself end.  Every modal has its own object, but all of them share the  *)
(* page: the class modal-open and the padding of the body, the backdrops   *)
(* in the document, and the handlers on document and window.               *)
(*                                                                         *)
(* Abstractions.  The dialog's own padding and scroll position (layout),   *)
(* remote content, and focus other than the restorer's are left out; no    *)
(* listener prevents an event's default.                                   *)
(***************************************************************************)
EXTENDS Transitions, FiniteSets

CONSTANTS
  Dialog,       \* the modals of the page
  Fading,       \* those with the class fade
  WithBackdrop, \* those whose option backdrop is not false
  Static,       \* those whose option backdrop is 'static'
  Trigger,      \* the elements with data-toggle="modal"
  Target,       \* the modal each of them is for
  None,         \* the null pointer
  Overflows,    \* whether the page is longer than the window
  MaxShows      \* bound: how often modals are shown in all

ASSUME DialogAssumption ==
  /\ None \notin Trigger \cup Dialog
  /\ Target \in [Trigger -> Dialog]
  /\ Fading \subseteq Dialog /\ WithBackdrop \subseteq Dialog /\ Static \subseteq WithBackdrop
ASSUME BoundsAssumption == Overflows \in BOOLEAN /\ MaxShows \in Nat

VARIABLES
  modal,    \* the object, the classes and the handlers of each modal
  page,     \* what the modals share
  queue     \* the transitions that have not ended

vars == <<modal, page, queue>>

\* The numbers of the backdrops, in the order of their making: a show makes one,
\* and so does a hideModal that finds its modal shown again.
BackdropId == 1..MaxShows * 2

TypeOK ==
  /\ modal \in [Dialog ->
       [isShown : BOOLEAN,                 \* this.isShown
        backdrop : BackdropId \cup {0},     \* this.$backdrop, 0 for null
        originalBodyPad : 0..MaxShows,     \* in widths of a scrollbar
        ignoreBackdropClick : BOOLEAN,
        pressed : BOOLEAN,                 \* a mouseup handler waits
        clickers : 0..MaxShows * 2,        \* click handlers for the backdrop
        displayed : BOOLEAN,               \* the element is not display: none
        in : BOOLEAN,                      \* the element has the class in
        opener : Trigger \cup {None},       \* history: who showed it last
        onShow : Seq(Trigger),             \* restorers waiting for the next show
        onHidden : Seq(Trigger)]]          \* and for the next hidden
  /\ page \in
       [backdrops : SUBSET BackdropId,     \* those in the document
        made : 0..MaxShows * 2,            \* how many have been made
        modalOpen : BOOLEAN,               \* the body's class modal-open
        bodyPad : 0..MaxShows,             \* the body's padding-right
        focusin : Dialog \cup {None},       \* whom the document's handler serves
        resize : SUBSET Dialog,            \* whom the window's handlers serve
        focus : Trigger \cup {None},        \* whom a restorer focused last
        shows : 0..MaxShows,
        overlapped : BOOLEAN]              \* history: a show found the body locked
  /\ queue \in Seq([el : ({"element", "dialog"} \X Dialog) \cup ({"backdrop"} \X BackdropId),
                    call : {"appear", "shown", "hideModal", "remove", "hidden"} \X Dialog,
                    left : 0..2])

Init ==
  /\ modal = [m \in Dialog |->
       [isShown |-> FALSE, backdrop |-> 0, originalBodyPad |-> 0,
        ignoreBackdropClick |-> FALSE, pressed |-> FALSE, clickers |-> 0,
        displayed |-> FALSE, in |-> FALSE,
        opener |-> None, onShow |-> <<>>, onHidden |-> <<>>]]
  /\ page = [backdrops |-> {}, made |-> 0, modalOpen |-> FALSE, bodyPad |-> 0,
             focusin |-> None, resize |-> {}, focus |-> None,
             shows |-> 0, overlapped |-> FALSE]
  /\ queue = <<>>

-----------------------------------------------------------------------------
(* The methods.  One may call another, at once or when a transition ends,  *)
(* so each is an operator on the state s of modals, page and queue.        *)

Now == [modal |-> modal, page |-> page, queue |-> queue]

Becomes(s) == modal' = s.modal /\ page' = s.page /\ queue' = s.queue

Element(m) == <<"element", m>>
DialogOf(m) == <<"dialog", m>>
BackdropEl(b) == <<"backdrop", b>>

BackdropTime == 1   \* Modal.BACKDROP_TRANSITION_DURATION
ModalTime == 2      \* Modal.TRANSITION_DURATION

\* The callback of hideModal.  The event hidden gives the focus back.
Hidden(s, m) ==
  [s EXCEPT !.page.modalOpen = FALSE,
            !.page.bodyPad = s.modal[m].originalBodyPad,
            !.page.focus = IF s.modal[m].onHidden = <<>> THEN s.page.focus
                           ELSE Last(s.modal[m].onHidden),
            !.modal[m].onHidden = <<>>]

\* Mutant of Appear: the document's handler is not attached.
AppearUnfocused(s, m) ==
  [s EXCEPT !.modal[m].displayed = TRUE,
            !.modal[m].in = TRUE,
            !.queue = IF m \in Fading THEN Await(@, DialogOf(m), <<"shown", m>>, ModalTime) ELSE @]

\* The callback of show.
Appear(s, m) ==
  [s EXCEPT !.modal[m].displayed = TRUE,
            !.modal[m].in = TRUE,
            !.page.focusin = m,
            !.queue = IF m \in Fading THEN Await(@, DialogOf(m), <<"shown", m>>, ModalTime) ELSE @]

CallBack(s, m, name) == IF name = "appear" THEN Appear(s, m) ELSE Hidden(s, m)

\* An element that is removed loses the callbacks that wait on it.
RemoveBackdrop(s, m) ==
  LET b == s.modal[m].backdrop IN
  [s EXCEPT !.page.backdrops = s.page.backdrops \ {b},
            !.queue = WithoutElement(@, BackdropEl(b)),
            !.modal[m].backdrop = 0]

\* Mutant of Backdrop: this.$backdrop may be null.
BackdropUnchecked(s, m, name) ==
  LET b == s.page.made + 1 IN
  IF s.modal[m].isShown
  THEN [s EXCEPT !.page.made = b,
                 !.page.backdrops = s.page.backdrops \cup {b},
                 !.modal[m].backdrop = b,
                 !.queue = Await(@, BackdropEl(b), <<name, m>>, BackdropTime)]
  ELSE [s EXCEPT !.queue =
          Await(@, BackdropEl(s.modal[m].backdrop), <<"remove", m>>, BackdropTime)]

\* backdrop(callback): make a backdrop, or fade out the one there is, or do
\* without one.
Backdrop(s, m, name) ==
  LET b == s.page.made + 1
      made == [s EXCEPT !.page.made = b,
                        !.page.backdrops = s.page.backdrops \cup {b},
                        !.modal[m].backdrop = b,
                        !.modal[m].clickers = s.modal[m].clickers + 1]
  IN IF s.modal[m].isShown /\ m \in WithBackdrop
     THEN IF m \in Fading
          THEN [made EXCEPT !.queue = Await(@, BackdropEl(b), <<name, m>>, BackdropTime)]
          ELSE CallBack(made, m, name)
     ELSE IF ~s.modal[m].isShown /\ s.modal[m].backdrop # 0
     THEN IF m \in Fading
          THEN [s EXCEPT !.queue =
                  Await(@, BackdropEl(s.modal[m].backdrop), <<"remove", m>>, BackdropTime)]
          ELSE CallBack(RemoveBackdrop(s, m), m, name)
     ELSE CallBack(s, m, name)

HideModal(s, m) == Backdrop([s EXCEPT !.modal[m].displayed = FALSE], m, "hidden")

\* The event show, also when the modal is shown already.
ShowEvent(s, m) ==
  [s EXCEPT !.modal[m].onHidden = s.modal[m].onHidden \o s.modal[m].onShow,
            !.modal[m].onShow = <<>>]

\* Mutant of SetScrollbar: the padding is saved after it was widened.
SetScrollbarFirst(s, m) ==
  LET pad == IF Overflows /\ ~s.page.modalOpen THEN s.page.bodyPad + 1 ELSE s.page.bodyPad
  IN [s EXCEPT !.modal[m].originalBodyPad = pad, !.page.bodyPad = pad]

\* checkScrollbar and setScrollbar; the class modal-open hides the scrollbar.
SetScrollbar(s, m) ==
  [s EXCEPT !.modal[m].originalBodyPad = s.page.bodyPad,
            !.page.bodyPad = IF Overflows /\ ~s.page.modalOpen THEN s.page.bodyPad + 1
                             ELSE s.page.bodyPad]

ShowOf(s, m, trigger) ==
  LET event == ShowEvent(s, m)
      shown == [SetScrollbar(event, m) EXCEPT
                  !.modal[m].isShown = TRUE,
                  !.modal[m].opener = trigger,
                  !.page.modalOpen = TRUE,
                  !.page.resize = s.page.resize \cup {m},
                  !.page.shows = s.page.shows + 1,
                  !.page.overlapped = s.page.overlapped \/ s.page.modalOpen]
  IN IF s.modal[m].isShown THEN event ELSE Backdrop(shown, m, "appear")

HideOf(s, m, duration) ==
  LET hidden == [s EXCEPT !.modal[m].isShown = FALSE,
                          !.modal[m].in = FALSE,
                          !.modal[m].clickers = 0,
                          !.modal[m].pressed = FALSE,
                          !.page.resize = {},
                          !.page.focusin = None]
  IN IF ~s.modal[m].isShown THEN s
     ELSE IF m \in Fading
     THEN [hidden EXCEPT !.queue = Await(@, Element(m), <<"hideModal", m>>, duration)]
     ELSE HideModal(hidden, m)

Run(s, w) ==
  LET m == w.call[2] IN
  CASE w.call[1] = "hideModal" -> HideModal(s, m)
    [] w.call[1] = "remove" -> Hidden(RemoveBackdrop(s, m), m)
    [] w.call[1] = "shown" -> s    \* only the event shown
    [] OTHER -> CallBack(s, m, w.call[1])

-----------------------------------------------------------------------------

\* The modal's own opacity may end its transition before the timer does.
Duration == BackdropTime..ModalTime

Show(m) ==
  /\ page.shows < MaxShows
  /\ Becomes(ShowOf(Now, m, None))

\* A script's call, the escape key, or an element with data-dismiss.
Hide(m) ==
  /\ modal[m].isShown
  /\ \E duration \in Duration : Becomes(HideOf(Now, m, duration))

\* Mutant of RestoreFocus: the restorer does not wait for the show.
RestoreFocusAtOnce(s, t) ==
  [s EXCEPT !.modal[Target[t]].onHidden = Append(s.modal[Target[t]].onHidden, t)]

\* The data-API's handlers, attached before it is known what toggle will do.
RestoreFocus(s, t) ==
  [s EXCEPT !.modal[Target[t]].onShow = Append(s.modal[Target[t]].onShow, t)]

\* A click on an element with data-toggle="modal".
Click(t) ==
  LET m == Target[t]
      s == RestoreFocus(Now, t)
  IN IF modal[m].isShown
     THEN \E duration \in Duration : Becomes(HideOf(s, m, duration))
     ELSE page.shows < MaxShows /\ Becomes(ShowOf(s, m, t))

\* The mouse is pressed in the dialog; a release outside of it comes before the
\* click that the browser reports for the modal.
MouseDown(m) ==
  /\ modal[m].isShown /\ modal[m].displayed /\ ~modal[m].pressed
  /\ modal' = [modal EXCEPT ![m].pressed = TRUE]
  /\ UNCHANGED <<page, queue>>

MouseUp(m) ==
  /\ modal[m].pressed
  /\ \E outside \in BOOLEAN :
       modal' = [modal EXCEPT ![m].pressed = FALSE, ![m].ignoreBackdropClick = modal[m].ignoreBackdropClick \/ outside]
  /\ UNCHANGED <<page, queue>>

\* A click outside of the dialog, on the modal's element.  Every handler runs;
\* the first of them may be told to ignore it.
ClickBackdrop(m) ==
  LET s == [Now EXCEPT !.modal[m].ignoreBackdropClick = FALSE]
      deaf == IF modal[m].ignoreBackdropClick THEN 1 ELSE 0
  IN /\ modal[m].displayed /\ modal[m].clickers > 0
     /\ IF m \in Static \/ modal[m].clickers = deaf THEN Becomes(s)
        ELSE \E duration \in Duration : Becomes(HideOf(s, m, duration))

TransitionEnd ==
  /\ IsDue(queue)
  /\ Becomes(Dispatch(Now, Head(queue).el, Run))

Tick ==
  /\ queue # <<>> /\ ~IsDue(queue)
  /\ queue' = TimePasses(queue)
  /\ UNCHANGED <<modal, page>>

User(m) == Show(m) \/ Hide(m) \/ MouseDown(m) \/ MouseUp(m) \/ ClickBackdrop(m)

Next ==
  \/ \E m \in Dialog : User(m)
  \/ \E t \in Trigger : Click(t)
  \/ TransitionEnd
  \/ Tick

Spec == Init /\ [][Next]_vars

-----------------------------------------------------------------------------
(* Properties.  Many do not survive a show on a page that another modal, or *)
(* the same one on its way out, still locks (overlapped).                  *)

AtRest == queue = <<>>
NoneShown == \A m \in Dialog : ~modal[m].isShown

\* When the last modal is gone the page is free again: it scrolls, however the
\* calls overlapped; and unless they did, no backdrop covers it, its padding is
\* what it was, and no modal is left on it.
PageReleased ==
  AtRest /\ NoneShown =>
    /\ ~page.modalOpen
    /\ page.overlapped \/ (/\ page.backdrops = {}
                           /\ page.bodyPad = 0
                           /\ \A m \in Dialog : ~modal[m].displayed)

\* A modal that is shown comes to be displayed on its own backdrop, with the
\* page locked and its handlers attached, whatever was cut short before.
ShownAppears ==
  AtRest /\ ~page.overlapped =>
    \A m \in Dialog : modal[m].isShown =>
      /\ modal[m].displayed
      /\ page.backdrops = {modal[m].backdrop} \ {0}
      /\ modal[m].backdrop # 0 <=> m \in WithBackdrop
      /\ page.modalOpen
      /\ page.focusin = m /\ m \in page.resize

\* The focus goes back to the element that opened the modal, whatever was
\* clicked to close it, and however the calls overlapped.
FocusRestored ==
  [][\A m \in Dialog :
       modal[m].onHidden # <<>> /\ modal'[m].onHidden = <<>> /\ modal[m].opener # None
       => page'.focus = modal[m].opener]_vars

=============================================================================
