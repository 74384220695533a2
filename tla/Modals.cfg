SPECIFICATION Spec
CONSTANTS
  m1 = m1
  m2 = m2
  m3 = m3
  t1 = t1
  t2 = t2
  Dialog <- Modals
  Fading <- Fade
  WithBackdrop <- Backdrops
  Static <- StaticBackdrops
  Trigger <- Triggers
  Target <- ForFirst
  None = None
  Overflows = TRUE
  MaxShows = 2
INVARIANTS
  TypeOK
  PageReleased
  ShownAppears
PROPERTIES
  FocusRestored
\* Nothing waits when the users are done.
CHECK_DEADLOCK FALSE
