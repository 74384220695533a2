SPECIFICATION CarouselFairSpec
CONSTANTS
  Length = 3
  MaxWaiting = 3
INVARIANTS
  CarouselTypeOK
  OneSlide
PROPERTIES
  Reached
\* Nothing waits when there are no more calls.
CHECK_DEADLOCK FALSE
