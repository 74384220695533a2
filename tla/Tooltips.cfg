SPECIFICATION Spec
CONSTANTS
  Delay <- Delays
  MaxEvents = 5
INVARIANTS
  TypeOK
  TipGoes
  TipComes
\* Nothing waits when there are no more events.
CHECK_DEADLOCK FALSE
