SPECIFICATION Spec
CONSTANTS
  Panels = 3
  MaxActs = 5
INVARIANTS
  TypeOK
  OnePanelOpen
  Settled
  TriggerTells
\* Nothing happens any more when there are no more clicks and calls.
CHECK_DEADLOCK FALSE
