SPECIFICATION Spec
CONSTANTS
  c1 = c1
  c2 = c2
  c3 = c3
  Client <- ThreeClients
  None = None
  Listener = Listener
  NameOrder <- AnyOrder
  MaxClients = 2
  Kind = {"text"}
  MaxLines = 2
  Aborts = FALSE
  Stalls = TRUE
SYMMETRY Interchangeable
INVARIANTS
  EveryDepartureTold
\* The clients may stop sending, and the server may end.
CHECK_DEADLOCK FALSE
