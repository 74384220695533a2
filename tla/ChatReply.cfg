SPECIFICATION Spec
CONSTANTS
  c1 = c1
  c2 = c2
  c3 = c3
  Client <- ThreeClients
  None = None
  Listener = Listener
  NameOrder <- AnyOrder
  MaxClients = 2
  Kind = {"plain", "lookup", "notify", "server_exit"}
  MaxLines = 3
  Aborts = TRUE
  Stalls = TRUE
SYMMETRY Interchangeable
INVARIANTS
  DeparturesTold
PROPERTIES
  ImplementsSessions
\* The clients may stop sending, and the server may end.
CHECK_DEADLOCK FALSE
