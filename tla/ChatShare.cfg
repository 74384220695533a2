SPECIFICATION Spec
CONSTANTS
  c1 = c1
  c2 = c2
  c3 = c3
  Client <- ThreeClients
  None = None
  Listener = Listener
  NameOrder <- AnyOrder
  MaxClients = 3
  Kind = {"text", "list"}
  MaxLines = 4
  Aborts = TRUE
  Stalls = FALSE
SYMMETRY Interchangeable
INVARIANTS
  TypeOK
  SlotsCoherent
  TotalCountsSockets
  CleanupsPending
  BuffersInPlace
  ShareStaysInTable
\* The clients may stop sending, and the server may end.
CHECK_DEADLOCK FALSE
