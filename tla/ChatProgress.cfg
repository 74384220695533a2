SPECIFICATION FairSpec
CONSTANTS
  c1 = c1
  c2 = c2
  c3 = c3
  Client <- ThreeClients
  None = None
  Listener = Listener
  NameOrder <- AnyOrder
  MaxClients = 2
  Kind = {"text", "list"}
  MaxLines = 2
  Aborts = TRUE
  Stalls = FALSE
PROPERTIES
  EndNoticed
  BacklogServed
\* The clients may stop sending, and the server may end.
CHECK_DEADLOCK FALSE
