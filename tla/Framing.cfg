SPECIFICATION FairSpec
CONSTANTS
  c1 = c1
  c2 = c2
  a = a
  b = b
  Letter <- Letters
  Newline = Newline
  Null = Null
  Capacity = 4
  Client <- TwoClients
  None = None
  NameOrder <- SameName
  MaxClients = 2
  Line <- Lines
  ListLine <- List
  Fragment <- NoFragment
  MaxLines = 2
INVARIANTS
  TypeOK
  NothingLost
PROPERTIES
  ImplementsQueue
  LinesHandled
\* The clients may stop, and the server may crash.
CHECK_DEADLOCK FALSE
