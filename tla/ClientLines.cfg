SPECIFICATION FairSpec
CONSTANTS
  s = s
  x = x
  a = a
  Letter <- Letters
  Newline = Newline
  Null = Null
  Capacity = 5
  Exit_Message = x
  Input <- TypedLines
  Output <- Messages
  Beyond = a
  MaxTyped = 2
  MaxPosted = 2
INVARIANTS
  TypeOK
  SentAsTyped
  ShownAsPosted
PROPERTIES
  WritesContained
  MessagesShown
\* The client's process ends.
CHECK_DEADLOCK FALSE
