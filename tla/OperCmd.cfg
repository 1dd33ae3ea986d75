SPECIFICATION FairSpec
CONSTANTS
  Nicks = {n1, n2}
  COMMANDMAX = 3
  COMMANDINTERVAL = 1
  COMMANDTIMEOUT = 2
  MaxLag = 2
  MaxWire = 3
INVARIANTS
  TypeOK
  QueueInOrder
  AgeBounded
  AwaitingAnswer
PROPERTY
  QueueDrains
