SPECIFICATION Spec
CONSTANTS
  W = 3
  CharSigned = TRUE
  TEXTMAX = 8
  Numbers = {1, 2, 7}
  NameLengths = {1, 6}
  MaxReplies = 2
INVARIANT ListedIsKnown
CHECK_DEADLOCK FALSE
