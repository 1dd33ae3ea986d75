SPECIFICATION Spec
CONSTANTS
  Node = {n1, n2, n3, n4}
  NULL = NULL
  Freed = Freed
  MaskChars = {"*", "?", "a", "A"}
  NameChars = {"a", "b"}
  Upper = "A"
  Lower = "a"
  MATCH_MAX_CALLS = 9
  MaxMask = 4
  MaxName = 4
  Keys = {"i", "h"}
  Literals = {"c"}
  MSGLENMAX = 7
  DataSizes = {1, 3}
  MaxTokens = 4
  Trailing = TRUE
  W = 3
  CharSigned = TRUE
  TEXTMAX = 8
  Numbers = {1, 2, 6}
  NameLengths = {1, 6}
  MaxReplies = 3
  Chars = {"a"}
  PARVMAX = 4
  MaxLine = 8
INVARIANTS
  TypeOK WellLinked MatchIsGlob
  InBuffer KlineIsExpansion Decoded ParamsAsSaid
PROPERTIES
  ListImplements KlineEnds
CHECK_DEADLOCK FALSE
