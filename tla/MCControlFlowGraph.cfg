SPECIFICATION Spec
CONSTANTS
  code_size_ = 4
  Sizes = {1, 2}
INVARIANTS
  TypeOK
  FlowIsCovered
  DecodedAtMostTwice
  EdgesFollowCode
PROPERTIES
  BuildEnds
