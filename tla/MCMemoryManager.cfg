SPECIFICATION Spec
CONSTANTS
  Nodes <- MCNodes
  PageSize = 2
  Areas <- MCAreas
  Addresses <- MCAddresses
CHECK_DEADLOCK FALSE
INVARIANTS
  TypeOK
  TreeIsList
  LookupsAgree
  RootIsBlack
PROPERTIES
  InsertionBalances
  TranslationsKept
