CONSTANTS
  Trees <- ReparsedTrees
  Names <- TheNames
  NoName = NoName
  Treatments = {0, 1, 2, 3}
  Completeness = {"Full", "Fragment"}
SPECIFICATION Spec
INVARIANTS
  TypeOK
  DisambiguatedAsTheTextSays
  PendingIsWhatIsLeft
PROPERTIES
  DisambiguationIsSound
  CompleteUnitsAreBuilt
CHECK_DEADLOCK FALSE
