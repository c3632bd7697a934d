SPECIFICATION Spec
CONSTANTS
  radeon1 = radeon1
  radeon2 = radeon2
  x3100 = x3100
  tmc = tmc
  geforce = geforce
  Cards = {radeon1, radeon2, x3100, tmc, geforce}
  Slots = 4
  Preloaded <- MCOneTaken
  Kind <- MCKindOf
  Features <- MCFeatures
  CountModulus = 2
  Nobody = Nobody
  NoNumber = NoNumber
INVARIANTS LockedFindsAreEmpty StartedCardsAnswer
PROPERTIES DiodesKept
CHECK_DEADLOCK FALSE
