CONSTANTS
  Sessions <- MCSessions
  MaxId = 2
  NONE = NONE
SPECIFICATION Spec
INVARIANTS ResponseIsOwn CardsSound
PROPERTIES JobsEnd ListConverges
