SPECIFICATION Spec
CONSTANTS
  Texts <- MCTexts
  Digests <- MCDigests
  EpisodicCap = 2
  SemanticCap = 2
  CrystalEvery = 2
  Verbs = {1}
  MaxPayload = 6
  DreamBytes = 2
  DreamNotes = 1
  SelfTestCases = 1
  MaxLived = 4
  MaxNodes = 6
INVARIANTS TypeOK SelfIsRecentPast DreamsOfThisLife
PROPERTIES RoundTrip NothingForgotten
