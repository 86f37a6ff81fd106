SPECIFICATION Spec
CONSTANTS
  Texts <- MCTexts
  Digests <- MCDigests
  EpisodicCap = 2
  SemanticCap = 2
  CrystalEvery = 4
  Verbs = {1}
  MaxPayload = 8
  DreamBytes = 2
  DreamNotes = 1
  SelfTestCases = 1
  MaxLived = 3
  MaxNodes = 9
PROPERTY LeavingEnds
