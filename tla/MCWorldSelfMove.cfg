SPECIFICATION Spec
CONSTANTS
  Word <- MCWord
  Upper <- MCUpper
  Path <- MCPath
  Spelling <- MCSpelling
  Marker <- MCMarker
  Text <- MCText
  Chunks <- MCChunks
  Certificate = "certificate"
  Listing = "listing"
  Offers <- MCOffers
INVARIANT SelfMoveToo
