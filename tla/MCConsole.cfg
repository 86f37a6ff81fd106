CONSTANTS
  Char <- CharDef
  Cols = 6
  Rows = 3
  Prompt = 2
  MinWindow = 2
  MaxLen = 5
  MaxSaid = 1
SPECIFICATION Spec
INVARIANTS TypeOK CaretVisible RowShowsLine
PROPERTY TranscriptStays
