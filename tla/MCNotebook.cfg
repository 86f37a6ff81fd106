SPECIFICATION NotebookSpec
CONSTANTS
  Genesis <- MCGenesis
  Payload <- MCPayload
  Oversize = {}
  MaxGen = 6
  ReadMayFail = FALSE
  Size = {1, 2}
  Capacity = 3
  MaxNotes = 5
INVARIANTS NotesFit KeptNotesStay
PROPERTY NotesOnlyGrow
