SPECIFICATION Spec
CONSTANTS
  Char <- Letters
  open_tag <- Open
  close_tag <- Close
  max_thought_chars = 2
  MaxChunk = 4
  MaxInput = 9
CHECK_DEADLOCK FALSE
INVARIANTS StateIsSoundBetweenCalls CharactersAreAccounted ChunkingDoesNotShow
