SPECIFICATION Spec
CONSTANTS
  WORD = 4
  BLOCK = 32
  MaxSize = 72
INVARIANTS InBounds WordsAligned
PROPERTY StoresAll
