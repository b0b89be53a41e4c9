SPECIFICATION Spec
CONSTANTS
  ResourceString <- XCZU9EGString
  NColCLB = 199
  NColRAM = 13
  Frames <- XCZU9EGFrames
  CLBFrames = 16
  RAMFrames = 256
  NULLArea1 = 0
  RowFrames = 6850
  RAMRowFrames = 3330
  RAMRowOff = 47950
  RowIOPad = 29
  NFrames = 71260
  NRowRsc = 7
  Rows <- WalkedRows
  MaxRAMColumn = 14
INVARIANTS TypeOK IndicesAgree RowIsFull SectionsApart
PROPERTIES IndexAdvances
CHECK_DEADLOCK FALSE
