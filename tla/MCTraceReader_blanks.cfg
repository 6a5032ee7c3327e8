\* Empty lines before a record use up the look-ahead.
CONSTANTS
  Files <- MCBlankFiles
  MaxRecordBytes = 8
  BufferSize = 9
  ShortReads = FALSE
SPECIFICATION ReaderSpec
INVARIANT WholeRecordPresent
CHECK_DEADLOCK FALSE
