\* Every file of at most three lines, under every division into reads.
CONSTANTS
  Files <- MCCompactFiles
  MaxRecordBytes = 8
  BufferSize = 9
  ShortReads = TRUE
SPECIFICATION ReaderSpec
INVARIANTS FaithfulParse
PROPERTY Terminates
\* A file ends.
CHECK_DEADLOCK FALSE
