\* Writes may fail, and say so.
CONSTANTS
  ElementSize = 8
  ArrayBase = 64
  PageSize = 64
  CommandLines <- MCCommandLines
  Defaults <- MCDefaults
  MatrixDimension = 2
  Missing = Missing
  BufferRecords = 5
  Failures = {"open", "flush"}
SPECIFICATION Spec
INVARIANTS SuccessIsComplete TraceIsKernel ChaseIsOneCycle MatrixIsProduct
\* tracegen ends.
CHECK_DEADLOCK FALSE
