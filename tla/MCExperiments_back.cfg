\* A crash while a trace is regenerated, and an edit back to the old parameters.
CONSTANTS
  small = small
  medium = medium
  large = large
  w1 = w1
  w2 = w2
  f1 = f1
  f2 = f2
  Specs <- MCSpecs
  Edits <- MCAnyEdit
  Runs = 1
  Workers <- MCWorkers
  Main = Main
  Names <- MCNames
  NoFile = NoFile
  Empty = Empty
  Failures = TRUE
SPECIFICATION Spec
INVARIANT SimulatesWanted
