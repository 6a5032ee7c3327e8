\* Crashes and failures at any point, with edits that only ever give new parameters.
CONSTANTS
  small = small
  medium = medium
  large = large
  w1 = w1
  w2 = w2
  f1 = f1
  f2 = f2
  Specs <- MCSpecs
  Edits <- MCForward
  Runs = 3
  Workers <- MCWorkers
  Main = Main
  Names <- MCNames
  NoFile = NoFile
  Empty = Empty
  Failures = TRUE
SPECIFICATION Spec
INVARIANTS SimulatesWanted TableIsThePlan
PROPERTY SweepEnds
