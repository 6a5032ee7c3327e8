\* Sweeps over presets that are right and over presets that are not.
CONSTANTS
  Presets <- MCPresets
  Knobs <- MCKnobs
  Default <- MCDefault
  Infinite = Infinite
  Text = Text
  Kilobyte = 16
  WordBits = 5
  MaxBaseCpi = 8
  TenDigits <- MCTenDigits
  WholeLimit = 63
  LargestDouble = 90
SPECIFICATION Spec
INVARIANTS AcceptedIsBuildable MachineIsThePoint
PROPERTY ReportedIsTheMachine
\* A sweep ends at a misspelt knob.
CHECK_DEADLOCK FALSE
