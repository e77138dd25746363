CONSTANTS
  Inputs <- MCInputs
  Messages <- MCMessages
  Lengths = {1, 2, 3}
  Capacity = 3
  MaxOut = 4
SPECIFICATION Spec
INVARIANT ReadLineAlwaysTerminates
