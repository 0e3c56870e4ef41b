CONSTANTS
  Devices <- MCDevices
  BiosMasks <- MCBiosMasks
  MaxRaises = 3
SPECIFICATION Spec
CHECK_DEADLOCK FALSE
INVARIANT IrqsReachHandlers
