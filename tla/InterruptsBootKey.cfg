CONSTANTS
  Devices <- MCDevices
  BiosMasks <- MCBiosMasks
  MaxRaises = 3
SPECIFICATION FairSpec
PROPERTY KeysAreRead
CHECK_DEADLOCK FALSE
