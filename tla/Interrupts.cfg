CONSTANTS
  Devices <- MCDevices
  BiosMasks <- MCBiosMasks
  MaxRaises = 3
SPECIFICATION FairSpec
INVARIANTS TypeOK NoFaultBeforeShutdown StubMatchesLine AllAcknowledged QuietAfterRestore
PROPERTY RequestsServed
CHECK_DEADLOCK FALSE
