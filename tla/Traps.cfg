CONSTANTS
  Exceptions <- MCExceptions
  Irqs <- MCIrqs
SPECIFICATION Spec
CHECK_DEADLOCK FALSE
INVARIANTS TypeOK IrqKnowsItsLine FrameMatchesRegs
PROPERTY IrqTransparent
