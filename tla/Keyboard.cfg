CONSTANTS
  KBD_BUF_SIZE = 3
  MaxPending = 1
  TimerOn = TRUE
  Letters <- MCLetters
  Symbols <- MCSymbols
  Same <- MCSame
  Silent <- MCSilent
SPECIFICATION FairSpec
INVARIANTS TypeOK ReaderUndisturbed ShiftNeverSticks
PROPERTY ImplementsQueue
