CONSTANTS
  VGA_WIDTH = 3
  VGA_HEIGHT = 3
  CMD_LEN = 6
  LINE_LEN = 3
  ANS_LEN = 2
  MAX_ARGS = 2
  Keys <- MCKeys
  Printable <- MCPrintable
SPECIFICATION Spec
INVARIANTS TypeOK BlankAfterCursor EchoMatchesLine   ArgvAreTokens
PROPERTY PromptKept
