CONSTANTS
  LEN = 5
  DIR_MAX = 3
  FS_MAX_FILES = 2
  Chars <- MCChars
  Names <- MCNames
  Args <- MCArgs
  Words <- MCWords
SPECIFICATION Spec
CHECK_DEADLOCK FALSE
INVARIANT EntriesTerminated
