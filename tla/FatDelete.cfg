CONSTANTS
  n1 = n1
  n2 = n2
  a = a
  FS_N_BLOCKS = 3
  FS_BLOCK_SIZE = 2
  FS_MAX_FILES = 2
  Names <- MCNames
  Dirs <- MCDirs
  Chars <- MCChars
  Lines <- MCLines
SPECIFICATION Spec
SYMMETRY Symmetry
INVARIANT DeleteFreesChain
