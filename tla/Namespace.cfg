CONSTANTS
  DIR_MAX = 3
  MaxDepth = 2
  MaxFiles = 2
  MaxText = 1
  Newline = "\n"
  Components <- MCComponents
  Args <- MCArgs
  Names <- MCNames
  Lines <- MCLines
SPECIFICATION Spec
INVARIANTS TypeOK TableOK NoOrphanFiles NInv 
PROPERTY OnlyCdMoves
