\* One thread: what the handlers keep of what they are given.
CONSTANTS
  Threads = {1}
  Names = {"a", "b", "d"}
  LongNames = {"d"}
  Paths <- MCPaths
  LongPaths <- MCLongPaths
  Renames <- MCRenames
  Contents = {"x", "y"}
  Short = {"y"}
  Residues = {0, 1}
  Hash <- MCHash
  BlockSize = 2
  Lengths = {3}
  MaxNodes = 3
  MaxBlocks = 2
  Sizes = {2}
  MaxChanges = 5
SPECIFICATION Spec
INVARIANTS
  TypeOK
 
\* The program dies when a file outgrows its array.
CHECK_DEADLOCK FALSE
