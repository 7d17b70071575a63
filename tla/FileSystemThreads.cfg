\* Two threads: their lookups share strtok's position.
CONSTANTS
  Threads = {1, 2}
  Names = {"a", "b", "d"}
  LongNames = {}
  Paths <- MCPaths
  LongPaths = {}
  Renames <- MCRenames
  Contents = {"x"}
  Short = {}
  Residues = {0}
  Hash <- MCHash
  BlockSize = 1
  Lengths = {1}
  MaxNodes = 3
  MaxBlocks = 2
  Sizes = {0}
  MaxChanges = 4
SPECIFICATION Spec
INVARIANT FindsNamed
\* The program dies when a file outgrows its array.
CHECK_DEADLOCK FALSE
