SPECIFICATION ToolsSpec
CONSTANTS
  Path <- MCPath
  Parent <- MCParent
  Contents <- MCContents
  FirstTree <- MCTree
  MaxChanges = 1
  MAX_DIRECTORY_ENTRIES = 3
  Results = {2, 9}
  MAX_SEARCH_DEPTH = 2
  MAX_SEARCH_FILES = 3
  MAX_SEARCH_TOTAL_BYTES = 5
  MAX_TEXT_FILE_BYTES = 2
  Directory = 1
  Limits = {1, 2}
  ListTrees <- MCListTrees
  ListContents <- MCListContents
  ListChanges = 2
  Inodes = {i1, i2}
  Files <- MCFiles
  PageLengths = {1, 3}
  ReadChanges = 2
  ReadFileBytes = 5
  MAX_TEXT_LINE_BYTES = 2
  MAX_READ_TEXT_BYTES = 3
  None = None
INVARIANTS
  SearchIsAPrefix
  PagesAreTheWhole
PROPERTY
  PageIsOneVersion
CHECK_DEADLOCK FALSE
