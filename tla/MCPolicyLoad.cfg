SPECIFICATION Spec
CONSTANTS
  Segments <- MCSegments
  RawPolicies <- MCRawPolicies
  Paths <- MCPaths
INVARIANTS
  TypeOK
  TrieMatchesEntries
CHECK_DEADLOCK FALSE
