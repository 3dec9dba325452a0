SPECIFICATION FairSpec
CONSTANTS
  Char <- MCChar
  Slash = "/"
  Prefixes <- MCPrefixes
  Uris <- MCUris
  Locations <- MCLocations
  Codes = {200, 302}
  Names = {"Location", "Type", ""}
  MaxDepth = 10
INVARIANTS LastServerAnswers AbsolutePathSent NewLocationRequested
PROPERTY Terminates
CHECK_DEADLOCK FALSE
