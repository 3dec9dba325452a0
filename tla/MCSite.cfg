SPECIFICATION SiteSpec
CONSTANTS
  slash = slash
  a = a
  Char = {slash, a}
  Nul = nul
  Paths <- MCPaths
  Uris <- MCUris
  Registry = {"EchoHandler", "StaticHandler"}
  Unknown = "Missing"
  Configs <- MCConfigs
  Ephemeral = 40000
INVARIANTS FirstUsableBlockServes FailureIsReported LongestPrefixServes StopsAtNul ServedAsListed
CHECK_DEADLOCK FALSE
