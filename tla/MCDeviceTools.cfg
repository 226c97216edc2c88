SPECIFICATION Spec
CONSTANTS
  k = k
  a = a
  b = b
  local = local
  v1 = v1
  v2 = v2
  v3 = v3
  far = far
  x = x
  m1 = m1
  m2 = m2
  m3 = m3
  claude = claude
  codex = codex
  None = None
  Hole = Hole
  Keys = {k}
  Serials = {}
  Fields <- MCFields
  Values <- MCValues
  Sessions = {s1, s2}
  Requests = {r1, r2}
  Images = {a, b}
  Chunks = 2
  MaxCalls = 4
  Flags <- MCFlags
  LocalURL = local
  LocalVersion = v1
  External <- MCExternal
  Manifests = {m1, m2, m3}
  Covers <- MCCovers
  Claude <- MCClaude
  FlagCalls <- MCFlagCalls
  Floors = {2}
  Targets = {0, 1, 2}
INVARIANTS TypeOK InstalledWhole HeaderMatchesBody PublishedIsInstalled FirmwareTogether ManifestMatches FlagsAsWanted
PROPERTIES FollowsLife
SYMMETRY MCSymmetry
CHECK_DEADLOCK FALSE
