SPECIFICATION Spec
CONSTANTS
  p1 = p1
  p2 = p2
  r1 = r1
  v1 = v1
  v2 = v2
  linuxAmd = linuxAmd
  linuxArm = linuxArm
  macos = macos
  None = None
  Unidentified = Unidentified
  Procs = {p1, p2}
  Readers = {r1}
  Versions = {v1, v2}
  LegacyVersions = {v1}
  Keys = {linuxAmd, linuxArm, macos}
  OsOf <- MCOsOf
  HostOf <- MCHostOf
  NChunks = 2
  MaxFetches = 1
  MaxCrashes = 1
SYMMETRY Symmetry
INVARIANTS
  TypeOK
  InstalledIsVerified
  ResolvedIsUsable
  PointerMissingOnlyMidSwap
  OkMeansVerified
PROPERTY KeepsPromise
CHECK_DEADLOCK FALSE
