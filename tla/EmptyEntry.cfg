SPECIFICATION Spec
CONSTANTS
  p1 = p1
  p2 = p2
  r1 = r1
  v1 = v1
  v2 = v2
  linuxAmd = linuxAmd
  linuxArm = linuxArm
  macos = macos
  None = None
  Unidentified = Unidentified
  Procs = {p1}
  Readers = {r1}
  Versions = {v1, v2}
  LegacyVersions = {v1}
  Keys = {linuxAmd, linuxArm, macos}
  OsOf <- MCOsOf
  HostOf <- MCHostOf
  NChunks = 2
  MaxFetches = 2
  MaxCrashes = 1
PROPERTY FallbackFindsSameOs
CHECK_DEADLOCK FALSE
