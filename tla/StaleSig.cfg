SPECIFICATION Spec
CONSTANTS
  build1 = build1
  build2 = build2
  a1 = a1
  a2 = a2
  b = b
  linux = linux
  darwin = darwin
  None = None
  Builds = {build1}
  Releases = {a1, a2, b}
  ExtractorOf <- MCExtractorOf
  Platforms = {linux, darwin}
  Cyclic = {darwin}
  MaxCrashes = 1
PROPERTY HitIsOwnPlatform
