SPECIFICATION Spec
CONSTANTS
  None = None
  Lib = Lib
  Tool = Tool
  Sub = Sub
  Package = {Tool}
  Version = {"1.0.0", "1.1.0"}
  Prefix = {"1"}
  Rank <- MCRank
  TotalRank <- MCTotalRank
  Line <- MCLine
  Major <- MCMajor
  Finer <- MCFiner
  Prerelease <- MCPrerelease
  PackageRank <- MCPackageRank
  Nested <- MCNested
  QuarantineDays = 1
  AdmissionMaxSeverity = "high"
  DeprecateAfterDays = 1
  StaleAfterDays = 1
  MaxTracksPerPackage = 1
  Internal = {Tool}
  Missing = {Tool}
  Publishable = {Tool}
  PublishedVersion = {"1.0.0", "1.1.0"}
  RequestSet <- NoRequests
  Reach = {"answered", "unreachable"}
  Finding <- NoFindings
  Disclosable = {}
  Yankable = {}
  InitialRelease <- FirstOut
  LaterRelease = {}
  Horizon = 1
  MaxDisclosures = 0
  MaxSharedKeys = 0
PROPERTIES
  CurrentOnlyMovesForward
