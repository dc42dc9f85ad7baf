SPECIFICATION FairSpec
CONSTANTS
  None = None
  Lib = Lib
  Tool = Tool
  Sub = Sub
  Package = {Lib, Tool}
  Version = {"1.0.0"}
  Prefix = {"1"}
  Rank <- MCRank
  TotalRank <- MCTotalRank
  Line <- MCLine
  Major <- MCMajor
  Finer <- MCFiner
  Prerelease <- MCPrerelease
  PackageRank <- MCPackageRank
  Nested <- MCNested
  QuarantineDays = 0
  AdmissionMaxSeverity = "high"
  DeprecateAfterDays = 1
  StaleAfterDays = 1
  MaxTracksPerPackage = 1
  Internal = {}
  Missing = {Tool}
  Publishable = {}
  PublishedVersion = {}
  RequestSet <- PoisonRequests
  Reach = {"answered", "unreachable"}
  Finding <- NoFindings
  Disclosable = {}
  Yankable = {}
  InitialRelease <- FirstOut
  LaterRelease = {}
  Horizon = 0
  MaxDisclosures = 0
  MaxSharedKeys = 0
PROPERTIES
  RequestsAreAnswered
