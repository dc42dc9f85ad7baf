SPECIFICATION FairSpec
CONSTANTS
  None = None
  Lib = Lib
  Tool = Tool
  Sub = Sub
  Package = {Lib}
  Version = {"1.0.0"}
  Prefix = {"1"}
  Rank <- MCRank
  TotalRank <- MCTotalRank
  Line <- MCLine
  Major <- MCMajor
  Finer <- MCFiner
  Prerelease <- MCPrerelease
  PackageRank <- MCPackageRank
  Nested <- MCNested
  QuarantineDays = 0
  AdmissionMaxSeverity = "high"
  DeprecateAfterDays = 1
  StaleAfterDays = 1
  MaxTracksPerPackage = 1
  Internal = {}
  Missing = {}
  Publishable = {}
  PublishedVersion = {}
  RequestSet <- AnyRequest
  Reach = {"answered"}
  Finding <- HighFinding
  Disclosable = {"1.0.0"}
  Yankable = {"1.0.0"}
  InitialRelease <- FirstOut
  LaterRelease = {}
  Horizon = 0
  MaxDisclosures = 1
  MaxSharedKeys = 0
PROPERTIES
  FindingsBecomeLoud
