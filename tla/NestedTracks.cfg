SPECIFICATION Spec
CONSTANTS
  None = None
  Lib = Lib
  Tool = Tool
  Sub = Sub
  Package = {Lib, Sub}
  Version = {"1.0.1", "1.1.0", "2.0.0"}
  Prefix = {"1", "1.0", "2"}
  Rank <- MCRank
  TotalRank <- MCTotalRank
  Line <- MCLine
  Major <- MCMajor
  Finer <- MCFiner
  Prerelease <- MCPrerelease
  PackageRank <- MCPackageRank
  Nested <- MCNested
  QuarantineDays = 0
  AdmissionMaxSeverity = "high"
  DeprecateAfterDays = 1
  StaleAfterDays = 1
  MaxTracksPerPackage = 1
  Internal = {}
  Missing = {}
  Publishable = {}
  PublishedVersion = {}
  RequestSet <- NestedRequests
  Reach = {"answered"}
  Finding <- LowFinding
  Disclosable = {"1.0.1"}
  Yankable = {}
  InitialRelease <- NestedOut
  LaterRelease = {"1.0.1"}
  Horizon = 1
  MaxDisclosures = 1
  MaxSharedKeys = 0
PROPERTIES
  OpenedTracksAreNoRegression
