SPECIFICATION Spec
CONSTANTS
  None = None
  Lib = Lib
  Tool = Tool
  Sub = Sub
  Package = {Lib}
  Version = {"1.0.1", "1.1.0", "1.1.1", "1.2.0"}
  Prefix = {"1", "1.0", "1.1"}
  Rank <- MCRank
  TotalRank <- MCTotalRank
  Line <- MCLine
  Major <- MCMajor
  Finer <- MCFiner
  Prerelease <- MCPrerelease
  PackageRank <- MCPackageRank
  Nested <- MCNested
  QuarantineDays = 0
  AdmissionMaxSeverity = "high"
  DeprecateAfterDays = 1
  StaleAfterDays = 2
  MaxTracksPerPackage = 1
  Internal = {}
  Missing = {}
  Publishable = {}
  PublishedVersion = {}
  RequestSet <- OpenBesideDefault
  Reach = {"answered"}
  Finding <- LowFinding
  Disclosable = {"1.0.1"}
  Yankable = {}
  InitialRelease <- LinesOut
  LaterRelease = {"1.0.1", "1.1.1"}
  Horizon = 1
  MaxDisclosures = 1
  MaxSharedKeys = 0
PROPERTIES
  LinesAreLeftByName
  BudgetHeld
  LoneTracksAreNoRegression
