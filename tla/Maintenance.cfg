SPECIFICATION Spec
CONSTANTS
  None = None
  Lib = Lib
  Tool = Tool
  Sub = Sub
  Package = {Lib}
  Version = {"1.0.0", "1.1.0-rc1", "1.1.0", "2.0.0"}
  Prefix = {"1", "2"}
  Rank <- MCRank
  TotalRank <- MCTotalRank
  Line <- MCLine
  Major <- MCMajor
  Finer <- MCFiner
  Prerelease <- MCPrerelease
  PackageRank <- MCPackageRank
  Nested <- MCNested
  QuarantineDays = 1
  AdmissionMaxSeverity = "high"
  DeprecateAfterDays = 0
  StaleAfterDays = 1
  MaxTracksPerPackage = 1
  Internal = {}
  Missing = {}
  Publishable = {}
  PublishedVersion = {}
  RequestSet <- LineRequest
  Reach = {"answered", "unreachable"}
  Finding <- DatedFindings
  Disclosable = {"1.0.0", "1.1.0"}
  Yankable = {"1.1.0-rc1", "2.0.0"}
  InitialRelease <- PreOut
  LaterRelease = {"1.1.0"}
  Horizon = 2
  MaxDisclosures = 1
  MaxSharedKeys = 0
INVARIANTS
  QuietIsNotDeprecated
PROPERTIES
  AdvisoriesAreWithdrawnOnEvidence
  VulnerableTracksAreAdvised
  NoFixIsNotEarly
  DeprecationsStand
