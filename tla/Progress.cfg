SPECIFICATION FairSpec
CONSTANTS
  None = None
  Lib = Lib
  Tool = Tool
  Sub = Sub
  Package = {Lib}
  Version = {"1.0.0", "1.1.0"}
  Prefix = {"1"}
  Rank <- MCRank
  TotalRank <- MCTotalRank
  Line <- MCLine
  Major <- MCMajor
  Finer <- MCFiner
  Prerelease <- MCPrerelease
  PackageRank <- MCPackageRank
  Nested <- MCNested
  QuarantineDays = 1
  AdmissionMaxSeverity = "high"
  DeprecateAfterDays = 1
  StaleAfterDays = 1
  MaxTracksPerPackage = 1
  Internal = {}
  Missing = {}
  Publishable = {}
  PublishedVersion = {}
  RequestSet <- Upgrades
  Reach = {"answered", "unreachable"}
  Finding <- HighFinding
  Disclosable = {"1.0.0", "1.1.0"}
  Yankable = {}
  InitialRelease <- BothOut
  LaterRelease = {}
  Horizon = 1
  MaxDisclosures = 1
  MaxSharedKeys = 1
INVARIANTS
  VerdictsAnswerTheirRequests
  RecordsSurviveTheWire
PROPERTIES
  RunsLeaveNoRequestBehind
  RequestsAreAnswered
  FindingsBecomeLoud
