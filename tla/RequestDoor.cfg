SPECIFICATION Spec
CONSTANTS
  None = None
  Lib = Lib
  Tool = Tool
  Sub = Sub
  Package = {Lib}
  Version = {"1.0", "1.0.0", "1.1.0", "2.0.0"}
  Prefix = {"1", "2"}
  Rank <- MCRank
  TotalRank <- MCTotalRank
  Line <- MCLine
  Major <- MCMajor
  Finer <- MCFiner
  Prerelease <- MCPrerelease
  PackageRank <- MCPackageRank
  Nested <- MCNested
  QuarantineDays = 1
  AdmissionMaxSeverity = "high"
  DeprecateAfterDays = 0
  StaleAfterDays = 1
  MaxTracksPerPackage = 1
  Internal = {}
  Missing = {}
  Publishable = {}
  PublishedVersion = {}
  RequestSet <- DoorRequests
  Reach = {"answered", "unreachable"}
  Finding <- AliasedOrNone
  Disclosable = {"1.0.0", "1.1.0"}
  Yankable = {"1.0.0"}
  InitialRelease <- FirstOut
  LaterRelease = {"1.1.0", "2.0.0"}
  Horizon = 1
  MaxDisclosures = 2
  MaxSharedKeys = 0
INVARIANTS
  TypeOK
  AdoptedVerdictsAreBacked
PROPERTIES
  ImplementsCatalog
  RejectionsAreCorrectable
  EntryIsBaked
  EntryIsSafe
  UnmeasuredTracksAreNamed
