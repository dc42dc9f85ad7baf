SPECIFICATION Spec
CONSTANTS
  None = None
  Lib = Lib
  Odd = Odd
  early = early
  late = late
  ghost = ghost
  shade = shade
  Record = {early, late, ghost, shade}
  Package = {Lib, Odd}
  Version = {"1.0.0", "1.1.0"}
  Feedless = {Odd}
  About <- MCAbout
  Covers <- MCCovers
  Filter <- MCFilter
  Graded <- MCGraded
  Aliases <- MCAliases
  BatchCap = 2
  FeedCap = 2
  MaxPages = 2
  Asks <- MCAsks
  Later = {late}
  Revocable = {early}
INVARIANT
  SameFindingsWeighTheSame
