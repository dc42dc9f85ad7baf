------------------------------- MODULE Policy -------------------------------
(***************************************************************************)
(* The pure policy functions of policycontroller.go: upgrade, admission,   *)
(* opening a track, deprecation and quiet.                                 *)
(*                                                                         *)
(* The candidates a function weighs are a function from the versions on    *)
(* offer to what is known of each: the source's slices hold each version   *)
(* once, in an order (a Go map's, for npm and PyPI) the result must not    *)
(* depend on.  "The first of the sorted slice that ..." is therefore the   *)
(* greatest element, in the sort's order, of the set of those that ....    *)
(*                                                                         *)
(* Versions are opaque here.  What the policy reads off a version string   *)
(* (CompareVersions, InPrefix, MajorOf, IsPrerelease) comes in as          *)
(* constants, VersionOrder is the module that computes them.               *)
(***************************************************************************)
EXTENDS SeverityVector, FiniteSets, FiniteSetsExt

CONSTANTS
  Version,              \* version strings
  Prefix,               \* track prefixes
  Rank,                 \* CompareVersions: the sign of a difference of ranks
  TotalRank,            \* compareTotal, which breaks the ties of Rank
  Line,                 \* InPrefix: the versions in the line of a prefix
  Major,                \* MajorOf
  Finer,                \* isFiner: the prefixes below a major
  Prerelease,           \* IsPrerelease
  QuarantineDays,       \* the register's parameters
  AdmissionMaxSeverity,
  DeprecateAfterDays,
  StaleAfterDays,
  MaxTracksPerPackage,
  None                  \* "" or nil

\* What the version order guarantees (VersionOrderProofs).
ASSUME VersionAssumption ==
  /\ IsFiniteSet(Version)
  /\ None \notin Version
  /\ None \notin Prefix
  /\ Version \subseteq DOMAIN Rank
  /\ Prefix \subseteq DOMAIN Rank
  /\ \A x \in Version \cup Prefix : Rank[x] \in Int
  /\ TotalRank \in [Version -> Int]
  /\ \A v, w \in Version :
       /\ TotalRank[v] = TotalRank[w] => v = w
       /\ Rank[v] < Rank[w] => TotalRank[v] < TotalRank[w]
  /\ Line \in [Prefix -> SUBSET Version]
  /\ Major \in [Version -> Prefix]
  /\ Finer \subseteq Prefix
  /\ Prerelease \subseteq Version

\* What config.Validate lets through.
ASSUME ParamsAssumption ==
  /\ QuarantineDays \in Nat
  /\ AdmissionMaxSeverity \in Severity
  /\ DeprecateAfterDays \in Nat
  /\ StaleAfterDays \in Nat
  /\ MaxTracksPerPackage \in Nat \ {0}

-----------------------------------------------------------------------------
(* What is known of a candidate.                                           *)

Outcome == {"findings", "clean", "not-found", "unreachable"}

\* classified: the feed published a severity for some finding.
\* publishedAt: the earliest publication date among the findings, if dated.
Facts == [releasedAt : Nat, vulns : Vector, outcome : Outcome,
          classified : BOOLEAN, publishedAt : Nat \cup {None}]

Measured(outcome) == outcome \in {"findings", "clean"}

Code == {"adopted", "up-to-date", "held-worse-vector", "held-quarantined",
         "pending-admission", "denied-over-floor", "denied-quarantined",
         "denied-unknown-version", "denied-not-a-maintained-line",
         "denied-security-regression", "denied-over-budget"}

Verdict == [code : Code, track : Prefix \cup {None},
            requested : Version \cup {None}, adopted : Version \cup {None},
            alternatives : SUBSET Version]

Newest(pool) == CHOOSE v \in pool : \A w \in pool : TotalRank[w] <= TotalRank[v]

Baked(facts, t) == t - facts.releasedAt >= QuarantineDays

Admissible(facts, t) ==
  /\ ~ Exceeds(facts.vulns, AdmissionMaxSeverity)
  /\ Baked(facts, t)

-----------------------------------------------------------------------------
(* Upgrade: does a track move, and where to.                               *)

\* The vector of the current version: fresh if it is on offer, else recorded.
CurrentVector(track, cands) ==
  IF track.current \in DOMAIN cands THEN cands[track.current].vulns ELSE track.vulns

\* Mutant of Newer: a version of another line will do.
NewerAnywhere(track, prefix, cands, internal) ==
  {v \in DOMAIN cands : /\ v \notin Prerelease \/ internal
                        /\ Rank[v] > Rank[track.current]}

Newer(track, prefix, cands, internal) ==
  {v \in DOMAIN cands : /\ v \notin Prerelease \/ internal
                        /\ v \in Line[prefix]
                        /\ Rank[v] > Rank[track.current]}

\* Mutants of Adoptable: an equally safe version skips the quarantine, too;
\* a version that has baked is adopted whatever its vector.
AdoptableUnbaked(newer, held, cands, t) ==
  {v \in newer : Safer(cands[v].vulns, held) \/ cands[v].vulns = held}
AdoptableOnceBaked(newer, held, cands, t) ==
  {v \in newer : Safer(cands[v].vulns, held) \/ Baked(cands[v], t)}

\* Strictly safer versions skip the quarantine, equally safe ones wait it out.
Adoptable(newer, held, cands, t) ==
  {v \in newer : \/ Safer(cands[v].vulns, held)
                 \/ cands[v].vulns = held /\ Baked(cands[v], t)}

EvaluateUpgrade(track, prefix, cands, internal, t) ==
  LET held        == CurrentVector(track, cands)
      newer       == Newer(track, prefix, cands, internal)
      adoptable   == Adoptable(newer, held, cands, t)
      quarantined == {v \in newer : cands[v].vulns = held}
      verdict(code, adopted, alternatives) ==
        [code |-> code, track |-> prefix, requested |-> None,
         adopted |-> adopted, alternatives |-> alternatives]
  IN  CASE newer = {} -> verdict("up-to-date", None, {})
        [] adoptable # {} -> verdict("adopted", Newest(adoptable), {})
        [] newer # {} /\ adoptable = {} /\ quarantined # {} ->
             verdict("held-quarantined", None, {Newest(quarantined)})
        [] OTHER -> verdict("held-worse-vector", None, {Newest(newer)})

-----------------------------------------------------------------------------
(* Admission: a request for a package, a line of it or an exact version.   *)

\* The line a request is answered from: the one it names, else the highest
\* major that holds a release.  Empty if there is none.
PoolFor(request, cands) ==
  LET releases == DOMAIN cands \ Prerelease
      highest  == {v \in releases : \A w \in releases : Rank[Major[w]] <= Rank[Major[v]]}
      line     == IF request.track # None THEN Line[request.track]
                  ELSE UNION {Line[Major[v]] : v \in highest}
  IN  releases \cap line

TrackFor(request, v) == IF request.track # None THEN request.track ELSE Major[v]

\* Safest first, then the most recent, then the newest.
Precedes(v, w, cands) ==
  \/ Safer(cands[v].vulns, cands[w].vulns)
  \/ /\ cands[v].vulns = cands[w].vulns
     /\ \/ cands[v].releasedAt > cands[w].releasedAt
        \/ /\ cands[v].releasedAt = cands[w].releasedAt
           /\ TotalRank[v] > TotalRank[w]

First(pool, cands) == CHOOSE v \in pool : \A w \in pool \ {v} : Precedes(v, w, cands)

\* The version an exact request means: the string itself, else the newest
\* spelling of an equal version.
ExactMatch(cands, version) ==
  LET equal == {v \in DOMAIN cands : Rank[v] = Rank[version]}
  IN  CASE version \in DOMAIN cands -> version
        [] version \notin DOMAIN cands /\ equal # {} -> Newest(equal)
        [] OTHER -> None

\* Mutant of PassingAlternatives: the newest version is offered alone.
PassingAlternativesLatest(cands, rejected, t) ==
  {v \in {Newest(DOMAIN cands)} : Rank[v] # Rank[rejected]}

\* Offered instead of a rejected version: the newest the policy would admit,
\* and the newest of all.
PassingAlternatives(cands, rejected, t) ==
  LET passing == {v \in DOMAIN cands : Admissible(cands[v], t)}
      offered == IF passing = {} THEN {} ELSE {Newest(passing)}
      latest  == Newest(DOMAIN cands)
      other(S) == {v \in S : Rank[v] # Rank[rejected]}
  IN  other(offered) \cup
      (IF \A v \in offered : Rank[v] # Rank[latest] THEN other({latest}) ELSE {})

EvaluateExact(request, cands, t) ==
  LET found == ExactMatch(cands, request.version)
      verdict(code, track, adopted, alternatives) ==
        [code |-> code, track |-> track, requested |-> request.version,
         adopted |-> adopted, alternatives |-> alternatives]
  IN  IF found = None THEN verdict("denied-unknown-version", request.track, None, {})
      ELSE IF Exceeds(cands[found].vulns, AdmissionMaxSeverity)
      THEN verdict("denied-over-floor", request.track, None,
                   PassingAlternatives(cands, found, t))
      ELSE IF ~ Baked(cands[found], t)
      THEN verdict("denied-quarantined", request.track, None,
                   PassingAlternatives(cands, found, t))
      ELSE verdict("adopted", TrackFor(request, found), found, {})

EvaluateAny(request, cands, t) ==
  LET pool       == PoolFor(request, cands)
      passing    == {v \in pool : ~ Exceeds(cands[v].vulns, AdmissionMaxSeverity)}
      admissible == {v \in pool : Admissible(cands[v], t)}
      verdict(code, track, adopted, alternatives) ==
        [code |-> code, track |-> track, requested |-> None,
         adopted |-> adopted, alternatives |-> alternatives]
  IN  CASE pool = {} -> verdict("denied-unknown-version", request.track, None, {})
        [] admissible # {} ->
             LET best == First(admissible, cands)
             IN  verdict("adopted", TrackFor(request, best), best, {})
        [] admissible = {} /\ passing # {} ->
             verdict("pending-admission", request.track, None, {First(passing, cands)})
        [] OTHER -> verdict("denied-over-floor", request.track, None, {Newest(pool)})

EvaluateAdmission(request, cands, t) ==
  IF request.version # None /\ DOMAIN cands # {}
  THEN EvaluateExact(request, cands, t)
  ELSE [EvaluateAny(request, cands, t) EXCEPT !.requested = request.version]

-----------------------------------------------------------------------------
(* Opening a finer track beside the default one.                           *)

\* Upstream still releases into the line after a successor appeared.
Maintained(prefix, cands, t) ==
  LET releases   == DOMAIN cands \ Prerelease
      inLine     == {cands[v].releasedAt : v \in releases \cap Line[prefix]}
      successors == {cands[v].releasedAt :
                       v \in {w \in releases \ Line[prefix] : Rank[w] > Rank[prefix]}}
  IN  /\ inLine # {}
      /\ successors # {}
      /\ Max(inLine) > Min(successors)
      /\ t - Max(inLine) <= StaleAfterDays

\* Mutant of BudgetSpent: off by one.
BudgetOverspent(finerTracks) == finerTracks > MaxTracksPerPackage

BudgetSpent(finerTracks) == finerTracks >= MaxTracksPerPackage

\* Mutant of Regresses: the comparison the other way round.
RegressesReversed(opened, defaultCurrent, cands) ==
  defaultCurrent # None /\ Safer(cands[opened].vulns, cands[defaultCurrent].vulns)

\* defaultCurrent: the default track's current version, if it is on offer.
Regresses(opened, defaultCurrent, cands) ==
  defaultCurrent # None /\ Safer(cands[defaultCurrent].vulns, cands[opened].vulns)

EvaluateTrackOpen(request, cands, defaultCurrent, finerTracks, t) ==
  LET prefix     == request.track
      inLine     == (DOMAIN cands \ Prerelease) \cap Line[prefix]
      admissible == {v \in inLine : Admissible(cands[v], t)}
      best       == Newest(admissible)
      verdict(code, adopted, alternatives) ==
        [code |-> code, track |-> prefix, requested |-> None,
         adopted |-> adopted, alternatives |-> alternatives]
  IN  IF inLine = {} THEN verdict("denied-unknown-version", None, {})
      ELSE IF ~ Maintained(prefix, cands, t)
      THEN verdict("denied-not-a-maintained-line", None, {})
      ELSE IF BudgetSpent(finerTracks)
      THEN verdict("denied-over-budget", None, {})
      ELSE IF admissible = {}
      THEN verdict("denied-over-floor", None, {Newest(inLine)})
      ELSE IF Regresses(best, defaultCurrent, cands)
      THEN verdict("denied-security-regression", None, {})
      ELSE verdict("adopted", best, {})

-----------------------------------------------------------------------------
(* Deprecation and quiet: the windows that run on dates.                   *)

\* Mutant of EvaluateDeprecation: decides afresh at every run.
EvaluateDeprecationAfresh(track, hasSuccessor, lastRelease, t) ==
  IF track.advisory # None /\ t - track.advisory.since > DeprecateAfterDays
  THEN [reason |-> "no-fix", since |-> t]
  ELSE IF hasSuccessor /\ lastRelease # None /\ t - lastRelease > StaleAfterDays
  THEN [reason |-> "stale", since |-> t]
  ELSE None

\* lastRelease is the last release into the track's line, None if there is none.
EvaluateDeprecation(track, hasSuccessor, lastRelease, t) ==
  IF track.deprecated # None THEN track.deprecated
  ELSE IF /\ track.advisory # None
          /\ t - track.advisory.since > DeprecateAfterDays
  THEN [reason |-> "no-fix", since |-> t]
  ELSE IF /\ hasSuccessor
          /\ lastRelease # None
          /\ t - lastRelease > StaleAfterDays
  THEN [reason |-> "stale", since |-> t]
  ELSE None

EvaluateQuiet(track, hasSuccessor, lastRelease, t) ==
  IF \/ track.deprecated # None
     \/ hasSuccessor
     \/ lastRelease = None
     \/ t - lastRelease <= StaleAfterDays
  THEN None ELSE lastRelease

=============================================================================
