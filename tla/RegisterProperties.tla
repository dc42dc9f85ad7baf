------------------------- MODULE RegisterProperties -------------------------
(***************************************************************************)
(* What makes the register correct: invariants, properties of its steps,   *)
(* the abstract catalog it implements, and what must eventually happen.    *)
(***************************************************************************)
EXTENDS Wire

\* The state of the register: what each record and each variable of a run may hold.
TypeOK ==
  /\ now \in Day
  /\ released \in [Package -> [Version -> Day \cup {None}]]
  /\ yanked \in [Package -> SUBSET Version]
  /\ findings \in [Package -> [Version -> Finding \cup {NoFinding}]]
  /\ disclosures \in 0..MaxDisclosures
  /\ publishing \in Publication \cup {None}
  /\ index \in [TrackKey -> Track \cup {None}]
  /\ requests \in [Key -> Request \cup {None}]
  /\ verdicts \in [Key -> Verdict \cup {None}]
  /\ filed \in [Key -> SUBSET Request]
  /\ pc \in {"idle", "process", "record", "evaluate"}
  /\ verb \in {"process", "apply", "evaluate"}
  /\ at \in Day
  /\ pending \subseteq Request
  /\ answering \in Request \cup {None}
  /\ decided \in Verdict \cup {None}
  /\ snapshot \in [TrackKey -> Track \cup {None}]
  /\ unmeasured \subseteq TrackKey

-----------------------------------------------------------------------------
(* The index and the verdicts.                                             *)

\* The index holds version v, or a later one, in track k.
Holds(k, v) == index[k] # None /\ Rank[index[k].current] >= Rank[v]

\* A recorded adoption is true: the track it names is in the index and at or
\* past the adopted version.  answer() writes the track before Process writes
\* the verdict, and the run may die in between.
AdoptedVerdictsAreBacked ==
  \A k \in Key :
    (verdicts[k] # None /\ verdicts[k].code = "adopted")
      => /\ verdicts[k].track # None
         /\ verdicts[k].adopted # None
         /\ Holds(<<k.pkg, verdicts[k].track>>, verdicts[k].adopted)

\* The verdict answers what the request asked.
Fits(verdict, request) ==
  /\ request.track # None => verdict.track = request.track
  /\ request.type # "open-track" => verdict.requested = request.version

\* The verdict found at a request's key answers a request that was filed there,
\* although the pipeline works from a copy of the requests it read earlier.  (Two
\* requests of one second and type share a key: the later one is then taken for
\* answered by the verdict on the earlier.)
VerdictsAnswerTheirRequests ==
  \A k \in Key :
    verdicts[k] # None
      => /\ requests[k] # None
         /\ \E r \in filed[k] : Fits(verdicts[k], r)

InLine(k) == index[k] # None => index[k].current \in Line[k[2]]

\* "A maintained line of one package, named by a semver prefix": a track comes
\* to stand on a version of another line only by the answer to a request that
\* names both the track and the version.  No evaluation, no publish and no other
\* request takes it there.
LinesAreLeftByName ==
  [][\A k \in TrackKey :
       (InLine(k) /\ ~ InLine(k)') =>
         \E r \in pending : /\ Answer(r)
                            /\ r.pkg = k[1]
                            /\ r.track = k[2]
                            /\ r.version # None]_vars

FinerTracksHeld(p) == {f \in Finer : index[<<p, f>>] # None}

\* maxTracksPerPackage is "the budget of finer tracks per package": whatever is
\* retried and lost, a package gets a finer track beyond its budget only by a
\* request that is not held to it, one that asks for a version in a finer line.
BudgetHeld ==
  [][\A p \in Package :
       LET finer == FinerTracksHeld(p)
       IN  (/\ Cardinality(finer') > MaxTracksPerPackage
            /\ finer' # finer) =>
             \E r \in pending : /\ Answer(r)
                                /\ r.pkg = p
                                /\ r.type # "open-track"
                                /\ r.track \in Finer]_vars

\* Quiet is for a track with nowhere to go: one that is deprecated is not
\* also quiet, whichever mark came first.
QuietIsNotDeprecated ==
  \A k \in TrackKey :
    index[k] # None => index[k].deprecated = None \/ index[k].quietSince = None

\* Records that lack everything they may lack, and records that lack nothing.
Bare ==
  [ecosystem |-> None, updatedAt |-> None, reason |-> None, source |-> None,
   provenance |-> None, osvSnapshot |-> None, adoptedAt |-> None,
   vulnIds |-> <<>>, fixedIn |-> <<>>, affectedImports |-> <<>>,
   requester |-> None, message |-> None, decidedAt |-> None, vulns |-> Clean,
   releasedAt |-> None]
Filled ==
  [ecosystem |-> "go", updatedAt |-> "updated", reason |-> "reason",
   source |-> "source", provenance |-> "provenance", osvSnapshot |-> "snapshot",
   adoptedAt |-> "adopted", vulnIds |-> <<"id", "other">>, fixedIn |-> <<"fix">>,
   affectedImports |-> <<"import">>, requester |-> "requester",
   message |-> "message", decidedAt |-> "decided",
   vulns |-> [critical |-> 1, high |-> 2, medium |-> 3, low |-> 4],
   releasedAt |-> "released"]

\* What the store is given it gives back: no record loses a field between the
\* two mappings of regwire.go, so that writing a track back whole, as every
\* evaluation does, erases nothing of it.
RecordsSurviveTheWire ==
  \A rest \in {Bare, Filled} :
    /\ \A k \in TrackKey :
         LET t == TrackRecord(k, index[k], rest)
         IN  index[k] # None => TrackFromWire(TrackToWire(t)) = t
    /\ \A k \in Key :
         LET r == RequestRecord(requests[k], rest)
             v == VerdictRecord(k, verdicts[k], rest)
         IN  /\ requests[k] # None => RequestFromWire(RequestToWire(r)) = r
             /\ verdicts[k] # None => VerdictFromWire(VerdictToWire(v)) = v

\* A step takes track k, if at all, to a later version.
MovesForward(k) ==
  index[k] # None
    => index'[k] # None /\ Rank[index'[k].current] >= Rank[index[k].current]

\* A track that was opened stays, and its current version never goes back,
\* whoever moves it: a request, an evaluation or a publish.
CurrentOnlyMovesForward == [][\A k \in TrackKey : MovesForward(k)]_vars

\* What a reader sees of the verdicts, and of the tracks of the packages nobody
\* publishes.  (A publish and an evaluation may undo each other.)
Unpublished == {k \in TrackKey : k[1] \notin Publishable}

HeldVersions ==
  [k \in Unpublished |-> IF index[k] = None THEN None ELSE index[k].current]

GivenAnswer(k) ==
  IF verdicts[k].code = "adopted"
  THEN [track |-> <<k.pkg, verdicts[k].track>>, version |-> verdicts[k].adopted]
  ELSE [track |-> None, version |-> None]

GivenAnswers == [k \in Key |-> IF verdicts[k] = None THEN None ELSE GivenAnswer(k)]

\* The register implements the catalog its readers rely on.
Promise == INSTANCE Catalog WITH TrackKey <- Unpublished,
                                 held <- HeldVersions, answers <- GivenAnswers

ImplementsCatalog == Promise!Spec

-----------------------------------------------------------------------------
(* What the feed may say.                                                  *)

\* What the world knows of a version, and what the feed tells of it when the
\* severities it borrows do not load.
Readings(p, v) ==
  LET known == findings[p][v]
  IN  {known} \cup (IF known.borrowed THEN {Untold(known)} ELSE {})

VulnsRead(p, v) == {f.vulns : f \in Readings(p, v)}

Vulns(p, v) == findings[p][v].vulns

\* The versions a run may look up.
Offered(p) == IF p \in Internal THEN Version ELSE Listed(p)

\* Version v is newer than w in the line of track k, and safer in what the feed
\* may say of the two.
Fixes(k, v, w) ==
  /\ v \in Offered(k[1]) \cap Line[k[2]]
  /\ Rank[v] > Rank[w]
  /\ \E new \in VulnsRead(k[1], v), old \in VulnsRead(k[1], w) : Safer(new, old)

\* "A rejection is correctable from its verdict alone": a request for one
\* version that is refused for what it carries is offered a version the policy
\* accepts, if upstream lists one it accepts whatever an alias fails to tell.
RejectionsAreCorrectable ==
  [][\A r \in pending :
       (/\ answering' = r
        /\ decided'.code = "denied-over-floor"
        /\ r.version # None) =>
         LET under(v) == {u \in VulnsRead(r.pkg, v) : ~ Exceeds(u, AdmissionMaxSeverity)}
             baked == {v \in Listed(r.pkg) :
                         /\ Rank[v] # Rank[r.version]
                         /\ at - released[r.pkg][v] >= QuarantineDays}
         IN  (\E v \in baked : under(v) = VulnsRead(r.pkg, v))
               => \E v \in baked \cap decided'.alternatives : under(v) # {}]_vars

\* "Answered on its next run": a run that gets past the requests leaves none
\* without a verdict that was filed before its day, whatever was filed, retried
\* or lost meanwhile.
RunsLeaveNoRequestBehind ==
  [][FinishProcess =>
       \A k \in Key : requests[k] # None /\ k.at < at => verdicts[k] # None]_vars

-----------------------------------------------------------------------------
(* What enters the index.                                                  *)

\* Track k stands on a version that may still be looked up.
StillOffered(k) == index[k] # None => index[k].current \in Offered(k[1])

\* What may be said of the version track k stands on: what the feed tells, or the
\* vector recorded of it if upstream lists it no more.
VulnsHeld(k) ==
  IF StillOffered(k) THEN VulnsRead(k[1], index[k].current) ELSE {index[k].vulns}

\* A step moves the track of a registry package.
Moves(k) ==
  /\ k[1] \notin Internal
  /\ index'[k] # None
  /\ index[k] = None \/ index[k].current # index'[k].current

\* What a step moves track k to has baked, or is worth the hurry.
EntersBaked(k) ==
  (Moves(k) /\ (StillOffered(k) \/ Measured(index'[k].outcome))) =>
    \/ at - index'[k].releasedAt >= QuarantineDays
    \/ /\ index[k] # None
       /\ \E new \in VulnsRead(k[1], index'[k].current), old \in VulnsHeld(k) :
            Safer(new, old)

\* quarantineDays is "waived for a strictly safer version" and for nothing
\* else: a version that enters has baked, or it is strictly safer than the one
\* it replaces.  Not counted are a track whose version upstream took back and a
\* feed that does not answer, both at once: then nothing was compared.
EntryIsBaked == [][\A k \in TrackKey : EntersBaked(k)]_vars

\* What a step moves track k to is as safe as the policy asks.
EntersSafe(k) ==
  (Moves(k) /\ Measured(index'[k].outcome)) =>
    \E new \in VulnsRead(k[1], index'[k].current) :
      LET over(u) == Exceeds(u, AdmissionMaxSeverity)
      IN  /\ pc = "process" => ~ over(new)
          /\ pc = "evaluate" =>
               \E old \in VulnsHeld(k) : ~ Safer(old, new) /\ (over(new) => over(old))

\* What the feed measured decides: a request adopts nothing at or above the
\* floor, and an evaluation never trades the version of a track, or what is
\* recorded of it, for a less safe one ("staying").  It may leave a track above
\* the floor and move it there, but takes none there from below.
EntryIsSafe == [][\A k \in TrackKey : EntersSafe(k)]_vars

\* The default track of a package is its own highest major.
DefaultTrack(p) ==
  LET majors == {k \in {p} \X (Prefix \ Finer) : index[k] # None}
  IN  {k \in majors : \A l \in majors : Rank[l[2]] <= Rank[k[2]]}

\* A step that opens track k for an open-track request, and on a feed that
\* answers, opens it no less safe than the default track of the package.
OpensNoRegression(k) ==
  (/\ pc = "process"
   /\ answering' # None
   /\ answering'.type = "open-track"
   /\ index[k] = None
   /\ index'[k] # None
   /\ Measured(index'[k].outcome)) =>
    \A current \in {index[d].current : d \in DefaultTrack(k[1])} \cap Listed(k[1]) :
      \E new \in VulnsRead(k[1], index'[k].current), old \in VulnsRead(k[1], current) :
        ~ Safer(old, new)

\* denied-security-regression is for a track that "would open less safe than
\* the default track's current": no track opens while the version the package's
\* highest major stands on, and upstream still lists, is strictly safer.
OpenedTracksAreNoRegression == [][\A k \in TrackKey : OpensNoRegression(k)]_vars

\* The same as long as no package nested below that of the track has a track.
LoneTracksAreNoRegression ==
  [][\A k \in TrackKey : TracksOf(k[1]) \subseteq {k[1]} \X Prefix => OpensNoRegression(k)]_vars

-----------------------------------------------------------------------------
(* What the register says about what it holds.                             *)

\* A step that withdraws the advisory of track k has a reason to.
WithdrawnOnEvidence(k) ==
  (/\ index[k] # None
   /\ index[k].advisory # None
   /\ index'[k].advisory = None) =>
    LET current == index'[k].current
    IN  \/ Vulns(k[1], current) = Clean
        \/ \E v \in Version : Fixes(k, v, current)

\* An advisory is withdrawn on evidence only.  When one disappears the feed
\* says that the current version is clean or that a safer newer one is out; an
\* outage is not a way to withdraw a finding.  (Nor is a publish, unless it
\* races an evaluation: TrueCopiesLoseNothing.)
AdvisoriesAreWithdrawnOnEvidence ==
  [][\A k \in TrackKey : k[1] \notin Publishable => WithdrawnOnEvidence(k)]_vars

\* An evaluation that measured a track's current version as vulnerable leaves an
\* advisory on it.
AdvisedIfVulnerable(k) ==
  LET current == index'[k].current
  IN  (/\ index'[k] # None
       /\ index'[k].outcome = "findings"
       /\ current \in Offered(k[1])
       /\ EvaluateTrack(k)) =>
        \/ index'[k].advisory # None
        \/ \E v \in Prerelease : Fixes(k, v, current)

\* Once an evaluation has measured a track's current version as vulnerable, the
\* track carries an advisory: had a safer newer release existed, the same
\* evaluation would have moved to it, so that none is left to clear it.  A
\* pre-release is: it counts as a fix and is no upgrade.
VulnerableTracksAreAdvised == [][\A k \in TrackKey : AdvisedIfVulnerable(k)]_vars

\* An advisory "marks a current version carrying a vulnerability": once an
\* evaluation has measured the version a track stands on, its advisory speaks of
\* that version, whatever it said of the one a publish or an upgrade has left.
AdvisoriesFollowCurrent ==
  [][\A k \in TrackKey :
       (/\ EvaluateTrack(k)
        /\ Measured(index'[k].outcome)
        /\ index'[k].current \in Offered(k[1])
        /\ index'[k].advisory # None) =>
         \E read \in Readings(k[1], index'[k].current) :
           /\ read.vulns # Clean
           /\ index'[k].advisory.severity =
                IF read.classified THEN Worst(read.vulns) ELSE "unknown"]_vars

\* What an evaluation or a publish has read of track k, and not written back,
\* is what the index holds.
Settled(k) ==
  /\ snapshot[k] # None => index[k] = snapshot[k]
  /\ (publishing # None /\ publishing.key = k) => publishing.track = index[k]

\* A step that deprecates track k for want of a fix has waited for one.
NoFixNotEarly(k) ==
  (/\ index'[k] # None
   /\ index'[k].deprecated # None
   /\ index'[k].deprecated.reason = "no-fix"
   /\ Measured(index'[k].outcome)
   /\ index[k] = None \/ index[k].deprecated = None) =>
    LET known == findings[k[1]][index'[k].current]
    IN  /\ known.vulns # Clean
        /\ known.publishedAt # None
        /\ at - known.publishedAt > DeprecateAfterDays

\* "Our clock deprecates a track early": a track whose feed answers is
\* deprecated for want of a fix only when the finding on its current version
\* was published longer than deprecateAfterDays ago.  Not counted are a version
\* upstream took back, whose finding nobody looks up while the advisory ages,
\* and a step that overwrites what it has not seen.
NoFixIsNotEarly ==
  [][\A k \in TrackKey : (StillOffered(k) /\ Settled(k)) => NoFixNotEarly(k)]_vars

DeprecationStands(k) ==
  (index[k] # None /\ index[k].deprecated # None)
    => index'[k].deprecated = index[k].deprecated

\* A deprecation stands: it is neither withdrawn nor dated anew by a later
\* request or evaluation, on any track but those of published packages, where
\* a publish may race an evaluation (TrueCopiesLoseNothing).
DeprecationsStand ==
  [][\A k \in TrackKey : k[1] \notin Publishable => DeprecationStands(k)]_vars

\* Putting a track writes a copy back whole.  As long as the copies of a track
\* are true nothing is lost with that, whoever writes: the track moves forward,
\* its deprecation stands, and it takes evidence to withdraw its advisory.
TrueCopiesLoseNothing ==
  [][\A k \in TrackKey :
       Settled(k) => /\ MovesForward(k)
                     /\ DeprecationStands(k)
                     /\ WithdrawnOnEvidence(k)]_vars

\* A step that leaves track k unmeasured says so.
NamedIfUnmeasured(k) ==
  (/\ index'[k] # None
   /\ ~ Measured(index'[k].outcome)
   /\ EvaluateTrack(k)) => k \in unmeasured'

\* Report.Unmeasured "names the tracks whose outcome says nothing was
\* checked": every track an evaluation leaves with such an outcome, but those
\* that stood on a version upstream took back.
UnmeasuredTracksAreNamed ==
  [][\A k \in TrackKey : StillOffered(k) => NamedIfUnmeasured(k)]_vars

-----------------------------------------------------------------------------
(* What must eventually happen.                                            *)

\* The pipeline runs apply again and again and takes its steps; a run whose
\* next request meets a registry that only answers errors returns that error.
\* Neither crashes nor outages hit the same step for ever.  (The second
\* conjunct is SF on Answer, the only step from "process" to "record".)
Fairness ==
  /\ SF_vars(StartProcess("apply"))
  /\ SF_pc((\E r \in pending : Answerable(r)) /\ pc' = "record")
  /\ SF_vars(RecordVerdict)
  /\ SF_vars(FinishProcess /\ verb = "apply")
  /\ WF_vars(FinishProcess)
  /\ WF_vars((\E r \in pending : IsNext(r) /\ r.pkg \in Missing) /\ Abort)
  /\ \A k \in TrackKey : SF_vars(EvaluateTrack(k) /\ Measured(index'[k].outcome))
  /\ SF_snapshot((\E k \in TrackKey : Leave(k)) /\ UNCHANGED pc)
  /\ WF_vars(FinishEvaluate)

FairSpec == Spec /\ Fairness

\* The keys a request may be filed at.
Askable == {RequestKey([pkg |-> r.pkg, type |-> r.type, at |-> d]) :
              r \in RequestSet, d \in Day}

\* "The pipeline answers it on its next run": a filed request is answered, if
\* the registry of its package answers.
RequestsAreAnswered ==
  \A k \in {q \in Askable : q.pkg \notin Missing} : requests[k] # None ~> verdicts[k] # None

\* A finding against a version the register holds does not stay silent: the
\* track moves to a version without one, or carries an advisory, or the feed
\* takes the finding back.
FindingsBecomeLoud ==
  \A k \in TrackKey :
    LET silent == /\ index[k] # None
                  /\ Vulns(k[1], index[k].current) # Clean
                  /\ index[k].advisory = None
    IN  silent ~> ~ silent

=============================================================================
