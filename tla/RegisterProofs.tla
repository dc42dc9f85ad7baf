--------------------------- MODULE RegisterProofs ---------------------------
(***************************************************************************)
(* Invariants of the register, proved for every value of the constants.    *)
(***************************************************************************)
EXTENDS RegisterProperties, PolicyProofs

\* Candidates whose dates are days of the model.
IsDatedOffer(cands) ==
  /\ IsOffer(cands)
  /\ \A v \in DOMAIN cands : /\ cands[v].releasedAt \in Day
                             /\ cands[v].publishedAt \in Day \cup {None}

-----------------------------------------------------------------------------
(* Discovery.                                                              *)

\* How a feed may answer.
LEMMA AnswersOfTheFeed ==
  ASSUME NEW p, NEW answer \in FeedAnswers(p)
  PROVE  answer.reach \in {"answered", "unreachable", "not-found"}
<1> DEFINE borrowed == {v \in Version : findings[p][v].borrowed}
           absent   == IF \A v \in Version : findings[p][v] = NoFinding
                       THEN {"not-found"} ELSE {}
<1>1. \/ answer \in [reach : Reach \cap {"answered"}, untold : SUBSET borrowed]
      \/ answer \in [reach : (Reach \ {"answered"}) \cup absent, untold : {{}}]
  BY DEF FeedAnswers
<1>2. absent \subseteq {"not-found"} /\ Reach \subseteq {"answered", "unreachable"}
  BY RegisterAssumption
<1> HIDE DEF borrowed, absent
<1> QED BY <1>1, <1>2

\* The fields of a finding.
LEMMA FindingFields ==
  ASSUME NEW f \in Finding \cup {NoFinding}
  PROVE  /\ f.vulns \in Vector
         /\ f.classified \in BOOLEAN
         /\ f.publishedAt \in Day \cup {None}
         /\ f.borrowed \in BOOLEAN
         /\ Untold(f).vulns \in Vector
         /\ Untold(f).classified = FALSE
         /\ Untold(f).publishedAt = f.publishedAt
<1>1. Clean \in Vector
  BY DEF Clean, Vector
<1> DEFINE Fields == [vulns : Vector, classified : BOOLEAN,
                      publishedAt : Day \cup {None}, borrowed : BOOLEAN]
<1>2. f \in Fields
  <2>1. Finding \subseteq Fields
    BY RegisterAssumption
  <2>2. NoFinding \in Fields
    BY <1>1 DEF NoFinding
  <2> QED BY <2>1, <2>2
<1>3. f.vulns \in Vector
  BY <1>2
<1> DEFINE sum == f.vulns.critical + f.vulns.high + f.vulns.medium + f.vulns.low
<1>4. sum \in Nat
  BY <1>3 DEF Vector
<1> HIDE DEF sum
<1>5. [Clean EXCEPT !.high = sum] \in Vector
  BY <1>1, <1>4 DEF Vector
<1>6. Untold(f) = [f EXCEPT !.vulns = [Clean EXCEPT !.high = sum], !.classified = FALSE]
  BY DEF Untold, sum
<1> QED BY <1>2, <1>5, <1>6

\* What an answer tells of a version.
LEMMA ToldFields ==
  ASSUME TypeOK, NEW p \in Package, NEW v \in Version, NEW answer
  PROVE  /\ Told(p, v, answer).vulns \in Vector
         /\ Told(p, v, answer).classified \in BOOLEAN
         /\ Told(p, v, answer).publishedAt \in Day \cup {None}
<1>1. findings[p][v] \in Finding \cup {NoFinding}
  BY DEF TypeOK
<1>2. Told(p, v, answer) \in {NoFinding, findings[p][v], Untold(findings[p][v])}
  BY DEF Told
<1> QED BY <1>1, <1>2, FindingFields

\* annotate: versions with their dates become candidates.
LEMMA AnnotatedIsDatedOffer ==
  ASSUME TypeOK, NEW p \in Package, NEW answer \in FeedAnswers(p),
         NEW S \in SUBSET Version, NEW releasedAt \in [S -> Day]
  PROVE  /\ IsDatedOffer(Annotate(p, releasedAt, answer))
         /\ DOMAIN Annotate(p, releasedAt, answer) = S
<1> DEFINE cands == Annotate(p, releasedAt, answer)
           f(v)  == Told(p, v, answer)
<1>1. answer.reach \in {"answered", "unreachable", "not-found"}
  BY AnswersOfTheFeed
<1>3. ASSUME NEW v \in S
      PROVE  /\ f(v).vulns \in Vector
             /\ f(v).classified \in BOOLEAN
             /\ f(v).publishedAt \in Day \cup {None}
  BY ToldFields
<1>4. Day \subseteq Nat
  BY RegisterAssumption DEF Day
<1> HIDE DEF f
<1>5. DOMAIN cands = S
  BY DEF Annotate
<1>6. ASSUME NEW v \in S
      PROVE  /\ cands[v] \in Facts
             /\ cands[v].releasedAt \in Day
             /\ cands[v].publishedAt \in Day \cup {None}
  <2>1. cands[v] = [releasedAt  |-> releasedAt[v],
                    vulns       |-> f(v).vulns,
                    outcome     |-> IF answer.reach # "answered" THEN answer.reach
                                    ELSE IF f(v).vulns = Clean THEN "clean" ELSE "findings",
                    classified  |-> f(v).classified,
                    publishedAt |-> f(v).publishedAt]
    BY DEF Annotate, f
  <2>2. cands[v].outcome \in Outcome
    BY <1>1, <2>1 DEF Outcome
  <2>3. /\ cands[v].releasedAt = releasedAt[v]
        /\ cands[v].vulns = f(v).vulns
        /\ cands[v].classified = f(v).classified
        /\ cands[v].publishedAt = f(v).publishedAt
    BY <2>1
  <2>4. releasedAt[v] \in Day
    OBVIOUS
  <2>5. cands[v] = [releasedAt |-> cands[v].releasedAt, vulns |-> cands[v].vulns,
                    outcome |-> cands[v].outcome, classified |-> cands[v].classified,
                    publishedAt |-> cands[v].publishedAt]
    BY <2>1
  <2> QED BY <1>3, <1>4, <2>2, <2>3, <2>4, <2>5 DEF Facts
<1>7. cands = [v \in S |-> cands[v]]
  BY <1>5 DEF Annotate
<1> HIDE DEF cands
<1>8. cands \in [S -> Facts]
  BY <1>6, <1>7
<1> QED BY <1>5, <1>6, <1>8 DEF IsDatedOffer, IsOffer, cands

\* Discover: what a registry lists.
LEMMA DiscoveredIsDatedOffer ==
  ASSUME TypeOK, NEW p \in Package, NEW answer \in FeedAnswers(p)
  PROVE  IsDatedOffer(Discover(p, answer))
<1>1. Listed(p) \in SUBSET Version
  BY DEF Listed
<1>2. [v \in Listed(p) |-> released[p][v]] \in [Listed(p) -> Day]
  BY DEF Listed, TypeOK
<1> QED BY <1>1, <1>2, AnnotatedIsDatedOffer DEF Discover

\* candidatesFor: what an evaluation weighs a track against.
LEMMA CandidatesAreDatedOffer ==
  ASSUME TypeOK, NEW p \in Package, NEW track \in Track, NEW answer \in FeedAnswers(p)
  PROVE  IsDatedOffer(CandidatesFor(p, track, answer))
<1>1. {track.current} \in SUBSET Version
  BY DEF Track
<1>2. [v \in {track.current} |-> track.releasedAt] \in [{track.current} -> Day]
  BY DEF Track
<1> QED BY <1>1, <1>2, AnnotatedIsDatedOffer, DiscoveredIsDatedOffer
        DEF CandidatesFor, Refresh

-----------------------------------------------------------------------------
(* What the controller writes into a track.                                *)

\* The fields of a track.
LEMMA TrackFields ==
  ASSUME NEW track \in Track
  PROVE  /\ track.current \in Version
         /\ track.releasedAt \in Day
         /\ track.vulns \in Vector
         /\ track.outcome \in Outcome \cup {None}
         /\ track.advisory \in Advisory \cup {None}
         /\ track.deprecated \in Deprecation \cup {None}
         /\ track.quietSince \in Day \cup {None}
  BY DEF Track

\* What is known of a candidate with dated facts.
LEMMA DatedFacts ==
  ASSUME NEW cands, IsDatedOffer(cands), NEW v \in DOMAIN cands
  PROVE  /\ v \in Version
         /\ cands[v].releasedAt \in Day
         /\ cands[v].publishedAt \in Day \cup {None}
         /\ cands[v].vulns \in Vector
         /\ cands[v].outcome \in Outcome
<1>1. v \in Version /\ cands[v] \in Facts
  BY DEF IsDatedOffer, IsOffer
<1> QED BY <1>1 DEF IsDatedOffer, Facts

\* advance: a track, or a new one, moved to a candidate is a track on it.
LEMMA AdvancedTrack ==
  ASSUME NEW track \in Track \cup {NewTrack}, NEW cands, IsDatedOffer(cands),
         NEW v \in DOMAIN cands
  PROVE  /\ Advance(track, v, cands) \in Track
         /\ Advance(track, v, cands).current = v
<1>1. CASE track \in Track
  BY <1>1, DatedFacts DEF Advance, Track
<1>2. CASE track = NewTrack
  BY <1>2, DatedFacts DEF Advance, NewTrack, Track
<1> QED BY <1>1, <1>2

\* maintainAdvisory writes a well-typed advisory and moves nothing.
LEMMA AdvisedTrack ==
  ASSUME NEW track \in Track, NEW prefix \in Prefix, NEW t \in Day,
         NEW cands, IsDatedOffer(cands)
  PROVE  /\ MaintainAdvisory(track, prefix, cands, t) \in Track
         /\ MaintainAdvisory(track, prefix, cands, t).current = track.current
<1>1. CASE track.current \notin DOMAIN cands
  BY <1>1 DEF MaintainAdvisory
<1>2. CASE track.current \in DOMAIN cands
  <2> DEFINE facts    == cands[track.current]
             advisory == IF Measured(facts.outcome)
                         THEN AdvisoryOn(track, prefix, cands, t) ELSE track.advisory
  <2>1. Ceiling(facts) \in Severities
    BY DEF Ceiling, Severities, Worst, Severity
  <2>2. advisory \in Advisory \cup {None}
    <3>1. AdvisoryOn(track, prefix, cands, t) \in Advisory \cup {None}
      <4> DEFINE since == IF facts.publishedAt = None THEN t ELSE facts.publishedAt
      <4>1. since \in Day
        BY <1>2, DatedFacts
      <4>2. AdvisoryOn(track, prefix, cands, t)
              \in {None, [severity |-> Ceiling(facts), since |-> since]}
        BY DEF AdvisoryOn
      <4> HIDE DEF since, facts
      <4> QED BY <2>1, <4>1, <4>2 DEF Advisory
    <3> QED BY <3>1, TrackFields
  <2>3. MaintainAdvisory(track, prefix, cands, t)
          = [track EXCEPT !.vulns = facts.vulns, !.outcome = facts.outcome,
                          !.advisory = advisory]
    BY <1>2 DEF MaintainAdvisory
  <2>4. facts.vulns \in Vector /\ facts.outcome \in Outcome
    BY <1>2, DatedFacts
  <2> HIDE DEF facts, advisory
  <2> QED BY <2>2, <2>3, <2>4 DEF Track
<1> QED BY <1>1, <1>2

\* The last release into a line is a day, if there is one.
LEMMA LastReleaseIsDay ==
  ASSUME NEW cands, IsDatedOffer(cands), NEW prefix
  PROVE  LastRelease(prefix, cands) \in Day \cup {None}
<1> DEFINE line == DOMAIN cands \cap Line[prefix]
           days == {cands[v].releasedAt : v \in line}
<1>1. days \subseteq Day
  BY DatedFacts
<1>2. IsFiniteSet(days)
  <2>1. IsFiniteSet(Day)
    BY RegisterAssumption, FS_Interval DEF Day
  <2> QED BY <1>1, <2>1, FS_Subset
<1>3. Day \subseteq Int
  BY RegisterAssumption DEF Day
<1> HIDE DEF line
<1>4. LastRelease(prefix, cands) = IF days = {} THEN None ELSE Max(days)
  BY DEF LastRelease, line
<1> HIDE DEF days
<1>5. days # {} => Max(days) \in days
  BY <1>1, <1>2, <1>3, MaxIsGreatest
<1> QED BY <1>1, <1>4, <1>5

\* The two windows write dates that are days, and move nothing.
LEMMA AgedTrack ==
  ASSUME NEW track \in Track, NEW prefix \in Prefix, NEW t \in Day,
         NEW cands, IsDatedOffer(cands)
  PROVE  /\ MaintainWindows(track, prefix, cands, t) \in Track
         /\ MaintainWindows(track, prefix, cands, t).current = track.current
<1> DEFINE successor  == HasSuccessor(prefix, cands)
           last       == LastRelease(prefix, cands)
           deprecated == EvaluateDeprecation(track, successor, last, t)
           aged       == [track EXCEPT !.deprecated = deprecated]
           quiet      == EvaluateQuiet(aged, successor, last, t)
<1>1. deprecated \in Deprecation \cup {None}
  <2>1. deprecated \in {track.deprecated, None, [reason |-> "no-fix", since |-> t],
                        [reason |-> "stale", since |-> t]}
    BY DEF EvaluateDeprecation
  <2>2. /\ [reason |-> "no-fix", since |-> t] \in Deprecation
        /\ [reason |-> "stale", since |-> t] \in Deprecation
    BY DEF Deprecation
  <2> HIDE DEF deprecated
  <2> QED BY <2>1, <2>2, TrackFields
<1>2. last \in Day \cup {None}
  BY LastReleaseIsDay
<1>3. quiet \in Day \cup {None}
  <2>1. quiet \in {None, last}
    BY DEF EvaluateQuiet
  <2> QED BY <1>2, <2>1
<1>4. MaintainWindows(track, prefix, cands, t) = [aged EXCEPT !.quietSince = quiet]
  BY DEF MaintainWindows
<1> HIDE DEF deprecated, quiet
<1> QED BY <1>1, <1>3, <1>4 DEF Track

\* maintain: a track stays a track, and stays where it is.
LEMMA MaintainedTrack ==
  ASSUME NEW track \in Track, NEW prefix \in Prefix, NEW t \in Day,
         NEW cands, IsDatedOffer(cands)
  PROVE  /\ Maintain(track, prefix, cands, t) \in Track
         /\ Maintain(track, prefix, cands, t).current = track.current
  BY AdvisedTrack, AgedTrack DEF Maintain

-----------------------------------------------------------------------------
(* Verdicts and where they move a track.                                   *)

\* Every version compares with itself.
LEMMA RankIsInteger ==
  ASSUME NEW v \in Version
  PROVE  Rank[v] \in Int
  BY VersionAssumption

\* The verdict on a request is one and speaks of it, and one that adopts names
\* a track and a version on offer.
LEMMA VerdictOnRequest ==
  ASSUME NEW r \in Request, NEW cands, IsDatedOffer(cands)
  PROVE  LET verdict == VerdictOn(r, cands)
         IN  /\ verdict \in Verdict
             /\ r.track # None => verdict.track = r.track
             /\ r.type # "open-track" => verdict.requested = r.version
             /\ verdict.code = "adopted" =>
                  /\ verdict.adopted \in DOMAIN cands
                  /\ verdict.track \in Prefix
<1>1. /\ r.type \in RequestType
      /\ r.track \in Prefix \cup {None}
      /\ r.version \in Version \cup {None}
      /\ r.type = "open-track" => r.track \in Prefix
  BY DEF Request
<1>2. IsOffer(cands) /\ DOMAIN cands \subseteq Version
  BY DEF IsDatedOffer, IsOffer
<1>3. CASE r.type = "open-track"
  <2> DEFINE current == DefaultCurrent(r.pkg, cands)
             finer   == Cardinality(FinerTracks(r.pkg))
  <2>1. VerdictOn(r, cands) = EvaluateTrackOpen(r, cands, current, finer, at)
    BY <1>3 DEF VerdictOn
  <2> HIDE DEF current, finer
  <2> QED BY <1>1, <1>2, <1>3, <2>1, OpenedTracksAreWithinBudget
<1>4. CASE r.type # "open-track"
  <2>1. VerdictOn(r, cands) = EvaluateAdmission(r, cands, at)
    BY <1>4 DEF VerdictOn
  <2>2. \A v \in DOMAIN cands : TrackFor(r, v) \in Prefix
    BY <1>1, <1>2, VersionAssumption DEF TrackFor
  <2> QED BY <1>1, <1>2, <2>1, <2>2, AdmissionIsAdmissible
<1> QED BY <1>3, <1>4

\* No track is lost or moved back between two states of the index.
Forward(old, new) ==
  \A k \in TrackKey :
    old[k] # None => new[k] # None /\ Rank[new[k].current] >= Rank[old[k].current]

\* admit: the index stays one, every track in it stays or moves forward, and
\* the track that adopts a version holds it.
LEMMA AdmittedIndex ==
  ASSUME TypeOK, NEW p \in Package, NEW cands, IsDatedOffer(cands),
         NEW verdict, verdict.adopted \in DOMAIN cands, verdict.track \in Prefix
  PROVE  LET after == Admit(p, verdict, cands)
             k     == <<p, verdict.track>>
         IN  /\ after \in [TrackKey -> Track \cup {None}]
             /\ Forward(index, after)
             /\ after[k] # None
             /\ Rank[after[k].current] >= Rank[verdict.adopted]
             /\ after # index =>
                  /\ \A j \in TrackKey \ {k} : after[j] = index[j]
                  /\ after[k].current = verdict.adopted
                  /\ index[k] # None => Rank[index[k].current] < Rank[verdict.adopted]
<1> DEFINE k     == <<p, verdict.track>>
           after == Admit(p, verdict, cands)
           from  == IF index[k] = None THEN NewTrack ELSE index[k]
           moved == Maintain(Advance(from, verdict.adopted, cands),
                             verdict.track, cands, at)
<1>1. k \in TrackKey
  BY DEF TrackKey
<1>2. /\ index \in [TrackKey -> Track \cup {None}]
      /\ at \in Day
  BY DEF TypeOK
<1>3. None \notin Track
  BY NoneAssumption
<1>4. from \in Track \cup {NewTrack}
  BY <1>1, <1>2
<1>5. moved \in Track /\ moved.current = verdict.adopted
  <2> HIDE DEF from
  <2> QED BY <1>2, <1>4, AdvancedTrack, MaintainedTrack
<1>6. verdict.adopted \in Version
  BY DatedFacts
<1>7. \A j \in TrackKey : index[j] # None => Rank[index[j].current] \in Int
  BY <1>2, TrackFields, RankIsInteger
<1>8. Rank[verdict.adopted] \in Int
  BY <1>6, RankIsInteger
<1>9. after = IF index[k] # None /\ Rank[verdict.adopted] <= Rank[index[k].current]
              THEN index ELSE [index EXCEPT ![k] = moved]
  BY DEF Admit
<1> HIDE DEF after, moved, from, k
<1>10. CASE index[k] # None /\ Rank[verdict.adopted] <= Rank[index[k].current]
  BY <1>1, <1>2, <1>7, <1>8, <1>9, <1>10 DEF Forward, k, after
<1>11. CASE ~ (index[k] # None /\ Rank[verdict.adopted] <= Rank[index[k].current])
  <2>1. after = [index EXCEPT ![k] = moved]
    BY <1>9, <1>11
  <2>2. after \in [TrackKey -> Track \cup {None}]
    BY <1>2, <1>5, <2>1
  <2>3. after[k] = moved /\ \A j \in TrackKey \ {k} : after[j] = index[j]
    BY <1>1, <1>2, <2>1
  <2>4. Forward(index, after)
    BY <1>3, <1>5, <1>7, <1>8, <1>11, <2>3 DEF Forward
  <2>5. index[k] # None => Rank[index[k].current] < Rank[verdict.adopted]
    BY <1>1, <1>7, <1>8, <1>11
  <2>6. after[k] # None /\ after[k].current = verdict.adopted
    BY <1>3, <1>5, <2>3
  <2>7. Rank[after[k].current] >= Rank[verdict.adopted]
    BY <1>8, <2>6
  <2> QED BY <2>2, <2>3, <2>4, <2>5, <2>6, <2>7 DEF k, after
<1> QED BY <1>10, <1>11

\* processAll: a track that an evaluation upgrades stays a track, at its
\* version or a later one.
LEMMA UpgradedTrack ==
  ASSUME NEW p \in Package, NEW track \in Track, NEW prefix \in Prefix,
         NEW cands, IsDatedOffer(cands), NEW t \in Day
  PROVE  LET verdict == EvaluateUpgrade(track, prefix, cands, p \in Internal, t)
             after   == Upgraded(p, track, verdict, cands)
         IN  /\ after \in Track
             /\ Rank[after.current] >= Rank[track.current]
             /\ after.current = track.current \/ Rank[after.current] > Rank[track.current]
<1> DEFINE verdict == EvaluateUpgrade(track, prefix, cands, p \in Internal, t)
           after   == Upgraded(p, track, verdict, cands)
<1>1. Rank[track.current] \in Int
  BY TrackFields, RankIsInteger
<1>2. verdict.code = "adopted" =>
        /\ verdict.adopted \in DOMAIN cands
        /\ Rank[verdict.adopted] > Rank[track.current]
  BY UpgradeMovesForwardAndSafely DEF IsDatedOffer
<1>3. verdict.code = "adopted" =>
        /\ verdict.adopted \in Version
        /\ Rank[verdict.adopted] \in Int
  BY <1>2, DatedFacts, RankIsInteger
<1> SUFFICES /\ after \in Track
             /\ Rank[after.current] >= Rank[track.current]
             /\ after.current = track.current \/ Rank[after.current] > Rank[track.current]
  OBVIOUS
<1> HIDE DEF verdict
<1>4. CASE verdict.code # "adopted"
  <2>1. after = track
    BY <1>4 DEF Upgraded
  <2> QED BY <1>1, <2>1
<1>5. CASE verdict.code = "adopted" /\ p \in Internal
  <2>1. after = [track EXCEPT !.current = verdict.adopted]
    BY <1>5 DEF Upgraded
  <2> HIDE DEF after
  <2>2. after \in Track /\ after.current = verdict.adopted
    BY <1>3, <1>5, <2>1 DEF Track
  <2> QED BY <1>1, <1>2, <1>3, <1>5, <2>2
<1>6. CASE verdict.code = "adopted" /\ p \notin Internal
  <2>1. after = Advance(track, verdict.adopted, cands)
    BY <1>6 DEF Upgraded
  <2> HIDE DEF after
  <2>2. after \in Track /\ after.current = verdict.adopted
    BY <1>2, <1>6, <2>1, AdvancedTrack
  <2> QED BY <1>1, <1>2, <1>3, <1>6, <2>2
<1> QED BY <1>4, <1>5, <1>6

-----------------------------------------------------------------------------
(* Type correctness.                                                       *)

\* Every initial state is well typed.
LEMMA InitTypeOK ==
  Init => TypeOK
<1> SUFFICES ASSUME Init PROVE TypeOK
  OBVIOUS
<1>1. 0 \in Day /\ 0 \in 0..MaxDisclosures
  BY RegisterAssumption DEF Day
<1>2. released \in [Package -> [Version -> Day \cup {None}]]
  BY <1>1, RegisterAssumption DEF Init
<1> QED BY <1>1, <1>2 DEF Init, TypeOK, NoTracks

\* The world's steps.
LEMMA WorldTypeOK ==
  ASSUME TypeOK, World
  PROVE  TypeOK'
<1>1. Day \subseteq Nat /\ Horizon \in Nat /\ MaxDisclosures \in Nat
  BY RegisterAssumption DEF Day
<1>2. CASE Tick
  BY <1>1, <1>2 DEF Tick, TypeOK, Day, store, run, progress
<1>3. ASSUME NEW p \in Package, NEW v \in LaterRelease, Release(p, v)
      PROVE  TypeOK'
  <2>1. now \in Day /\ v \in Version
    BY RegisterAssumption DEF TypeOK
  <2>2. released' \in [Package -> [Version -> Day \cup {None}]]
    BY <1>3, <2>1 DEF Release, TypeOK
  <2> QED BY <1>3, <2>2 DEF Release, TypeOK, store, run, progress
<1>4. ASSUME NEW p \in Package, NEW v \in Yankable, Yank(p, v)
      PROVE  TypeOK'
  <2>1. yanked' \in [Package -> SUBSET Version]
    BY <1>4, RegisterAssumption DEF Yank, TypeOK
  <2> QED BY <1>4, <2>1 DEF Yank, TypeOK, store, run, progress
<1>5. ASSUME NEW p \in Package, NEW v \in Disclosable, NEW f \in Finding,
             Disclose(p, v, f)
      PROVE  TypeOK'
  <2>1. findings' \in [Package -> [Version -> Finding \cup {NoFinding}]]
    BY <1>5, RegisterAssumption DEF Disclose, TypeOK
  <2>2. disclosures' \in 0..MaxDisclosures
    BY <1>1, <1>5 DEF Disclose, TypeOK
  <2> QED BY <1>5, <2>1, <2>2 DEF Disclose, TypeOK, store, run, progress
<1> QED BY <1>2, <1>3, <1>4, <1>5 DEF World

\* A request is filed.
LEMMA FileTypeOK ==
  ASSUME TypeOK, NEW r \in RequestSet, File(r)
  PROVE  TypeOK'
<1> DEFINE request == [pkg |-> r.pkg, type |-> r.type, track |-> r.track,
                       version |-> r.version, at |-> now]
<1>1. r \in [pkg : Package, type : RequestType,
             track : Prefix \cup {None}, version : Version \cup {None}]
  BY RegisterAssumption
<1>2. r.type = "open-track" => r.track # None
  BY RegisterAssumption
<1>3. request \in Request
  BY <1>1, <1>2 DEF Request, TypeOK
<1>4. requests' = [requests EXCEPT ![RequestKey(request)] = request]
  BY DEF File
<1> HIDE DEF request
<1>5. requests' \in [Key -> Request \cup {None}]
  BY <1>3, <1>4 DEF TypeOK
<1>6. filed' = [filed EXCEPT ![RequestKey(request)] = @ \cup {request}]
  BY DEF File, request
<1>7. filed' \in [Key -> SUBSET Request]
  BY <1>3, <1>6 DEF TypeOK
<1> QED BY <1>5, <1>7 DEF File, TypeOK, world, upstream, run, progress

\* What a publish under way has read.
LEMMA PublicationFields ==
  ASSUME TypeOK, publishing # None
  PROVE  /\ publishing.key \in TrackKey
         /\ publishing.key[1] \in Publishable
         /\ publishing.version \in Version
         /\ publishing.track \in Track \cup {None}
         /\ publishing.at \in Day
<1>1. publishing \in Publication
  BY DEF TypeOK
<1> QED BY <1>1, RegisterAssumption DEF Publication, TrackKey

\* What a publish writes: the copy it read, or a new track, on its version.
Published ==
  [(IF publishing.track = None THEN NewTrack ELSE publishing.track)
     EXCEPT !.current = publishing.version, !.releasedAt = publishing.at]

\* An internal version is published.
LEMMA PublishStep ==
  ASSUME TypeOK, Publish
  PROVE  /\ publishing # None
         /\ Published \in Track
         /\ index' = [index EXCEPT ![publishing.key] = Published]
<1> DEFINE track == IF publishing.track = None THEN NewTrack ELSE publishing.track
           moved == [track EXCEPT !.current = publishing.version,
                                  !.releasedAt = publishing.at]
<1>1. publishing # None /\ index' = [index EXCEPT ![publishing.key] = moved]
  BY DEF Publish
<1>2. track \in Track \cup {NewTrack}
  BY <1>1, PublicationFields
<1>3. publishing.version \in Version /\ publishing.at \in Day
  BY <1>1, PublicationFields
<1>4. moved \in Track
  <2> HIDE DEF track
  <2>1. CASE track \in Track
    BY <1>3, <2>1 DEF Track
  <2>2. CASE track = NewTrack
    BY <1>3, <2>2 DEF NewTrack, Track, Clean, Vector
  <2> QED BY <1>2, <2>1, <2>2
<1> QED BY <1>1, <1>4 DEF Published

\* The proof pipeline's steps.
LEMMA ProofDoorTypeOK ==
  ASSUME TypeOK, ProofDoor
  PROVE  TypeOK'
<1>1. ASSUME NEW p \in Publishable, NEW v \in PublishedVersion, StartPublish(p, v)
      PROVE  TypeOK'
  <2> DEFINE k == <<p, Major[v]>>
  <2>1. v \in Version /\ k \in Publishable \X Prefix /\ k \in TrackKey
    BY RegisterAssumption, VersionAssumption DEF TrackKey
  <2>2. index[k] \in Track \cup {None} /\ now \in Day
    BY <2>1 DEF TypeOK
  <2>3. publishing' = [key |-> k, version |-> v, track |-> index[k], at |-> now]
    BY <1>1 DEF StartPublish
  <2> HIDE DEF k
  <2>4. publishing' \in Publication
    BY <2>1, <2>2, <2>3 DEF Publication
  <2> QED BY <1>1, <2>4 DEF StartPublish, TypeOK, upstream, store, run, progress
<1>2. CASE Publish
  <2>1. index' \in [TrackKey -> Track \cup {None}]
    BY <1>2, PublishStep DEF TypeOK
  <2> QED BY <1>2, <2>1 DEF Publish, TypeOK, upstream, run, progress
<1>3. CASE PublishFails
  BY <1>3 DEF PublishFails, TypeOK, upstream, store, run, progress
<1> QED BY <1>1, <1>2, <1>3 DEF ProofDoor

\* answer: the index only grows, and holds what the verdict adopts.
LEMMA AnswerStep ==
  ASSUME TypeOK, NEW r \in pending, Answer(r)
  PROVE  /\ index' \in [TrackKey -> Track \cup {None}]
         /\ decided' \in Verdict
         /\ r.track # None => decided'.track = r.track
         /\ r.type # "open-track" => decided'.requested = r.version
         /\ Forward(index, index')
         /\ decided'.code = "adopted" =>
              /\ decided'.track \in Prefix
              /\ decided'.adopted \in Version
              /\ index'[<<r.pkg, decided'.track>>] # None
              /\ Rank[index'[<<r.pkg, decided'.track>>].current] >= Rank[decided'.adopted]
<1>1. r \in Request /\ r.pkg \in Package
  BY DEF TypeOK, Request
<1>2. PICK cands \in {Discover(r.pkg, feed) : feed \in FeedAnswers(r.pkg)} :
        /\ decided' = VerdictOn(r, cands)
        /\ index' = IF decided'.code = "adopted"
                    THEN Admit(r.pkg, decided', cands) ELSE index
  BY DEF Answer
<1>3. IsDatedOffer(cands)
  BY <1>1, DiscoveredIsDatedOffer
<1>4. /\ decided' = VerdictOn(r, cands)
      /\ index' = IF decided'.code = "adopted"
                  THEN Admit(r.pkg, decided', cands) ELSE index
  BY <1>2
<1>5. /\ decided' \in Verdict
      /\ r.track # None => decided'.track = r.track
      /\ r.type # "open-track" => decided'.requested = r.version
      /\ decided'.code = "adopted" =>
           decided'.adopted \in DOMAIN cands /\ decided'.track \in Prefix
  BY <1>1, <1>3, <1>4, VerdictOnRequest
<1>6. index \in [TrackKey -> Track \cup {None}]
  BY DEF TypeOK
<1>7. CASE decided'.code # "adopted"
  <2>1. index' = index
    BY <1>4, <1>7
  <2>2. \A k \in TrackKey : index[k] # None => Rank[index[k].current] \in Int
    BY <1>6, TrackFields, RankIsInteger
  <2> QED BY <1>5, <1>6, <1>7, <2>1, <2>2 DEF Forward
<1>8. CASE decided'.code = "adopted"
  <2>1. index' = Admit(r.pkg, decided', cands)
    BY <1>4, <1>8
  <2>2. decided'.adopted \in Version
    BY <1>3, <1>5, <1>8, DatedFacts
  <2> QED BY <1>1, <1>3, <1>5, <1>8, <2>1, <2>2, AdmittedIndex
<1> QED BY <1>7, <1>8

\* processAll: the track written back is one, at the version that was read or
\* a later one.
LEMMA EvaluateStep ==
  ASSUME TypeOK, NEW k \in TrackKey, EvaluateTrack(k)
  PROVE  /\ snapshot[k] \in Track
         /\ index' = [index EXCEPT ![k] = index'[k]]
         /\ index'[k] \in Track
         /\ Rank[index'[k].current] >= Rank[snapshot[k].current]
         /\ \/ index'[k].current = snapshot[k].current
            \/ Rank[index'[k].current] > Rank[snapshot[k].current]
         /\ unmeasured' \subseteq TrackKey
<1>1. k[1] \in Package /\ k[2] \in Prefix
  BY DEF TrackKey
<1>2. snapshot[k] \in Track /\ at \in Day
  BY DEF EvaluateTrack, Leave, TypeOK
<1> DEFINE track == snapshot[k]
<1>3. PICK cands \in {CandidatesFor(k[1], track, feed) : feed \in FeedAnswers(k[1])} :
        LET verdict == EvaluateUpgrade(track, k[2], cands, k[1] \in Internal, at)
        IN  /\ index' = [index EXCEPT ![k] =
                           Maintain(Upgraded(k[1], track, verdict, cands),
                                    k[2], cands, at)]
            /\ unmeasured' = IF OwesNote(track, cands)
                             THEN unmeasured \cup {k} ELSE unmeasured
  BY DEF EvaluateTrack
<1> DEFINE verdict == EvaluateUpgrade(track, k[2], cands, k[1] \in Internal, at)
           moved   == Upgraded(k[1], track, verdict, cands)
<1>4. IsDatedOffer(cands)
  BY <1>1, <1>2, CandidatesAreDatedOffer
<1>5. /\ moved \in Track
      /\ Rank[moved.current] >= Rank[track.current]
      /\ moved.current = track.current \/ Rank[moved.current] > Rank[track.current]
  <2> HIDE DEF track
  <2> QED BY <1>1, <1>2, <1>4, UpgradedTrack DEF track
<1>6. /\ index' = [index EXCEPT ![k] = Maintain(moved, k[2], cands, at)]
      /\ unmeasured' \subseteq unmeasured \cup {k}
  BY <1>3
<1> HIDE DEF moved, verdict, track
<1>7. /\ Maintain(moved, k[2], cands, at) \in Track
      /\ Maintain(moved, k[2], cands, at).current = moved.current
  BY <1>1, <1>2, <1>4, <1>5, MaintainedTrack
<1>8. index'[k] = Maintain(moved, k[2], cands, at)
  BY <1>6 DEF TypeOK
<1> QED BY <1>2, <1>5, <1>6, <1>7, <1>8 DEF TypeOK, track

\* The pipeline's steps.
LEMMA PipelineTypeOK ==
  ASSUME TypeOK, Pipeline
  PROVE  TypeOK'
<1>1. ASSUME NEW v \in {"process", "apply"}, StartProcess(v)
      PROVE  TypeOK'
  <2>1. PendingRequests \subseteq Request
    BY DEF PendingRequests, TypeOK
  <2> QED BY <1>1, <2>1 DEF StartProcess, TypeOK, world, upstream, store
<1>2. CASE StartEvaluate
  BY <1>2 DEF StartEvaluate, TypeOK, world, upstream, store
<1>3. ASSUME NEW r \in pending, Answer(r)
      PROVE  TypeOK'
  <2>1. index' \in [TrackKey -> Track \cup {None}] /\ decided' \in Verdict
    BY <1>3, AnswerStep
  <2> QED BY <1>3, <2>1 DEF Answer, TypeOK, world, upstream
<1>4. CASE RecordVerdict
  <2>1. verdicts' \in [Key -> Verdict \cup {None}]
    BY <1>4 DEF RecordVerdict, TypeOK
  <2> QED BY <1>4, <2>1 DEF RecordVerdict, TypeOK, world, upstream
<1>5. CASE FinishProcess
  BY <1>5 DEF FinishProcess, TypeOK, world, upstream, store
<1>6. ASSUME NEW k \in TrackKey, EvaluateTrack(k)
      PROVE  TypeOK'
  <2>1. index' \in [TrackKey -> Track \cup {None}] /\ unmeasured' \subseteq TrackKey
    BY <1>6, EvaluateStep DEF TypeOK
  <2>2. snapshot' \in [TrackKey -> Track \cup {None}]
    BY <1>6 DEF EvaluateTrack, Leave, TypeOK
  <2> QED BY <1>6, <2>1, <2>2 DEF EvaluateTrack, TypeOK, world, upstream
<1>7. ASSUME NEW k \in TrackKey, EvaluateFails(k)
      PROVE  TypeOK'
  <2>1. snapshot' \in [TrackKey -> Track \cup {None}]
    BY <1>7 DEF EvaluateFails, Leave, TypeOK
  <2> QED BY <1>7, <2>1 DEF EvaluateFails, TypeOK, world, upstream, store
<1>8. CASE FinishEvaluate
  BY <1>8 DEF FinishEvaluate, TypeOK, world, upstream, store
<1>9. CASE Abort
  BY <1>9 DEF Abort, TypeOK, NoTracks, world, upstream, store
<1> QED BY <1>1, <1>2, <1>3, <1>4, <1>5, <1>6, <1>7, <1>8, <1>9 DEF Pipeline

\* Every step keeps the state well typed.
LEMMA NextTypeOK ==
  TypeOK /\ [Next]_vars => TypeOK'
<1> SUFFICES ASSUME TypeOK, [Next]_vars PROVE TypeOK'
  OBVIOUS
<1>1. CASE World
  BY <1>1, WorldTypeOK
<1>2. ASSUME NEW r \in RequestSet, File(r) PROVE TypeOK'
  BY <1>2, FileTypeOK
<1>3. CASE Pipeline
  BY <1>3, PipelineTypeOK
<1>4. CASE ProofDoor
  BY <1>4, ProofDoorTypeOK
<1>5. CASE UNCHANGED vars
  BY <1>5 DEF vars, world, upstream, store, run, progress, TypeOK
<1> QED BY <1>1, <1>2, <1>3, <1>4, <1>5 DEF Next

\* The stored records and the pipeline's variables keep their shape: in
\* particular a track never loses its current version, whichever of the
\* request, evaluation and publish paths wrote it last.
THEOREM TypeCorrect ==
  Spec => []TypeOK
<1> QED BY InitTypeOK, NextTypeOK, PTL DEF Spec

-----------------------------------------------------------------------------
(* Recorded adoptions are true.                                            *)

\* The index backs what a verdict on package p says.
Backs(p, verdict) ==
  verdict.code = "adopted" =>
    /\ p \notin Missing
    /\ verdict.track # None
    /\ verdict.adopted # None
    /\ Holds(<<p, verdict.track>>, verdict.adopted)

\* The verdict that is decided and not yet recorded is backed as well, which
\* is what the order of the two writes is for; and until it is evaluated the
\* track of a registry package is the one the run read, so that writing it
\* back loses nothing.  (The tracks that are published to are another matter.)
BackedInv ==
  /\ TypeOK
  /\ \A k \in Key : verdicts[k] # None => Backs(k.pkg, verdicts[k])
  /\ pc = "record" => /\ answering # None
                      /\ decided # None
                      /\ Backs(answering.pkg, decided)
  /\ pc # "evaluate" => snapshot = NoTracks
  /\ \A k \in TrackKey :
       (snapshot[k] # None /\ k[1] \notin Internal) => index[k] = snapshot[k]

\* The tracks of registry packages only ever grow.
RegistryForward(old, new) ==
  \A k \in TrackKey :
    (k[1] \notin Missing /\ old[k] # None)
      => new[k] # None /\ Rank[new[k].current] >= Rank[old[k].current]

\* What the index backs it still backs once its tracks have moved forward.
LEMMA BackingIsMonotone ==
  ASSUME TypeOK, TypeOK', RegistryForward(index, index'),
         NEW p \in Package, NEW verdict \in Verdict, Backs(p, verdict)
  PROVE  Backs(p, verdict)'
<1> SUFFICES ASSUME verdict.code = "adopted"
             PROVE  Holds(<<p, verdict.track>>, verdict.adopted)'
  BY DEF Backs
<1> DEFINE k == <<p, verdict.track>>
<1>1. /\ p \notin Missing /\ verdict.track # None /\ verdict.adopted # None
      /\ index[k] # None /\ Rank[index[k].current] >= Rank[verdict.adopted]
  BY DEF Backs, Holds
<1>2. k \in TrackKey /\ k[1] = p /\ verdict.adopted \in Version
  BY <1>1 DEF Verdict, TrackKey
<1>3. index'[k] # None /\ Rank[index'[k].current] >= Rank[index[k].current]
  BY <1>1, <1>2 DEF RegistryForward
<1>4. index[k] \in Track /\ index'[k] \in Track
  BY <1>1, <1>2, <1>3 DEF TypeOK
<1>5. /\ Rank[verdict.adopted] \in Int
      /\ Rank[index[k].current] \in Int
      /\ Rank[index'[k].current] \in Int
  BY <1>2, <1>4, TrackFields, RankIsInteger
<1> HIDE DEF k
<1>6. Rank[index'[k].current] >= Rank[verdict.adopted]
  BY <1>1, <1>3, <1>5
<1> QED BY <1>3, <1>6 DEF Holds, k

\* A step of the invariant that leaves the index and the run alone.
LEMMA BackedStutter ==
  ASSUME BackedInv, TypeOK',
         UNCHANGED <<index, verdicts, pc, answering, decided, snapshot>>
  PROVE  BackedInv'
  BY DEF BackedInv, Backs, Holds

\* The recorded verdicts stay backed when the index moves forward.
LEMMA RecordedStayBacked ==
  ASSUME BackedInv, TypeOK', RegistryForward(index, index'), UNCHANGED verdicts
  PROVE  (\A k \in Key : verdicts[k] # None => Backs(k.pkg, verdicts[k]))'
<1> SUFFICES ASSUME NEW k \in Key, verdicts[k] # None
             PROVE  Backs(k.pkg, verdicts[k])'
  OBVIOUS
<1>1. k.pkg \in Package /\ verdicts[k] \in Verdict /\ Backs(k.pkg, verdicts[k])
  BY DEF BackedInv, TypeOK, Key
<1>2. \A v \in Verdict : Backs(k.pkg, v) => Backs(k.pkg, v)'
  BY <1>1, BackingIsMonotone DEF BackedInv
<1> QED BY <1>1, <1>2 DEF Backs, Holds

\* answer writes the index first: what it decides is backed.
LEMMA AnswerBacked ==
  ASSUME BackedInv, TypeOK', NEW r \in pending, Answer(r)
  PROVE  BackedInv'
<1>1. r \in Request /\ r.pkg \in Package /\ None \notin Request /\ None \notin Verdict
  BY NoneAssumption DEF BackedInv, TypeOK, Request
<1>2. /\ decided' \in Verdict
      /\ Forward(index, index')
      /\ decided'.code = "adopted" =>
           /\ decided'.track \in Prefix
           /\ decided'.adopted \in Version
           /\ index'[<<r.pkg, decided'.track>>] # None
           /\ Rank[index'[<<r.pkg, decided'.track>>].current] >= Rank[decided'.adopted]
  BY AnswerStep DEF BackedInv
<1>3. /\ answering' = r /\ r.pkg \notin Missing
      /\ pc = "process" /\ pc' = "record"
      /\ verdicts' = verdicts /\ snapshot' = snapshot
  BY DEF Answer, Answerable, IsNext
<1>4. (\A k \in Key : verdicts[k] # None => Backs(k.pkg, verdicts[k]))'
  BY <1>2, <1>3, RecordedStayBacked DEF Forward, RegistryForward
<1>5. Backs(answering.pkg, decided)'
  BY <1>2, <1>3, VersionAssumption DEF Backs, Holds
<1>6. snapshot' = NoTracks
  BY <1>3 DEF BackedInv
<1> QED BY <1>1, <1>2, <1>3, <1>4, <1>5, <1>6 DEF BackedInv, NoTracks

\* A track that is evaluated is the track that was read.
LEMMA EvaluateBacked ==
  ASSUME BackedInv, TypeOK', NEW k \in TrackKey, EvaluateTrack(k)
  PROVE  BackedInv'
<1>1. /\ snapshot[k] \in Track
      /\ index' = [index EXCEPT ![k] = index'[k]]
      /\ index'[k] \in Track
      /\ Rank[index'[k].current] >= Rank[snapshot[k].current]
  BY EvaluateStep DEF BackedInv
<1>2. /\ snapshot' = [snapshot EXCEPT ![k] = None]
      /\ pc = "evaluate" /\ pc' = pc
      /\ verdicts' = verdicts
  BY DEF EvaluateTrack, Leave
<1>3. None \notin Track /\ Internal \subseteq Missing
  BY NoneAssumption, RegisterAssumption
<1>4. k[1] \notin Internal => index[k] = snapshot[k]
  BY <1>1, <1>3 DEF BackedInv
<1>5. /\ index \in [TrackKey -> Track \cup {None}]
      /\ snapshot \in [TrackKey -> Track \cup {None}]
  BY DEF BackedInv, TypeOK
<1>6. \A j \in TrackKey \ {k} : index'[j] = index[j] /\ snapshot'[j] = snapshot[j]
  BY <1>1, <1>2, <1>5
<1>7. RegistryForward(index, index')
  <2> SUFFICES ASSUME NEW j \in TrackKey, j[1] \notin Missing, index[j] # None
               PROVE  index'[j] # None /\ Rank[index'[j].current] >= Rank[index[j].current]
    BY DEF RegistryForward
  <2>1. CASE j = k
    BY <1>1, <1>3, <1>4, <2>1
  <2>2. CASE j # k
    BY <1>5, <1>6, <2>2, TrackFields, RankIsInteger
  <2> QED BY <2>1, <2>2
<1>8. (\A j \in Key : verdicts[j] # None => Backs(j.pkg, verdicts[j]))'
  BY <1>2, <1>7, RecordedStayBacked
<1>9. (\A j \in TrackKey :
         (snapshot[j] # None /\ j[1] \notin Internal) => index[j] = snapshot[j])'
  <2>1. snapshot'[k] = None
    BY <1>2, <1>5
  <2> QED BY <1>6, <2>1 DEF BackedInv
<1> QED BY <1>2, <1>8, <1>9 DEF BackedInv

\* The proof pipeline touches no track of a registry package.
LEMMA PublishedAreInternal ==
  ASSUME Publishable \subseteq Internal, TypeOK, ProofDoor
  PROVE  \A k \in TrackKey : k[1] \notin Internal => index'[k] = index[k]
<1>1. ASSUME NEW p \in Publishable, NEW v \in PublishedVersion, StartPublish(p, v)
      PROVE  UNCHANGED index
  BY <1>1 DEF StartPublish, store
<1>2. CASE Publish
  BY <1>2, PublishStep, PublicationFields DEF TypeOK
<1>3. CASE PublishFails
  BY <1>3 DEF PublishFails, store
<1> QED BY <1>1, <1>2, <1>3 DEF ProofDoor

\* So that what the index backs it still backs.
LEMMA PublishBacked ==
  ASSUME Publishable \subseteq Internal, BackedInv, TypeOK', ProofDoor
  PROVE  BackedInv'
<1>1. \A k \in TrackKey : k[1] \notin Internal => index'[k] = index[k]
  BY PublishedAreInternal DEF BackedInv
<1>2. UNCHANGED <<verdicts, pc, answering, decided, snapshot>>
  BY DEF ProofDoor, StartPublish, Publish, PublishFails, store, run, progress
<1>3. RegistryForward(index, index')
  <2>1. \A k \in TrackKey : index[k] # None => Rank[index[k].current] \in Int
    BY TrackFields, RankIsInteger DEF BackedInv, TypeOK
  <2> QED BY <1>1, <2>1, RegisterAssumption DEF RegistryForward
<1>4. (\A k \in Key : verdicts[k] # None => Backs(k.pkg, verdicts[k]))'
  BY <1>2, <1>3, RecordedStayBacked
<1>5. (pc = "record" => Backs(answering.pkg, decided))'
  <2> SUFFICES ASSUME pc = "record" PROVE Backs(answering.pkg, decided)'
    BY <1>2
  <2>1. answering.pkg \in Package /\ decided \in Verdict /\ Backs(answering.pkg, decided)
    BY DEF BackedInv, TypeOK, Request
  <2>2. PICK q \in Package, d \in Verdict : q = answering.pkg /\ d = decided
    BY <2>1
  <2>3. Backs(q, d)'
    BY <1>3, <2>1, <2>2, BackingIsMonotone DEF BackedInv
  <2> QED BY <1>2, <2>2, <2>3 DEF Backs, Holds
<1> QED BY <1>1, <1>2, <1>4, <1>5 DEF BackedInv

\* Every step keeps recorded adoptions true.
LEMMA NextBacked ==
  ASSUME Publishable \subseteq Internal, BackedInv, TypeOK', [Next]_vars
  PROVE  BackedInv'
<1>1. CASE UNCHANGED <<index, verdicts, pc, answering, decided, snapshot>>
  BY <1>1, BackedStutter
<1>2. CASE World
  BY <1>1, <1>2 DEF World, Tick, Release, Yank, Disclose, store, run, progress
<1>3. ASSUME NEW r \in RequestSet, File(r)
      PROVE  BackedInv'
  BY <1>1, <1>3 DEF File, run, progress
<1>4. ASSUME NEW v \in {"process", "apply"}, StartProcess(v)
      PROVE  BackedInv'
  BY <1>4 DEF StartProcess, BackedInv, Backs, Holds, NoTracks, store
<1>5. CASE StartEvaluate
  BY <1>5 DEF StartEvaluate, BackedInv, Backs, Holds, store
<1>6. ASSUME NEW r \in pending, Answer(r)
      PROVE  BackedInv'
  BY <1>6, AnswerBacked
<1>7. CASE RecordVerdict
  <2>1. verdicts \in [Key -> Verdict \cup {None}] /\ answering \in Request
    BY <1>7 DEF RecordVerdict, BackedInv, TypeOK
  <2>2. RequestKey(answering).pkg = answering.pkg
    BY DEF RequestKey
  <2>3. \A k \in Key :
          verdicts'[k] = IF k = RequestKey(answering) THEN decided ELSE verdicts[k]
    BY <1>7, <2>1 DEF RecordVerdict
  <2> QED BY <1>7, <2>2, <2>3 DEF RecordVerdict, BackedInv, Backs, Holds
<1>8. CASE FinishProcess
  BY <1>8 DEF FinishProcess, BackedInv, Backs, Holds, NoTracks, store
<1>9. ASSUME NEW k \in TrackKey, EvaluateTrack(k)
      PROVE  BackedInv'
  BY <1>9, EvaluateBacked
<1>10. ASSUME NEW k \in TrackKey, EvaluateFails(k)
       PROVE  BackedInv'
  <2>1. \A j \in TrackKey : snapshot'[j] \in {snapshot[j], None}
    BY <1>10 DEF EvaluateFails, Leave, BackedInv, TypeOK
  <2> QED BY <1>10, <2>1 DEF EvaluateFails, Leave, BackedInv, Backs, Holds, store
<1>11. CASE FinishEvaluate
  BY <1>11 DEF FinishEvaluate, BackedInv, Backs, Holds, store
<1>12. CASE Abort
  BY <1>12 DEF Abort, BackedInv, Backs, Holds, NoTracks, store
<1>13. CASE ProofDoor
  BY <1>13, PublishBacked
<1>14. CASE UNCHANGED vars
  BY <1>1, <1>14 DEF vars, store, run, progress
<1> QED BY <1>2, <1>3, <1>4, <1>5, <1>6, <1>7, <1>8, <1>9, <1>10, <1>11, <1>12,
           <1>13, <1>14 DEF Next, Pipeline

\* BackedInv holds throughout.
LEMMA BackedInvariant ==
  ASSUME Publishable \subseteq Internal
  PROVE  Spec => []BackedInv
<1>1. Init => BackedInv
  BY InitTypeOK DEF Init, BackedInv
<1>2. BackedInv /\ [Next]_vars => BackedInv'
  BY NextTypeOK, NextBacked DEF BackedInv
<1> QED BY <1>1, <1>2, PTL DEF Spec

\* A verdict that says "adopted" is never wrong about the index, although the
\* two are written one after the other, the run may die in between, and later
\* requests and evaluations write the same track: what an adoption promised
\* is in the index, or a later version of the same track is.  Packages that a
\* proof pipeline publishes are internal.
THEOREM AdoptionsAreBacked ==
  ASSUME Publishable \subseteq Internal
  PROVE  Spec => []AdoptedVerdictsAreBacked
<1>1. BackedInv => AdoptedVerdictsAreBacked
  BY DEF BackedInv, Backs, AdoptedVerdictsAreBacked
<1> QED BY <1>1, BackedInvariant, PTL

-----------------------------------------------------------------------------
(* The copies.                                                             *)

\* The steps that write a track: an answer, its own evaluation and a publish.
LEMMA WritersOfATrack ==
  ASSUME TypeOK, [Next]_vars, NEW k \in TrackKey, index'[k] # index[k]
  PROVE  \/ \E r \in pending : Answer(r)
         \/ EvaluateTrack(k)
         \/ Publish
<1>1. ~ UNCHANGED index
  OBVIOUS
<1>2. ~ World
  BY <1>1 DEF World, Tick, Release, Yank, Disclose, store
<1>3. \A r \in RequestSet : ~ File(r)
  BY <1>1 DEF File
<1>4. ASSUME NEW j \in TrackKey, EvaluateTrack(j)
      PROVE  EvaluateTrack(k)
  <2>1. j = k
    BY <1>4, EvaluateStep DEF TypeOK
  <2> QED BY <1>4, <2>1
<1>5. /\ \A v \in {"process", "apply"} : ~ StartProcess(v)
      /\ ~ (StartEvaluate \/ RecordVerdict \/ FinishProcess \/ FinishEvaluate \/ Abort)
      /\ \A j \in TrackKey : ~ EvaluateFails(j)
  BY <1>1 DEF StartProcess, StartEvaluate, RecordVerdict, FinishProcess, FinishEvaluate,
              Abort, EvaluateFails, store
<1>6. ~ PublishFails /\ \A p \in Publishable, v \in PublishedVersion : ~ StartPublish(p, v)
  BY <1>1 DEF StartPublish, PublishFails, store
<1>7. vars' # vars
  BY <1>1 DEF vars, store
<1> QED BY <1>2, <1>3, <1>4, <1>5, <1>6, <1>7 DEF Next, Pipeline, ProofDoor

\* answer writes a track of its request's package, which a registry lists.
LEMMA AnswerWritesItsPackage ==
  ASSUME TypeOK, NEW r \in pending, Answer(r),
         NEW k \in TrackKey, index'[k] # index[k]
  PROVE  k[1] = r.pkg /\ k[1] \notin Missing
<1>1. r \in Request /\ r.pkg \in Package /\ r.pkg \notin Missing
  BY DEF TypeOK, Request, Answer, Answerable
<1>2. PICK cands \in {Discover(r.pkg, feed) : feed \in FeedAnswers(r.pkg)} :
        /\ decided' = VerdictOn(r, cands)
        /\ index' = IF decided'.code = "adopted"
                    THEN Admit(r.pkg, decided', cands) ELSE index
  BY DEF Answer
<1>3. index' = Admit(r.pkg, decided', cands)
  BY <1>2
<1> DEFINE j     == <<r.pkg, decided'.track>>
           moved == Maintain(Advance(IF index[j] = None THEN NewTrack ELSE index[j],
                                     decided'.adopted, cands),
                             decided'.track, cands, at)
<1>4. index' \in {index, [index EXCEPT ![j] = moved]}
  BY <1>3 DEF Admit
<1> HIDE DEF moved
<1>5. k = j
  BY <1>4 DEF TypeOK
<1> QED BY <1>1, <1>5

\* What a publish writes is newer than its copy, and a run that is not
\* evaluating holds none.
CopiesInv ==
  /\ pc # "evaluate" => snapshot = NoTracks
  /\ (publishing # None /\ publishing.track # None)
       => Rank[publishing.version] > Rank[publishing.track.current]

\* Every step keeps that.
LEMMA NextCopies ==
  ASSUME TypeOK, CopiesInv, [Next]_vars
  PROVE  CopiesInv'
<1>1. CASE UNCHANGED <<snapshot, pc, publishing>>
  BY <1>1 DEF CopiesInv
<1>2. CASE UNCHANGED publishing /\ (snapshot' = NoTracks \/ pc' = "evaluate")
  BY <1>2 DEF CopiesInv
<1>3. CASE World
  BY <1>1, <1>3 DEF World, Tick, Release, Yank, Disclose, run, progress
<1>4. ASSUME NEW r \in RequestSet, File(r)
      PROVE  CopiesInv'
  BY <1>1, <1>4 DEF File, world, run, progress
<1>5. CASE Pipeline
  <2>1. ASSUME NEW v \in {"process", "apply"}, StartProcess(v)
        PROVE  CopiesInv'
    BY <1>2, <2>1 DEF StartProcess, CopiesInv, world
  <2>2. CASE StartEvaluate
    BY <1>2, <2>2 DEF StartEvaluate, world
  <2>3. ASSUME NEW r \in pending, Answer(r)
        PROVE  CopiesInv'
    BY <1>2, <2>3 DEF Answer, Answerable, IsNext, CopiesInv, world
  <2>4. CASE RecordVerdict
    BY <1>2, <2>4 DEF RecordVerdict, CopiesInv, world
  <2>5. CASE FinishProcess
    BY <1>2, <2>5 DEF FinishProcess, CopiesInv, world
  <2>6. ASSUME NEW k \in TrackKey, EvaluateTrack(k) \/ EvaluateFails(k)
        PROVE  CopiesInv'
    BY <1>2, <2>6 DEF EvaluateTrack, EvaluateFails, Leave, world
  <2>7. CASE FinishEvaluate
    BY <1>2, <2>7 DEF FinishEvaluate, world
  <2>8. CASE Abort
    BY <1>2, <2>8 DEF Abort, world
  <2> QED BY <1>5, <2>1, <2>2, <2>3, <2>4, <2>5, <2>6, <2>7, <2>8 DEF Pipeline
<1>6. ASSUME NEW p \in Publishable, NEW v \in PublishedVersion, StartPublish(p, v)
      PROVE  CopiesInv'
  <2>1. UNCHANGED <<snapshot, pc>>
    BY <1>6 DEF StartPublish, run, progress
  <2>2. /\ publishing'.version = v
        /\ publishing'.track = index[<<p, Major[v]>>]
        /\ publishing'.track # None => Rank[v] > Rank[publishing'.track.current]
    BY <1>6 DEF StartPublish
  <2> QED BY <2>1, <2>2 DEF CopiesInv
<1>7. CASE Publish \/ PublishFails
  BY <1>7 DEF Publish, PublishFails, CopiesInv, run, progress
<1>8. CASE UNCHANGED vars
  BY <1>1, <1>8 DEF vars, world, run, progress
<1> QED BY <1>3, <1>4, <1>5, <1>6, <1>7, <1>8 DEF Next, ProofDoor

\* It holds throughout.
LEMMA CopiesInvariant ==
  Spec => []CopiesInv
<1>1. Init => CopiesInv
  BY DEF Init, CopiesInv
<1>2. TypeOK /\ CopiesInv /\ [Next]_vars => CopiesInv'
  BY NextCopies
<1> QED BY <1>1, <1>2, TypeCorrect, PTL DEF Spec

\* What publish writes is its copy on another version.
LEMMA PublishedFields ==
  ASSUME TypeOK, Publish
  PROVE  /\ Published.current = publishing.version
         /\ Published.advisory =
              IF publishing.track = None THEN None ELSE publishing.track.advisory
         /\ Published.deprecated =
              IF publishing.track = None THEN None ELSE publishing.track.deprecated
         /\ Published.quietSince =
              IF publishing.track = None THEN None ELSE publishing.track.quietSince
<1> DEFINE track == IF publishing.track = None THEN NewTrack ELSE publishing.track
<1>1. track \in Track \cup {NewTrack}
  BY PublicationFields DEF Publish
<1>2. IF publishing.track = None
      THEN track.advisory = None /\ track.deprecated = None /\ track.quietSince = None
      ELSE track = publishing.track
  BY DEF NewTrack
<1>3. Published = [track EXCEPT !.current = publishing.version,
                                !.releasedAt = publishing.at]
  BY DEF Published
<1> HIDE DEF track
<1>4. /\ Published.current = publishing.version
      /\ Published.advisory = track.advisory
      /\ Published.deprecated = track.deprecated
      /\ Published.quietSince = track.quietSince
  BY <1>1, <1>3 DEF Track, NewTrack
<1> QED BY <1>2, <1>4

\* From a true copy a publish takes a track to a later version and leaves what
\* is said of it.
Renews(k) ==
  /\ index'[k] # None
  /\ IF index[k] = None
     THEN index'[k].advisory = None /\ index'[k].deprecated = None
     ELSE /\ Rank[index'[k].current] > Rank[index[k].current]
          /\ index'[k].advisory = index[k].advisory
          /\ index'[k].deprecated = index[k].deprecated

LEMMA PublishRenews ==
  ASSUME TypeOK, CopiesInv, Publish, NEW k \in TrackKey, Settled(k),
         index'[k] # index[k]
  PROVE  Renews(k)
<1>1. /\ publishing # None /\ Published \in Track
      /\ index' = [index EXCEPT ![publishing.key] = Published]
  BY PublishStep
<1>2. k = publishing.key /\ index'[k] = Published
  BY <1>1 DEF TypeOK
<1>3. publishing.track = index[k]
  BY <1>1, <1>2 DEF Settled
<1>4. index[k] # None => Rank[publishing.version] > Rank[index[k].current]
  BY <1>1, <1>3 DEF CopiesInv
<1> QED BY <1>1, <1>2, <1>3, <1>4, PublishedFields, NoneAssumption DEF Renews

\* No publish is under way while an evaluation holds what it has read.
Apart == publishing = None \/ snapshot = NoTracks

\* Two things keep the copies of a track true: that nobody publishes its
\* package, and that publishes and evaluations keep apart.
LEMMA NextSettled ==
  ASSUME TypeOK, CopiesInv, [Next]_vars, NEW k \in TrackKey, Settled(k),
         k[1] \notin Publishable \/ (Publishable \subseteq Internal /\ Apart)
  PROVE  Settled(k)'
<1>1. CASE UNCHANGED <<index, snapshot, publishing>>
  BY <1>1 DEF Settled
<1>2. CASE /\ UNCHANGED <<index, publishing>>
           /\ snapshot'[k] \in {snapshot[k], index[k], None}
  BY <1>2 DEF Settled
<1>3. CASE World
  BY <1>1, <1>3 DEF World, Tick, Release, Yank, Disclose, store, run, progress
<1>4. ASSUME NEW r \in RequestSet, File(r)
      PROVE  Settled(k)'
  BY <1>1, <1>4 DEF File, world, run, progress
<1>5. ASSUME NEW r \in pending, Answer(r)
      PROVE  Settled(k)'
  <2>1. snapshot = NoTracks /\ UNCHANGED <<snapshot, publishing>>
    BY <1>5 DEF Answer, Answerable, IsNext, CopiesInv, world
  <2>2. snapshot'[k] = None
    BY <2>1 DEF NoTracks
  <2>3. ASSUME publishing # None, publishing.key = k
        PROVE  publishing.track = index'[k]
    <3>1. k[1] \in Publishable
      BY <2>3, PublicationFields
    <3>2. k[1] \in Missing
      BY <3>1, RegisterAssumption
    <3>3. index'[k] = index[k]
      BY <1>5, <3>2, AnswerWritesItsPackage
    <3> QED BY <2>3, <3>3 DEF Settled
  <2> QED BY <2>1, <2>2, <2>3 DEF Settled
<1>6. ASSUME NEW j \in TrackKey, EvaluateTrack(j)
      PROVE  Settled(k)'
  <2>1. /\ index' = [index EXCEPT ![j] = index'[j]]
        /\ snapshot' = [snapshot EXCEPT ![j] = None]
        /\ snapshot[j] # None
        /\ UNCHANGED publishing
    BY <1>6, EvaluateStep DEF EvaluateTrack, Leave, world
  <2>2. CASE j = k
    <3>1. snapshot'[k] = None
      BY <2>1, <2>2 DEF TypeOK
    <3>2. ~ (publishing # None /\ publishing.key = k)
      <4>1. CASE k[1] \notin Publishable
        BY <4>1, PublicationFields
      <4>2. CASE Apart
        BY <2>1, <4>2 DEF Apart, NoTracks
      <4> QED BY <4>1, <4>2
    <3> QED BY <2>1, <3>1, <3>2 DEF Settled
  <2>3. CASE j # k
    <3>1. index'[k] = index[k] /\ snapshot'[k] = snapshot[k]
      BY <2>1, <2>3 DEF TypeOK
    <3> QED BY <2>1, <3>1 DEF Settled
  <2> QED BY <2>2, <2>3
<1>7. ASSUME NEW j \in TrackKey, EvaluateFails(j)
      PROVE  Settled(k)'
  <2>1. snapshot' = [snapshot EXCEPT ![j] = None] /\ UNCHANGED <<index, publishing>>
    BY <1>7 DEF EvaluateFails, Leave, store, world
  <2> QED BY <1>2, <2>1 DEF TypeOK
<1>8. CASE Pipeline
  <2>1. ASSUME NEW v \in {"process", "apply"}, StartProcess(v)
        PROVE  Settled(k)'
    BY <1>1, <2>1 DEF StartProcess, store, world
  <2>2. CASE StartEvaluate
    BY <1>2, <2>2 DEF StartEvaluate, store, world
  <2>3. CASE RecordVerdict
    BY <1>1, <2>3 DEF RecordVerdict, world
  <2>4. CASE FinishProcess
    BY <1>2, <2>4 DEF FinishProcess, store, world
  <2>5. CASE FinishEvaluate
    BY <1>1, <2>5 DEF FinishEvaluate, store, world
  <2>6. CASE Abort
    BY <1>2, <2>6 DEF Abort, NoTracks, store, world
  <2> QED BY <1>5, <1>6, <1>7, <1>8, <2>1, <2>2, <2>3, <2>4, <2>5, <2>6 DEF Pipeline
<1>9. ASSUME NEW p \in Publishable, NEW v \in PublishedVersion, StartPublish(p, v)
      PROVE  Settled(k)'
  <2>1. UNCHANGED <<index, snapshot>>
    BY <1>9 DEF StartPublish, store, run, progress
  <2>2. publishing'.track = index[publishing'.key]
    BY <1>9 DEF StartPublish
  <2> QED BY <2>1, <2>2 DEF Settled
<1>10. CASE Publish
  <2>1. /\ publishing # None /\ publishing' = None
        /\ index' = [index EXCEPT ![publishing.key] = Published]
        /\ UNCHANGED snapshot
    BY <1>10, PublishStep DEF Publish, run, progress
  <2>2. CASE publishing.key = k
    <3>1. Apart
      BY <2>1, <2>2, PublicationFields
    <3> QED BY <2>1, <3>1 DEF Apart, NoTracks, Settled
  <2>3. CASE publishing.key # k
    <3>1. index'[k] = index[k]
      BY <2>1, <2>3 DEF TypeOK
    <3> QED BY <2>1, <3>1 DEF Settled
  <2> QED BY <2>2, <2>3
<1>11. CASE PublishFails
  BY <1>11 DEF PublishFails, Settled, store, run, progress
<1>12. CASE UNCHANGED vars
  BY <1>1, <1>12 DEF vars, store, world, run, progress
<1> QED BY <1>3, <1>4, <1>8, <1>9, <1>10, <1>11, <1>12 DEF Next, ProofDoor

\* No copy is held at the start.
LEMMA InitSettled ==
  Init => \A k \in TrackKey : Settled(k)
  BY DEF Init, Settled, NoTracks

\* A package that is not published has true copies, whatever is published beside
\* it: between the moment a run reads its tracks and the moment it writes them
\* back nobody else writes them.
THEOREM UnpublishedTracksAreSettled ==
  Spec => [](\A k \in TrackKey : k[1] \notin Publishable => Settled(k))
<1> DEFINE Inv == \A k \in TrackKey : k[1] \notin Publishable => Settled(k)
<1>1. Init => Inv
  BY InitSettled
<1>2. TypeOK /\ CopiesInv /\ Inv /\ [Next]_vars => Inv'
  BY NextSettled
<1> QED BY <1>1, <1>2, TypeCorrect, CopiesInvariant, PTL DEF Spec

\* So has every package, while no publish runs into an evaluation.
LEMMA ApartTracksAreSettled ==
  ASSUME Publishable \subseteq Internal
  PROVE  Spec /\ []Apart => [](\A k \in TrackKey : Settled(k))
<1> DEFINE Inv == \A k \in TrackKey : Settled(k)
<1>1. Init => Inv
  BY InitSettled
<1>2. TypeOK /\ CopiesInv /\ Apart /\ Inv /\ [Next]_vars => Inv'
  BY NextSettled
<1> QED BY <1>1, <1>2, TypeCorrect, CopiesInvariant, PTL DEF Spec

=============================================================================
