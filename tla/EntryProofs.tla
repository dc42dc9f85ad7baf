---------------------------- MODULE EntryProofs -----------------------------
(***************************************************************************)
(* What may enter the index, proved for every value of the constants: it   *)
(* has baked or is safer, it is under the floor when a request brings it,  *)
(* and it is no regression when it opens a track.                          *)
(***************************************************************************)
EXTENDS RegisterProofs

-----------------------------------------------------------------------------
(* What a candidate says of the world.                                     *)

\* An answer that comes is one of the readings of a version, and severities
\* fail to load of findings alone that are borrowed.
LEMMA ToldIsRead ==
  ASSUME NEW p, NEW answer \in FeedAnswers(p), NEW v \in Version,
         answer.reach = "answered"
  PROVE  Told(p, v, answer) \in Readings(p, v)
<1> DEFINE borrowed == {w \in Version : findings[p][w].borrowed}
           absent   == IF \A w \in Version : findings[p][w] = NoFinding
                       THEN {"not-found"} ELSE {}
<1>1. \/ answer \in [reach : Reach \cap {"answered"}, untold : SUBSET borrowed]
      \/ answer \in [reach : (Reach \ {"answered"}) \cup absent, untold : {{}}]
  BY DEF FeedAnswers
<1>2. absent \subseteq {"not-found"}
  OBVIOUS
<1> HIDE DEF absent
<1>3. answer.untold \subseteq borrowed
  BY <1>1, <1>2
<1> QED BY <1>3 DEF Told, Readings

\* The readings of a version are vectors.
LEMMA ReadingsAreVectors ==
  ASSUME TypeOK, NEW p \in Package, NEW v \in Version
  PROVE  VulnsRead(p, v) \subseteq Vector
<1>1. findings[p][v] \in Finding \cup {NoFinding}
  BY DEF TypeOK
<1> QED BY <1>1, FindingFields DEF VulnsRead, Readings

\* What a registry lists is dated as it was released.
LEMMA DiscoveredDates ==
  ASSUME NEW p, NEW answer, NEW v \in Listed(p)
  PROVE  /\ DOMAIN Discover(p, answer) = Listed(p)
         /\ Discover(p, answer)[v].releasedAt = released[p][v]
  BY DEF Discover, Annotate

\* An answer tells a vector the feed may tell of the version; one that does not
\* come tells nothing: its candidates carry the zero vector and an outcome that
\* says so.
LEMMA DiscoveredVectors ==
  ASSUME NEW p \in Package, NEW answer \in FeedAnswers(p), NEW v \in Listed(p)
  PROVE  LET facts == Discover(p, answer)[v]
         IN  /\ answer.reach = "answered" =>
                  /\ Measured(facts.outcome)
                  /\ facts.vulns \in VulnsRead(p, v)
             /\ answer.reach # "answered" =>
                  /\ ~ Measured(facts.outcome)
                  /\ facts.vulns = Clean
<1> DEFINE facts == Discover(p, answer)[v]
           told  == Told(p, v, answer)
<1>1. /\ facts.vulns = told.vulns
      /\ facts.outcome = IF answer.reach # "answered" THEN answer.reach
                         ELSE IF told.vulns = Clean THEN "clean" ELSE "findings"
  BY DEF Discover, Annotate
<1>2. CASE answer.reach = "answered"
  <2>1. told \in Readings(p, v)
    BY <1>2, ToldIsRead DEF Listed
  <2> QED BY <1>1, <1>2, <2>1 DEF Measured, VulnsRead
<1>3. CASE answer.reach # "answered"
  <2>1. answer.reach \in {"unreachable", "not-found"}
    BY <1>3, AnswersOfTheFeed
  <2> QED BY <1>1, <1>3, <2>1 DEF Told, NoFinding, Measured
<1> QED BY <1>2, <1>3

-----------------------------------------------------------------------------
(* What is written of a version that enters.                               *)

\* maintain leaves the date alone and records what the feed said of the
\* version the track is on.
LEMMA MaintainFacts ==
  ASSUME NEW track \in Track, NEW prefix \in Prefix, NEW t \in Day,
         NEW cands, IsDatedOffer(cands), track.current \in DOMAIN cands
  PROVE  LET kept == Maintain(track, prefix, cands, t)
         IN  /\ kept.releasedAt = track.releasedAt
             /\ kept.outcome = cands[track.current].outcome
<1> DEFINE advised == MaintainAdvisory(track, prefix, cands, t)
           windows(u) == MaintainWindows(u, prefix, cands, t)
<1>1. /\ advised.releasedAt = track.releasedAt
      /\ advised.outcome = cands[track.current].outcome
  BY DEF MaintainAdvisory, Track
<1>2. advised \in Track
  BY AdvisedTrack
<1>3. \A u \in Track : windows(u).releasedAt = u.releasedAt /\ windows(u).outcome = u.outcome
  BY DEF MaintainWindows, Track
<1> HIDE DEF advised, windows
<1>4. Maintain(track, prefix, cands, t) = windows(advised)
  BY DEF Maintain, advised, windows
<1> QED BY <1>1, <1>2, <1>3, <1>4

\* advance dates the track by the release.
LEMMA AdvanceDates ==
  ASSUME NEW track \in Track \cup {NewTrack}, NEW v, NEW cands
  PROVE  Advance(track, v, cands).releasedAt = cands[v].releasedAt
  BY DEF Advance, Track, NewTrack

\* admit: a track that moves is the verdict's, on the version it adopts.
LEMMA AdmittedEntry ==
  ASSUME TypeOK, NEW p \in Package, NEW cands, IsDatedOffer(cands),
         NEW verdict, verdict.adopted \in DOMAIN cands, verdict.track \in Prefix,
         NEW k \in TrackKey, Admit(p, verdict, cands)[k] # index[k]
  PROVE  LET entry == Admit(p, verdict, cands)[k]
         IN  /\ k = <<p, verdict.track>>
             /\ entry.current = verdict.adopted
             /\ entry.releasedAt = cands[verdict.adopted].releasedAt
             /\ entry.outcome = cands[verdict.adopted].outcome
<1> DEFINE q     == <<p, verdict.track>>
           from  == IF index[q] = None THEN NewTrack ELSE index[q]
           ahead == Advance(from, verdict.adopted, cands)
           moved == Maintain(ahead, verdict.track, cands, at)
<1>1. q \in TrackKey /\ index \in [TrackKey -> Track \cup {None}] /\ at \in Day
  BY DEF TypeOK, TrackKey
<1>2. from \in Track \cup {NewTrack}
  BY <1>1
<1>3. Admit(p, verdict, cands) \in {index, [index EXCEPT ![q] = moved]}
  BY DEF Admit
<1> HIDE DEF from
<1>4. /\ ahead \in Track
      /\ ahead.current = verdict.adopted
      /\ ahead.releasedAt = cands[verdict.adopted].releasedAt
  BY <1>2, AdvancedTrack, AdvanceDates
<1> HIDE DEF ahead
<1>5. /\ moved.current = verdict.adopted
      /\ moved.releasedAt = cands[verdict.adopted].releasedAt
      /\ moved.outcome = cands[verdict.adopted].outcome
  BY <1>1, <1>4, MaintainFacts, MaintainedTrack
<1> HIDE DEF moved, q
<1>6. Admit(p, verdict, cands) = [index EXCEPT ![q] = moved] /\ k = q
  BY <1>1, <1>3
<1> QED BY <1>1, <1>5, <1>6 DEF q

\* answer: what a request brings into a track was admissible in what discovery
\* said of it.
LEMMA AnsweredEntry ==
  ASSUME TypeOK, NEW r \in pending, Answer(r),
         NEW k \in TrackKey, index'[k] # index[k]
  PROVE  \E answer \in FeedAnswers(r.pkg) :
           LET cands == Discover(r.pkg, answer)
               v     == index'[k].current
           IN  /\ k[1] = r.pkg
               /\ v \in Listed(r.pkg)
               /\ index'[k].releasedAt = cands[v].releasedAt
               /\ index'[k].outcome = cands[v].outcome
               /\ Admissible(cands[v], at)
               /\ r.type = "open-track"
                    => ~ Regresses(v, DefaultCurrent(r.pkg, cands), cands)
<1>1. r \in Request /\ r.pkg \in Package
  BY DEF TypeOK, Request
<1>2. PICK answer \in FeedAnswers(r.pkg) :
        LET cands == Discover(r.pkg, answer)
        IN  /\ decided' = VerdictOn(r, cands)
            /\ index' = IF decided'.code = "adopted"
                        THEN Admit(r.pkg, decided', cands) ELSE index
  BY DEF Answer
<1> DEFINE cands == Discover(r.pkg, answer)
<1>3. IsDatedOffer(cands)
  BY <1>1, DiscoveredIsDatedOffer
<1>4. DOMAIN cands = Listed(r.pkg)
  BY DEF Discover, Annotate
<1>5. /\ decided' = VerdictOn(r, cands)
      /\ index' = IF decided'.code = "adopted"
                  THEN Admit(r.pkg, decided', cands) ELSE index
  BY <1>2
<1> HIDE DEF cands
<1>6. decided'.code = "adopted" /\ index' = Admit(r.pkg, decided', cands)
  BY <1>5
<1>7. decided'.adopted \in DOMAIN cands /\ decided'.track \in Prefix
  BY <1>1, <1>3, <1>5, <1>6, VerdictOnRequest
<1>8. /\ k = <<r.pkg, decided'.track>>
      /\ index'[k].current = decided'.adopted
      /\ index'[k].releasedAt = cands[decided'.adopted].releasedAt
      /\ index'[k].outcome = cands[decided'.adopted].outcome
  BY <1>1, <1>3, <1>6, <1>7, AdmittedEntry
<1>9. /\ Admissible(cands[decided'.adopted], at)
      /\ r.type = "open-track"
           => ~ Regresses(decided'.adopted, DefaultCurrent(r.pkg, cands), cands)
  <2>1. /\ r.track \in Prefix \cup {None} /\ r.version \in Version \cup {None}
        /\ r.type = "open-track" => r.track \in Prefix
        /\ IsOffer(cands)
    BY <1>1, <1>3 DEF Request, IsDatedOffer
  <2>2. CASE r.type = "open-track"
    <3> DEFINE current == DefaultCurrent(r.pkg, cands)
               finer   == Cardinality(FinerTracks(r.pkg))
    <3>1. decided' = EvaluateTrackOpen(r, cands, current, finer, at)
      BY <1>5, <2>2 DEF VerdictOn
    <3> HIDE DEF current, finer
    <3>2. Admissible(cands[decided'.adopted], at) /\ ~ Regresses(decided'.adopted, current, cands)
      BY <1>6, <2>1, <2>2, <3>1, OpenedTracksAreWithinBudget
    <3> QED BY <3>2 DEF current
  <2>3. CASE r.type # "open-track"
    <3>1. decided' = EvaluateAdmission(r, cands, at)
      BY <1>5, <2>3 DEF VerdictOn
    <3>2. Admissible(cands[decided'.adopted], at)
      BY <1>6, <2>1, <3>1, AdmissionIsAdmissible
    <3> QED BY <2>3, <3>2
  <2> QED BY <2>2, <2>3
<1> QED BY <1>1, <1>4, <1>7, <1>8, <1>9 DEF cands

\* processAll: what an evaluation moves a registry package's track to is
\* strictly safer, or as safe and baked, than what it knows of the version the
\* track leaves.
LEMMA EvaluatedEntry ==
  ASSUME TypeOK, NEW k \in TrackKey, EvaluateTrack(k), k[1] \notin Internal,
         index[k] = snapshot[k],
         index'[k].current # index[k].current
  PROVE  \E answer \in FeedAnswers(k[1]) :
           LET cands == Discover(k[1], answer)
               v     == index'[k].current
               held  == CurrentVector(index[k], cands)
           IN  /\ v \in Listed(k[1])
               /\ index'[k].releasedAt = cands[v].releasedAt
               /\ index'[k].outcome = cands[v].outcome
               /\ \/ Safer(cands[v].vulns, held)
                  \/ cands[v].vulns = held /\ Baked(cands[v], at)
<1>1. k[1] \in Package /\ k[2] \in Prefix /\ at \in Day
  BY DEF TrackKey, TypeOK
<1> DEFINE track == snapshot[k]
<1>2. track \in Track
  BY EvaluateStep
<1>3. PICK answer \in FeedAnswers(k[1]) :
        LET cands   == CandidatesFor(k[1], track, answer)
            verdict == EvaluateUpgrade(track, k[2], cands, k[1] \in Internal, at)
        IN  index' = [index EXCEPT ![k] =
                        Maintain(Upgraded(k[1], track, verdict, cands), k[2], cands, at)]
  BY DEF EvaluateTrack
<1> DEFINE cands   == Discover(k[1], answer)
           verdict == EvaluateUpgrade(track, k[2], cands, k[1] \in Internal, at)
           moved   == Upgraded(k[1], track, verdict, cands)
           v       == verdict.adopted
<1>4. CandidatesFor(k[1], track, answer) = cands
  BY DEF CandidatesFor
<1>5. IsDatedOffer(cands) /\ DOMAIN cands = Listed(k[1])
  BY <1>1, DiscoveredIsDatedOffer DEF Discover, Annotate
<1>6. index'[k] = Maintain(moved, k[2], cands, at)
  BY <1>3, <1>4 DEF TypeOK
<1> HIDE DEF cands, track
<1>7. moved \in Track
  BY <1>1, <1>2, <1>5, UpgradedTrack
<1> HIDE DEF moved
<1>8. index'[k].current = moved.current
  BY <1>1, <1>5, <1>6, <1>7, MaintainedTrack
<1>9. verdict.code = "adopted"
  <2>1. moved # track
    BY <1>8 DEF track
  <2> QED BY <2>1 DEF Upgraded, moved
<1>10. /\ v \in DOMAIN cands
       /\ LET held == CurrentVector(track, cands)
          IN  \/ Safer(cands[v].vulns, held)
              \/ cands[v].vulns = held /\ Baked(cands[v], at)
  BY <1>1, <1>5, <1>9, UpgradeMovesForwardAndSafely DEF IsDatedOffer
<1> HIDE DEF verdict
<1>11. moved = Advance(track, v, cands)
  BY <1>9 DEF Upgraded, moved
<1>12. moved.current = v /\ moved.releasedAt = cands[v].releasedAt
  BY <1>2, <1>5, <1>10, <1>11, AdvancedTrack, AdvanceDates
<1>13. /\ index'[k].releasedAt = cands[v].releasedAt
       /\ index'[k].outcome = cands[v].outcome
  BY <1>1, <1>5, <1>6, <1>7, <1>10, <1>12, MaintainFacts
<1>14. CurrentVector(track, cands) = CurrentVector(index[k], cands)
  BY DEF track
<1> HIDE DEF v
<1>15. /\ index'[k].current \in Listed(k[1])
       /\ index'[k].releasedAt = cands[index'[k].current].releasedAt
       /\ index'[k].outcome = cands[index'[k].current].outcome
       /\ \/ Safer(cands[index'[k].current].vulns, CurrentVector(index[k], cands))
          \/ /\ cands[index'[k].current].vulns = CurrentVector(index[k], cands)
             /\ Baked(cands[index'[k].current], at)
  BY <1>5, <1>8, <1>10, <1>12, <1>13, <1>14
<1> QED BY <1>15 DEF cands

-----------------------------------------------------------------------------
(* What enters the index.                                                  *)

\* The steps that write the index, and where.
LEMMA WritesOfTheIndex ==
  ASSUME TypeOK, Publishable \subseteq Internal, [Next]_vars,
         NEW k \in TrackKey, k[1] \notin Internal, index'[k] # index[k]
  PROVE  \/ pc = "process" /\ \E r \in pending : Answer(r)
         \/ pc = "evaluate" /\ EvaluateTrack(k)
<1>1. ASSUME NEW r \in pending, Answer(r) PROVE pc = "process"
  BY <1>1 DEF Answer, Answerable, IsNext
<1>2. EvaluateTrack(k) => pc = "evaluate"
  BY DEF EvaluateTrack, Leave
<1>3. ~ Publish
  BY PublishedAreInternal DEF ProofDoor
<1> QED BY <1>1, <1>2, <1>3, WritersOfATrack

\* What a run weighs is what the feed may say of the version that enters, and
\* of the one the track stands on or what is recorded of it.
LEMMA Weighed ==
  ASSUME NEW k \in TrackKey, k[1] \notin Internal, index[k] # None,
         NEW answer \in FeedAnswers(k[1]), answer.reach = "answered",
         NEW v \in Listed(k[1])
  PROVE  LET cands == Discover(k[1], answer)
         IN  /\ cands[v].vulns \in VulnsRead(k[1], v)
             /\ CurrentVector(index[k], cands) \in VulnsHeld(k)
<1> DEFINE cands == Discover(k[1], answer)
<1>1. k[1] \in Package /\ DOMAIN cands = Listed(k[1])
  BY DEF TrackKey, Discover, Annotate
<1>2. \A w \in Listed(k[1]) : cands[w].vulns \in VulnsRead(k[1], w)
  BY <1>1, DiscoveredVectors
<1>3. StillOffered(k) <=> index[k].current \in Listed(k[1])
  BY DEF StillOffered, Offered
<1> HIDE DEF cands
<1> QED BY <1>1, <1>2, <1>3 DEF CurrentVector, VulnsHeld, cands

\* A feed that does not answer makes every listed version look alike.
LEMMA SilenceWeighsNothing ==
  ASSUME NEW k \in TrackKey, index[k] # None, index[k].current \in Listed(k[1]),
         NEW answer \in FeedAnswers(k[1]), answer.reach # "answered",
         NEW v \in Listed(k[1])
  PROVE  LET cands == Discover(k[1], answer)
         IN  ~ Safer(cands[v].vulns, CurrentVector(index[k], cands))
<1> DEFINE cands == Discover(k[1], answer)
<1>1. k[1] \in Package /\ DOMAIN cands = Listed(k[1])
  BY DEF TrackKey, Discover, Annotate
<1>2. cands[v].vulns = Clean /\ cands[index[k].current].vulns = Clean
  BY <1>1, DiscoveredVectors
<1>3. Clean \in Vector
  BY DEF Clean, Vector
<1>4. CurrentVector(index[k], cands) = Clean
  BY <1>1, <1>2 DEF CurrentVector
<1> HIDE DEF cands
<1> QED BY <1>2, <1>3, <1>4, SaferIrreflexive DEF cands

\* What moves a track of a registry package, and what it was weighed against.
LEMMA MovesAreWeighed ==
  ASSUME BackedInv, Publishable \subseteq Internal, [Next]_vars,
         NEW k \in TrackKey, Moves(k)
  PROVE  \E answer \in FeedAnswers(k[1]) :
           LET cands == Discover(k[1], answer)
               v     == index'[k].current
               held  == CurrentVector(index[k], cands)
           IN  /\ v \in Listed(k[1])
               /\ index'[k].releasedAt = cands[v].releasedAt
               /\ index'[k].outcome = cands[v].outcome
               /\ \/ pc = "process" /\ Admissible(cands[v], at)
                  \/ /\ pc = "evaluate"
                     /\ index[k] \in Track
                     /\ \/ Safer(cands[v].vulns, held)
                        \/ cands[v].vulns = held /\ Baked(cands[v], at)
<1>1. k[1] \notin Internal /\ index'[k] # index[k]
  BY DEF Moves
<1>2. CASE pc = "process" /\ \E r \in pending : Answer(r)
  <2>1. PICK r \in pending : Answer(r)
    BY <1>2
  <2>2. PICK answer \in FeedAnswers(r.pkg) :
          LET cands == Discover(r.pkg, answer)
              v     == index'[k].current
          IN  /\ k[1] = r.pkg
              /\ v \in Listed(r.pkg)
              /\ index'[k].releasedAt = cands[v].releasedAt
              /\ index'[k].outcome = cands[v].outcome
              /\ Admissible(cands[v], at)
    BY <1>1, <2>1, AnsweredEntry DEF BackedInv
  <2>3. answer \in FeedAnswers(k[1])
    BY <2>2
  <2>4. LET cands == Discover(k[1], answer)
            v     == index'[k].current
        IN  /\ v \in Listed(k[1])
            /\ index'[k].releasedAt = cands[v].releasedAt
            /\ index'[k].outcome = cands[v].outcome
            /\ Admissible(cands[v], at)
    BY <2>2
  <2> QED BY <1>2, <2>3, <2>4
<1>3. CASE pc = "evaluate" /\ EvaluateTrack(k)
  <2>1. snapshot[k] \in Track /\ None \notin Track
    BY <1>3, EvaluateStep, NoneAssumption DEF BackedInv
  <2>2. index[k] = snapshot[k] /\ index[k] # None
    BY <1>1, <2>1 DEF BackedInv
  <2>3. index'[k].current # index[k].current
    BY <2>2 DEF Moves
  <2> QED BY <1>1, <1>3, <2>1, <2>2, <2>3, EvaluatedEntry DEF BackedInv
<1> QED BY <1>1, <1>2, <1>3, WritesOfTheIndex DEF BackedInv

\* The quarantine is waived for nothing but a strictly safer version: not by a
\* request, not by a feed that is silent and so makes everything look alike, and
\* not by a vector recorded before the feed changed its mind, unless the version
\* it is the vector of is listed no more.
THEOREM EntriesAreBaked ==
  ASSUME Publishable \subseteq Internal
  PROVE  Spec => EntryIsBaked
<1>1. ASSUME BackedInv, [Next]_vars, NEW k \in TrackKey
      PROVE  EntersBaked(k)
  <2> SUFFICES ASSUME Moves(k), StillOffered(k) \/ Measured(index'[k].outcome)
               PROVE  EntersBaked(k)
    BY DEF EntersBaked
  <2>1. k[1] \in Package /\ k[1] \notin Internal
    BY DEF TrackKey, Moves
  <2>2. PICK answer \in FeedAnswers(k[1]) :
          LET cands == Discover(k[1], answer)
              v     == index'[k].current
              held  == CurrentVector(index[k], cands)
          IN  /\ v \in Listed(k[1])
              /\ index'[k].releasedAt = cands[v].releasedAt
              /\ index'[k].outcome = cands[v].outcome
              /\ \/ Admissible(cands[v], at)
                 \/ /\ index[k] \in Track
                    /\ \/ Safer(cands[v].vulns, held)
                       \/ cands[v].vulns = held /\ Baked(cands[v], at)
    BY <1>1, MovesAreWeighed
  <2> DEFINE cands == Discover(k[1], answer)
             v     == index'[k].current
             held  == CurrentVector(index[k], cands)
  <2>3. CASE Baked(cands[v], at)
    BY <2>2, <2>3 DEF EntersBaked, Baked
  <2>4. CASE index[k] \in Track /\ Safer(cands[v].vulns, held)
    <3>1. index[k] # None
      BY <2>4, NoneAssumption
    <3>2. answer.reach = "answered"
      <4>1. CASE StillOffered(k)
        BY <2>1, <2>2, <2>4, <3>1, <4>1, SilenceWeighsNothing DEF StillOffered, Offered
      <4>2. CASE Measured(index'[k].outcome)
        BY <2>1, <2>2, <4>2, DiscoveredVectors
      <4> QED BY <4>1, <4>2
    <3>3. cands[v].vulns \in VulnsRead(k[1], v) /\ held \in VulnsHeld(k)
      BY <2>1, <2>2, <3>1, <3>2, Weighed
    <3> QED BY <2>4, <3>1, <3>3 DEF EntersBaked
  <2> QED BY <2>2, <2>3, <2>4 DEF Admissible
<1>2. BackedInv /\ [Next]_vars => [\A k \in TrackKey : EntersBaked(k)]_vars
  BY <1>1
<1> QED BY <1>2, BackedInvariant, PTL DEF Spec, EntryIsBaked

\* What was measured decides: a request brings nothing at or above the floor
\* into the index, and no evaluation trades the version of a track, or what is
\* recorded of it, for a less safe one or takes it over the floor.
THEOREM EntriesAreSafe ==
  ASSUME Publishable \subseteq Internal
  PROVE  Spec => EntryIsSafe
<1>1. ASSUME BackedInv, [Next]_vars, NEW k \in TrackKey
      PROVE  EntersSafe(k)
  <2> SUFFICES ASSUME Moves(k), Measured(index'[k].outcome) PROVE EntersSafe(k)
    BY DEF EntersSafe
  <2>1. k[1] \in Package /\ k[1] \notin Internal
    BY DEF TrackKey, Moves
  <2>2. PICK answer \in FeedAnswers(k[1]) :
          LET cands == Discover(k[1], answer)
              v     == index'[k].current
              held  == CurrentVector(index[k], cands)
          IN  /\ v \in Listed(k[1])
              /\ index'[k].outcome = cands[v].outcome
              /\ \/ pc = "process" /\ Admissible(cands[v], at)
                 \/ /\ pc = "evaluate"
                    /\ index[k] \in Track
                    /\ Safer(cands[v].vulns, held) \/ cands[v].vulns = held
    BY <1>1, MovesAreWeighed
  <2> DEFINE cands == Discover(k[1], answer)
             v     == index'[k].current
             held  == CurrentVector(index[k], cands)
  <2>3. answer.reach = "answered" /\ cands[v].vulns \in VulnsRead(k[1], v)
    BY <2>1, <2>2, DiscoveredVectors
  <2>4. CASE pc = "process" /\ Admissible(cands[v], at)
    BY <2>3, <2>4 DEF EntersSafe, Admissible
  <2>5. CASE /\ pc = "evaluate" /\ index[k] \in Track
             /\ Safer(cands[v].vulns, held) \/ cands[v].vulns = held
    <3>1. index[k] # None
      BY <2>5, NoneAssumption
    <3>2. held \in VulnsHeld(k)
      BY <2>1, <2>2, <2>3, <3>1, Weighed
    <3>3. cands[v].vulns \in Vector
      <4>1. v \in Version
        BY <2>2 DEF Listed
      <4> QED BY <1>1, <2>1, <2>3, <4>1, ReadingsAreVectors DEF BackedInv
    <3>4. held \in Vector
      <4>1. IsDatedOffer(cands)
        BY <1>1, <2>1, DiscoveredIsDatedOffer DEF BackedInv
      <4> HIDE DEF cands
      <4> QED BY <2>5, <4>1, DatedFacts, TrackFields DEF CurrentVector
    <3> HIDE DEF cands, held, v
    <3>5. ~ Safer(held, cands[v].vulns)
      BY <2>5, <3>3, <3>4, SaferIrreflexive, SaferTransitive
    <3>6. AdmissionMaxSeverity \in Severity
      BY ParamsAssumption
    <3>7. Exceeds(cands[v].vulns, AdmissionMaxSeverity)
            => Exceeds(held, AdmissionMaxSeverity)
      BY <2>5, <3>3, <3>4, <3>6, SaferStaysUnderTheFloor
    <3>8. pc # "process"
      BY <2>5
    <3> QED BY <2>3, <3>2, <3>5, <3>7, <3>8 DEF EntersSafe, v
  <2> QED BY <2>2, <2>4, <2>5
<1>2. BackedInv /\ [Next]_vars => [\A k \in TrackKey : EntersSafe(k)]_vars
  BY <1>1
<1> QED BY <1>2, BackedInvariant, PTL DEF Spec, EntryIsSafe

-----------------------------------------------------------------------------
(* What a track opens at.                                                  *)

\* The default track that evaluateTrackOpen is given is the package's own
\* highest major, when no package nested below it has a track.
LEMMA DefaultIsHighestMajor ==
  ASSUME TypeOK, NEW p \in Package, TracksOf(p) \subseteq {p} \X Prefix,
         \A f, g \in Prefix \ Finer : Rank[f] = Rank[g] => f = g,
         NEW cands, NEW d \in DefaultTrack(p), index[d].current \in DOMAIN cands
  PROVE  DefaultCurrent(p, cands) = index[d].current
<1> DEFINE majors   == {k \in {p} \X (Prefix \ Finer) : index[k] # None}
           first(k, M) == \A l \in M : \/ Rank[l[2]] < Rank[k[2]]
                                       \/ /\ Rank[l[2]] = Rank[k[2]]
                                          /\ PackageRank[k[1]] <= PackageRank[l[1]]
           current(M)  == {index[k].current : k \in {l \in M : first(l, M)}} \cap DOMAIN cands
           chosen(M)   == IF current(M) = {} THEN None ELSE CHOOSE v \in current(M) : TRUE
<1>0. DefaultCurrent(p, cands) = chosen(TracksOf(p) \ FinerTracks(p))
  BY DEF DefaultCurrent
<1>1. TracksOf(p) \ FinerTracks(p) = majors
  BY DEF TracksOf, FinerTracks
<1>2. /\ \A k \in majors : k[1] = p /\ k[2] \in Prefix \ Finer /\ k = <<p, k[2]>>
      /\ \A f \in Prefix : Rank[f] \in Int
      /\ PackageRank[p] \in Int
  BY VersionAssumption, RegisterAssumption
<1>3. d \in majors /\ \A l \in majors : Rank[l[2]] <= Rank[d[2]]
  BY DEF DefaultTrack
<1> HIDE DEF majors
<1>4. first(d, majors)
  BY <1>2, <1>3
<1>5. ASSUME NEW k \in majors, first(k, majors) PROVE k = d
  <2>1. Rank[d[2]] <= Rank[k[2]] /\ Rank[k[2]] <= Rank[d[2]]
    BY <1>2, <1>3, <1>5
  <2>2. k[2] = d[2]
    BY <1>2, <1>3, <2>1
  <2> QED BY <1>2, <1>3, <2>2
<1> HIDE DEF first
<1>6. current(majors) = {index[d].current}
  BY <1>3, <1>4, <1>5
<1> HIDE DEF current
<1>7. chosen(majors) = index[d].current
  BY <1>6
<1> HIDE DEF chosen
<1> QED BY <1>0, <1>1, <1>7

\* A request is being answered only until its verdict is recorded.
AnsweringInv == pc # "record" => answering = None

\* Every step keeps it.
LEMMA AnsweringInvariant ==
  Spec => []AnsweringInv
<1>1. Init => AnsweringInv
  BY DEF Init, AnsweringInv
<1>2. AnsweringInv /\ [Next]_vars => AnsweringInv'
  <2> SUFFICES ASSUME AnsweringInv, [Next]_vars PROVE AnsweringInv'
    OBVIOUS
  <2>1. CASE UNCHANGED <<pc, answering>>
    BY <2>1 DEF AnsweringInv
  <2>2. CASE World \/ ProofDoor \/ (\E r \in RequestSet : File(r)) \/ UNCHANGED vars
    BY <2>1, <2>2 DEF World, Tick, Release, Yank, Disclose, ProofDoor, StartPublish,
                      Publish, PublishFails, File, vars, run, progress
  <2>3. CASE Pipeline
    <3>1. CASE \E k \in TrackKey : EvaluateTrack(k) \/ EvaluateFails(k)
      BY <2>1, <3>1 DEF EvaluateTrack, EvaluateFails
    <3>2. CASE \E r \in pending : Answer(r)
      BY <3>2 DEF Answer, AnsweringInv
    <3>3. CASE \E v \in {"process", "apply"} : StartProcess(v)
      BY <3>3 DEF StartProcess, AnsweringInv
    <3>4. CASE StartEvaluate \/ FinishProcess \/ FinishEvaluate
      BY <3>4 DEF StartEvaluate, FinishProcess, FinishEvaluate, AnsweringInv
    <3>5. CASE RecordVerdict \/ Abort
      BY <3>5 DEF RecordVerdict, Abort, AnsweringInv
    <3> QED BY <2>3, <3>1, <3>2, <3>3, <3>4, <3>5 DEF Pipeline
  <2> QED BY <2>2, <2>3 DEF Next
<1> QED BY <1>1, <1>2, PTL DEF Spec

\* denied-security-regression does what the docs say: whatever is requested,
\* released and disclosed while runs come and go, no track opens at a version
\* less safe than the one the package's highest major stands on, as long as no
\* package nested below has a track: then the highest major may be that one's.
THEOREM OpenedTracksDoNotRegress ==
  ASSUME \A f, g \in Prefix \ Finer : Rank[f] = Rank[g] => f = g
  PROVE  Spec => LoneTracksAreNoRegression
<1> DEFINE Opens(k) == /\ pc = "process"
                       /\ answering' # None
                       /\ answering'.type = "open-track"
                       /\ index[k] = None
                       /\ index'[k] # None
                       /\ Measured(index'[k].outcome)
           Guarded(k) == TracksOf(k[1]) \subseteq {k[1]} \X Prefix => OpensNoRegression(k)
<1>1. ASSUME TypeOK, AnsweringInv, Next, NEW k \in TrackKey, Opens(k)
      PROVE  \E r \in pending : Answer(r)
  <2>1. index' # index
    BY <1>1
  <2>2. ~ ProofDoor
    BY <1>1, <2>1 DEF ProofDoor, StartPublish, Publish, PublishFails, AnsweringInv,
                      store, run, progress
  <2>3. \A j \in TrackKey : ~ EvaluateTrack(j) /\ ~ EvaluateFails(j)
    BY <1>1 DEF EvaluateTrack, EvaluateFails, Leave
  <2>4. ~ World /\ \A r \in RequestSet : ~ File(r)
    BY <2>1 DEF World, Tick, Release, Yank, Disclose, File, store
  <2>5. ~ (StartEvaluate \/ FinishProcess \/ FinishEvaluate \/ Abort \/ RecordVerdict)
    BY <2>1 DEF StartEvaluate, FinishProcess, FinishEvaluate, Abort, RecordVerdict, store
  <2>6. \A v \in {"process", "apply"} : ~ StartProcess(v)
    BY <2>1 DEF StartProcess, store
  <2> QED BY <1>1, <2>2, <2>3, <2>4, <2>5, <2>6 DEF Next, Pipeline
<1>2. ASSUME TypeOK, AnsweringInv, Next, NEW k \in TrackKey
      PROVE  Guarded(k)
  <2> SUFFICES ASSUME TracksOf(k[1]) \subseteq {k[1]} \X Prefix,
                      Opens(k), NEW d \in DefaultTrack(k[1]),
                      index[d].current \in Listed(k[1])
               PROVE  \E new \in VulnsRead(k[1], index'[k].current),
                         old \in VulnsRead(k[1], index[d].current) : ~ Safer(old, new)
    BY DEF OpensNoRegression
  <2>1. PICK r \in pending : Answer(r)
    BY <1>1, <1>2
  <2>2. answering' = r
    BY <2>1 DEF Answer
  <2>3. PICK answer \in FeedAnswers(k[1]) :
          LET cands == Discover(k[1], answer)
              v     == index'[k].current
          IN  /\ v \in Listed(k[1])
              /\ index'[k].outcome = cands[v].outcome
              /\ ~ Regresses(v, DefaultCurrent(k[1], cands), cands)
    <3>1. index'[k] # index[k]
      OBVIOUS
    <3>2. \E answer \in FeedAnswers(r.pkg) :
            LET cands == Discover(r.pkg, answer)
                v     == index'[k].current
            IN  /\ k[1] = r.pkg
                /\ v \in Listed(r.pkg)
                /\ index'[k].outcome = cands[v].outcome
                /\ ~ Regresses(v, DefaultCurrent(r.pkg, cands), cands)
      BY <1>2, <2>1, <2>2, <3>1, AnsweredEntry
    <3> QED BY <3>2
  <2> DEFINE cands == Discover(k[1], answer)
             v     == index'[k].current
             w     == index[d].current
  <2>4. k[1] \in Package /\ DOMAIN cands = Listed(k[1])
    BY DEF TrackKey, Discover, Annotate
  <2>5. DefaultCurrent(k[1], cands) = w
    BY <1>2, <2>4, DefaultIsHighestMajor
  <2>6. w # None
    BY <1>2, VersionAssumption DEF Listed
  <2>7. ~ Safer(cands[w].vulns, cands[v].vulns)
    BY <2>3, <2>5, <2>6 DEF Regresses
  <2>8. cands[v].vulns \in VulnsRead(k[1], v) /\ cands[w].vulns \in VulnsRead(k[1], w)
    BY <2>3, <2>4, DiscoveredVectors
  <2> QED BY <2>7, <2>8
<1>3. TypeOK /\ AnsweringInv /\ [Next]_vars => [\A k \in TrackKey : Guarded(k)]_vars
  BY <1>2
<1>4. Spec => []TypeOK /\ []AnsweringInv
  BY TypeCorrect, AnsweringInvariant
<1> QED BY <1>3, <1>4, PTL DEF Spec, LoneTracksAreNoRegression

=============================================================================
