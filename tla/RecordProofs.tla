---------------------------- MODULE RecordProofs ----------------------------
(***************************************************************************)
(* What a track says about itself, proved for every value of the constants:*)
(* its marks exclude each other, a deprecation stands, what is written is  *)
(* read back, and its advisory says what was measured.                     *)
(***************************************************************************)
EXTENDS EntryProofs

\* A track is not both deprecated and quiet.
MarksApart(track) == track.deprecated = None \/ track.quietSince = None

\* What stood in a deprecation still stands.
Stands(old, new) == old.deprecated # None => new.deprecated = old.deprecated

-----------------------------------------------------------------------------
(* The tracks a run writes.                                                *)

\* maintainWindows decides quiet on the track it has just aged.
LEMMA WindowsMark ==
  ASSUME NEW track \in Track, NEW prefix, NEW cands, NEW t
  PROVE  LET marked == MaintainWindows(track, prefix, cands, t)
         IN  MarksApart(marked) /\ Stands(track, marked)
<1> DEFINE successor  == HasSuccessor(prefix, cands)
           last       == LastRelease(prefix, cands)
           deprecated == EvaluateDeprecation(track, successor, last, t)
           aged       == [track EXCEPT !.deprecated = deprecated]
           quiet      == EvaluateQuiet(aged, successor, last, t)
           marked     == MaintainWindows(track, prefix, cands, t)
<1>1. marked = [aged EXCEPT !.quietSince = quiet]
  BY DEF MaintainWindows
<1>2. aged.deprecated = deprecated
  BY DEF Track
<1>3. deprecated # None => quiet = None
  <2> HIDE DEF deprecated, successor, last
  <2> QED BY <1>2 DEF EvaluateQuiet
<1>4. track.deprecated # None => deprecated = track.deprecated
  BY DEF EvaluateDeprecation
<1> HIDE DEF deprecated, quiet
<1>5. marked.deprecated = deprecated /\ marked.quietSince = quiet
  BY <1>1 DEF Track
<1> QED BY <1>3, <1>4, <1>5 DEF MarksApart, Stands

\* maintain leaves a track with one mark at most, and withdraws no deprecation.
LEMMA MaintainMarks ==
  ASSUME NEW track \in Track, NEW prefix \in Prefix, NEW t \in Day,
         NEW cands, IsDatedOffer(cands)
  PROVE  LET kept == Maintain(track, prefix, cands, t)
         IN  MarksApart(kept) /\ Stands(track, kept)
<1> DEFINE advised == MaintainAdvisory(track, prefix, cands, t)
<1>1. advised \in Track
  BY AdvisedTrack
<1>2. advised.deprecated = track.deprecated
  BY DEF MaintainAdvisory, Track
<1> HIDE DEF advised
<1>3. Maintain(track, prefix, cands, t) = MaintainWindows(advised, prefix, cands, t)
  BY DEF Maintain, advised
<1> QED BY <1>1, <1>2, <1>3, WindowsMark DEF Stands

\* advance and an upgrade leave the marks as they are.
LEMMA MovesKeepMarks ==
  ASSUME NEW track \in Track \cup {NewTrack}, NEW v, NEW cands, NEW p, NEW verdict
  PROVE  /\ Advance(track, v, cands).deprecated = track.deprecated
         /\ Upgraded(p, track, verdict, cands).deprecated = track.deprecated
<1>1. Advance(track, v, cands).deprecated = track.deprecated
  BY DEF Advance, Track, NewTrack
<1>2. Advance(track, verdict.adopted, cands).deprecated = track.deprecated
  BY DEF Advance, Track, NewTrack
<1>3. [track EXCEPT !.current = verdict.adopted].deprecated = track.deprecated
  BY DEF Track, NewTrack
<1> QED BY <1>1, <1>2, <1>3 DEF Upgraded

\* A step of the index that keeps what the marks promise, track by track.
Keeps(old, new) ==
  \A k \in TrackKey :
    /\ new[k] # None => new[k] = old[k] \/ MarksApart(new[k])
    /\ old[k] # None => new[k] # None /\ Stands(old[k], new[k])

\* admit.
LEMMA AdmitKeeps ==
  ASSUME TypeOK, NEW p \in Package, NEW cands, IsDatedOffer(cands),
         NEW verdict, verdict.adopted \in DOMAIN cands, verdict.track \in Prefix
  PROVE  Keeps(index, Admit(p, verdict, cands))
<1> DEFINE k     == <<p, verdict.track>>
           from  == IF index[k] = None THEN NewTrack ELSE index[k]
           ahead == Advance(from, verdict.adopted, cands)
           moved == Maintain(ahead, verdict.track, cands, at)
<1>1. /\ k \in TrackKey
      /\ index \in [TrackKey -> Track \cup {None}]
      /\ at \in Day
      /\ None \notin Track
  BY NoneAssumption DEF TypeOK, TrackKey
<1>2. from \in Track \cup {NewTrack}
  BY <1>1
<1>3. index[k] # None => from = index[k]
  OBVIOUS
<1> HIDE DEF from
<1>4. ahead \in Track /\ ahead.deprecated = from.deprecated
  BY <1>2, AdvancedTrack, MovesKeepMarks
<1> HIDE DEF ahead
<1>5. moved \in Track /\ MarksApart(moved) /\ Stands(ahead, moved)
  BY <1>1, <1>4, MaintainMarks, MaintainedTrack
<1>6. Admit(p, verdict, cands) \in {index, [index EXCEPT ![k] = moved]}
  BY DEF Admit, ahead, from
<1> HIDE DEF moved, k
<1>7. Keeps(index, index)
  BY DEF Keeps, Stands
<1>8. Keeps(index, [index EXCEPT ![k] = moved])
  BY <1>1, <1>3, <1>4, <1>5 DEF Keeps, Stands
<1> QED BY <1>6, <1>7, <1>8

-----------------------------------------------------------------------------
(* The marks of the register's tracks.                                     *)

\* A publish writes back the marks of the copy it read.
MarksInv ==
  /\ TypeOK
  /\ \A k \in TrackKey : index[k] # None => MarksApart(index[k])
  /\ (publishing # None /\ publishing.track # None) => MarksApart(publishing.track)

\* What publish writes carries the marks of its copy.
LEMMA PublishedMarks ==
  ASSUME MarksInv, Publish
  PROVE  MarksApart(Published)
  BY PublishedFields DEF MarksInv, MarksApart, Publish

\* processAll writes the copy back with its deprecation.
LEMMA EvaluateMarks ==
  ASSUME TypeOK, NEW k \in TrackKey, EvaluateTrack(k)
  PROVE  /\ snapshot[k] \in Track
         /\ index'[k] # None
         /\ MarksApart(index'[k])
         /\ Stands(snapshot[k], index'[k])
         /\ \A j \in TrackKey \ {k} : index'[j] = index[j]
<1>1. k[1] \in Package /\ k[2] \in Prefix
  BY DEF TrackKey
<1>2. snapshot[k] \in Track /\ snapshot[k] # None /\ at \in Day
  BY DEF EvaluateTrack, Leave, TypeOK
<1> DEFINE track == snapshot[k]
<1>3. PICK cands \in {CandidatesFor(k[1], track, feed) : feed \in FeedAnswers(k[1])} :
        LET verdict == EvaluateUpgrade(track, k[2], cands, k[1] \in Internal, at)
        IN  index' = [index EXCEPT ![k] =
                        Maintain(Upgraded(k[1], track, verdict, cands), k[2], cands, at)]
  BY DEF EvaluateTrack
<1> DEFINE verdict == EvaluateUpgrade(track, k[2], cands, k[1] \in Internal, at)
           moved   == Upgraded(k[1], track, verdict, cands)
           kept    == Maintain(moved, k[2], cands, at)
<1>4. IsDatedOffer(cands)
  BY <1>1, <1>2, CandidatesAreDatedOffer
<1>5. index' = [index EXCEPT ![k] = kept]
  BY <1>3
<1> HIDE DEF track
<1>6. moved \in Track /\ moved.deprecated = track.deprecated
  BY <1>1, <1>2, <1>4, UpgradedTrack, MovesKeepMarks DEF track
<1> HIDE DEF moved, verdict
<1>7. kept \in Track /\ MarksApart(kept) /\ Stands(moved, kept)
  BY <1>1, <1>2, <1>4, <1>6, MaintainMarks, MaintainedTrack
<1> HIDE DEF kept
<1>8. index'[k] = kept /\ \A j \in TrackKey \ {k} : index'[j] = index[j]
  BY <1>5 DEF TypeOK
<1>9. kept # None
  BY <1>7, NoneAssumption
<1> QED BY <1>2, <1>6, <1>7, <1>8, <1>9 DEF Stands, track

\* answer writes what admit makes of the index.
LEMMA AnswerKeeps ==
  ASSUME TypeOK, NEW r \in pending, Answer(r)
  PROVE  Keeps(index, index')
<1>1. r \in Request /\ r.pkg \in Package
  BY DEF TypeOK, Request
<1>2. PICK cands \in {Discover(r.pkg, feed) : feed \in FeedAnswers(r.pkg)} :
        /\ decided' = VerdictOn(r, cands)
        /\ index' = IF decided'.code = "adopted"
                    THEN Admit(r.pkg, decided', cands) ELSE index
  BY DEF Answer
<1>3. IsDatedOffer(cands)
  BY <1>1, DiscoveredIsDatedOffer
<1>4. /\ decided' = VerdictOn(r, cands)
      /\ index' = IF decided'.code = "adopted"
                  THEN Admit(r.pkg, decided', cands) ELSE index
  BY <1>2
<1>5. decided'.code = "adopted" =>
        decided'.adopted \in DOMAIN cands /\ decided'.track \in Prefix
  BY <1>1, <1>3, <1>4, VerdictOnRequest
<1>6. CASE decided'.code = "adopted"
  BY <1>1, <1>3, <1>4, <1>5, <1>6, AdmitKeeps
<1>7. CASE decided'.code # "adopted"
  BY <1>4, <1>7 DEF Keeps, Stands
<1> QED BY <1>6, <1>7

\* Every step keeps the marks apart, in the index and in the copy of a publish.
LEMMA NextMarks ==
  ASSUME MarksInv, TypeOK', [Next]_vars
  PROVE  MarksInv'
<1> DEFINE Index == \A k \in TrackKey : index[k] # None => MarksApart(index[k])
           Copy  == (publishing # None /\ publishing.track # None)
                      => MarksApart(publishing.track)
<1>1. TypeOK /\ Index /\ Copy
  BY DEF MarksInv
<1> SUFFICES Index' /\ Copy'
  BY DEF MarksInv
<1>2. CASE UNCHANGED <<index, publishing>>
  BY <1>1, <1>2
<1>3. ASSUME NEW r \in pending, Answer(r)
      PROVE  Index' /\ Copy'
  <2>1. Keeps(index, index') /\ UNCHANGED publishing
    BY <1>1, <1>3, AnswerKeeps DEF Answer, world
  <2> QED BY <1>1, <2>1 DEF Keeps, MarksApart
<1>4. ASSUME NEW k \in TrackKey, EvaluateTrack(k)
      PROVE  Index' /\ Copy'
  <2>1. /\ MarksApart(index'[k])
        /\ \A j \in TrackKey \ {k} : index'[j] = index[j]
        /\ UNCHANGED publishing
    BY <1>1, <1>4, EvaluateMarks DEF EvaluateTrack, world
  <2> QED BY <1>1, <2>1
<1>5. ASSUME NEW p \in Publishable, NEW v \in PublishedVersion, StartPublish(p, v)
      PROVE  Index' /\ Copy'
  <2> DEFINE k == <<p, Major[v]>>
  <2>1. k \in TrackKey
    BY RegisterAssumption, VersionAssumption DEF TrackKey
  <2>2. publishing'.track = index[k] /\ UNCHANGED index
    BY <1>5 DEF StartPublish, store
  <2> HIDE DEF k
  <2> QED BY <1>1, <2>1, <2>2
<1>6. CASE Publish
  <2>1. index' = [index EXCEPT ![publishing.key] = Published] /\ MarksApart(Published)
    BY <1>1, <1>6, PublishStep, PublishedMarks
  <2>2. publishing' = None
    BY <1>6 DEF Publish
  <2> QED BY <1>1, <2>1, <2>2 DEF TypeOK
<1>7. CASE PublishFails
  BY <1>1, <1>7 DEF PublishFails, store
<1>8. CASE World
  BY <1>2, <1>8 DEF World, Tick, Release, Yank, Disclose, store
<1>9. ASSUME NEW r \in RequestSet, File(r)
      PROVE  Index' /\ Copy'
  BY <1>2, <1>9 DEF File, world
<1>10. CASE Pipeline
  BY <1>2, <1>3, <1>4, <1>10
     DEF Pipeline, StartProcess, StartEvaluate, RecordVerdict, FinishProcess,
         EvaluateFails, FinishEvaluate, Abort, store, world
<1>11. CASE UNCHANGED vars
  BY <1>2, <1>11 DEF vars, store, world
<1> QED BY <1>5, <1>6, <1>7, <1>8, <1>9, <1>10, <1>11 DEF Next, ProofDoor

\* The initial state has no track to mark.
LEMMA InitMarks ==
  Init => MarksInv
  BY InitTypeOK DEF Init, MarksInv, NoTracks

\* The invariant holds of every behaviour.
LEMMA MarksInvariant ==
  Spec => []MarksInv
<1>1. MarksInv /\ [Next]_vars => MarksInv'
  BY NextTypeOK, NextMarks DEF MarksInv
<1> QED BY <1>1, InitMarks, PTL DEF Spec

\* A track that is deprecated is not also quiet, whichever mark came first and
\* whichever of a request, an evaluation or a publish wrote the track last.
THEOREM MarksExcludeEachOther ==
  Spec => []QuietIsNotDeprecated
<1>1. MarksInv => QuietIsNotDeprecated
  BY DEF MarksInv, QuietIsNotDeprecated, MarksApart
<1> QED BY <1>1, MarksInvariant, PTL

\* Every step keeps the deprecation of a track whose copies are true.
LEMMA SettledStands ==
  ASSUME TypeOK, CopiesInv, [Next]_vars, NEW k \in TrackKey, Settled(k)
  PROVE  DeprecationStands(k)
<1> SUFFICES ASSUME index[k] # None, index[k].deprecated # None, index'[k] # index[k]
             PROVE  index'[k].deprecated = index[k].deprecated
  BY DEF DeprecationStands
<1>1. ASSUME NEW r \in pending, Answer(r)
      PROVE  index'[k].deprecated = index[k].deprecated
  BY <1>1, AnswerKeeps DEF Keeps, Stands
<1>2. CASE EvaluateTrack(k)
  <2>1. index[k] = snapshot[k]
    BY <1>2 DEF EvaluateTrack, Leave, Settled
  <2> QED BY <1>2, <2>1, EvaluateMarks DEF Stands
<1>3. CASE Publish
  BY <1>3, PublishRenews DEF Renews
<1> QED BY <1>1, <1>2, <1>3, WritersOfATrack

\* No step withdraws a deprecation of a package nobody publishes or dates it
\* anew, although an evaluation writes back the whole of a copy read before, and
\* whatever is published beside it.
THEOREM DeprecationsAreFinal ==
  Spec => DeprecationsStand
<1> DEFINE Inv == \A k \in TrackKey : k[1] \notin Publishable => Settled(k)
<1>1. TypeOK /\ CopiesInv /\ Inv /\ [Next]_vars
        => [\A k \in TrackKey : k[1] \notin Publishable => DeprecationStands(k)]_vars
  BY SettledStands
<1>2. Spec => []Inv
  BY UnpublishedTracksAreSettled
<1> QED BY <1>1, <1>2, TypeCorrect, CopiesInvariant, PTL DEF Spec, DeprecationsStand

-----------------------------------------------------------------------------
(* The wire.                                                               *)

\* A pointer is read as what it was made of.
LEMMA PointersAreRead ==
  /\ \A x : OrZero(OrNil(x)) = x
  /\ \A s : OrEmptySlice(OrNilSlice(s)) = s
<1>1. ASSUME NEW x PROVE OrZero(OrNil(x)) = x
  <2>1. CASE x = None
    BY <2>1 DEF OrNil, OrZero
  <2>2. CASE x # None
    <3>1. OrNil(x) = {x}
      BY <2>2 DEF OrNil
    <3> QED BY <3>1 DEF OrZero
  <2> QED BY <2>1, <2>2
<1>2. ASSUME NEW s PROVE OrEmptySlice(OrNilSlice(s)) = s
  BY DEF OrNilSlice, OrEmptySlice
<1> QED BY <1>1, <1>2

\* The two records a track may hold.
LEMMA HeldRecordsAreRead ==
  /\ \A vulnIds, severity, since, fixedIn, affectedImports :
       LET a == [vulnIds |-> vulnIds, severity |-> severity, since |-> since,
                 fixedIn |-> fixedIn, affectedImports |-> affectedImports]
       IN  MapZero(AdvisoryFromWire, MapNil(AdvisoryToWire, a)) = a
  /\ \A d \in Deprecation \cup {None} :
       MapZero(DeprecationFromWire, MapNil(DeprecationToWire, d)) = d
  /\ MapZero(AdvisoryFromWire, MapNil(AdvisoryToWire, None)) = None
<1>1. ASSUME NEW vulnIds, NEW severity, NEW since, NEW fixedIn, NEW affectedImports
      PROVE  LET a == [vulnIds |-> vulnIds, severity |-> severity, since |-> since,
                       fixedIn |-> fixedIn, affectedImports |-> affectedImports]
             IN  MapZero(AdvisoryFromWire, MapNil(AdvisoryToWire, a)) = a
  <2> DEFINE a == [vulnIds |-> vulnIds, severity |-> severity, since |-> since,
                   fixedIn |-> fixedIn, affectedImports |-> affectedImports]
  <2>1. AdvisoryFromWire(AdvisoryToWire(a)) = a
    BY PointersAreRead DEF AdvisoryFromWire, AdvisoryToWire
  <2> SUFFICES MapZero(AdvisoryFromWire, MapNil(AdvisoryToWire, a)) = a
    OBVIOUS
  <2> HIDE DEF a
  <2>2. CASE a = None
    BY <2>2 DEF MapNil, MapZero
  <2>3. CASE a # None
    <3>1. MapNil(AdvisoryToWire, a) = {AdvisoryToWire(a)}
      BY <2>3 DEF MapNil
    <3> QED BY <2>1, <3>1 DEF MapZero
  <2> QED BY <2>2, <2>3
<1>2. ASSUME NEW d \in Deprecation \cup {None}
      PROVE  MapZero(DeprecationFromWire, MapNil(DeprecationToWire, d)) = d
  <2>1. CASE d = None
    BY <2>1 DEF MapNil, MapZero
  <2>2. CASE d # None
    <3>1. MapNil(DeprecationToWire, d) = {DeprecationToWire(d)}
      BY <2>2 DEF MapNil
    <3>2. d \in Deprecation
      BY <2>2
    <3>3. DeprecationFromWire(DeprecationToWire(d)) = d
      BY <3>2 DEF DeprecationFromWire, DeprecationToWire, Deprecation
    <3> QED BY <3>1, <3>3 DEF MapZero
  <2> QED BY <2>1, <2>2
<1>3. MapZero(AdvisoryFromWire, MapNil(AdvisoryToWire, None)) = None
  BY DEF MapNil, MapZero
<1> QED BY <1>1, <1>2, <1>3

\* A vector is mapped count by count.
LEMMA VectorsAreRead ==
  ASSUME NEW v \in Vector
  PROVE  VectorFromWire(VectorToWire(v)) = v
  BY DEF VectorFromWire, VectorToWire, Vector

\* A track is read back as it was written, whatever its other fields hold.
LEMMA TracksAreRead ==
  ASSUME NEW k \in TrackKey, NEW t \in Track, NEW rest
  PROVE  LET r == TrackRecord(k, t, rest)
         IN  TrackFromWire(TrackToWire(r)) = r
<1> DEFINE r == TrackRecord(k, t, rest)
           w == TrackToWire(r)
<1>1. VectorFromWire(VectorToWire(t.vulns)) = t.vulns
  BY TrackFields, VectorsAreRead
<1>2. MapZero(DeprecationFromWire, MapNil(DeprecationToWire, t.deprecated)) = t.deprecated
  BY TrackFields, HeldRecordsAreRead
<1>3. MapZero(AdvisoryFromWire, MapNil(AdvisoryToWire, r.advisory)) = r.advisory
  <2>1. CASE t.advisory = None
    BY <2>1, HeldRecordsAreRead DEF TrackRecord
  <2>2. CASE t.advisory # None
    <3> DEFINE a == [vulnIds |-> rest.vulnIds, severity |-> t.advisory.severity,
                     since |-> t.advisory.since, fixedIn |-> rest.fixedIn,
                     affectedImports |-> rest.affectedImports]
    <3>1. r.advisory = a
      BY <2>2 DEF TrackRecord
    <3>2. MapZero(AdvisoryFromWire, MapNil(AdvisoryToWire, a)) = a
      BY HeldRecordsAreRead
    <3> HIDE DEF r, a
    <3> QED BY <3>1, <3>2
  <2> QED BY <2>1, <2>2
<1>4. /\ r.vulns = t.vulns /\ r.deprecated = t.deprecated
      /\ r = [package |-> r.package, ecosystem |-> r.ecosystem, prefix |-> r.prefix,
              current |-> r.current, updatedAt |-> r.updatedAt, vulns |-> r.vulns,
              outcome |-> r.outcome, reason |-> r.reason, source |-> r.source,
              provenance |-> r.provenance, osvSnapshot |-> r.osvSnapshot,
              releasedAt |-> r.releasedAt, adoptedAt |-> r.adoptedAt,
              advisory |-> r.advisory, quietSince |-> r.quietSince,
              deprecated |-> r.deprecated]
  BY DEF TrackRecord
<1> HIDE DEF r
<1>5. TrackFromWire(w) =
        [package |-> r.package, ecosystem |-> r.ecosystem, prefix |-> r.prefix,
         current |-> r.current, updatedAt |-> r.updatedAt,
         vulns |-> VectorFromWire(VectorToWire(r.vulns)),
         outcome |-> r.outcome, reason |-> OrZero(OrNil(r.reason)),
         source |-> OrZero(OrNil(r.source)), provenance |-> OrZero(OrNil(r.provenance)),
         osvSnapshot |-> OrZero(OrNil(r.osvSnapshot)),
         releasedAt |-> OrZero(OrNil(r.releasedAt)),
         adoptedAt |-> OrZero(OrNil(r.adoptedAt)),
         advisory |-> MapZero(AdvisoryFromWire, MapNil(AdvisoryToWire, r.advisory)),
         quietSince |-> OrZero(OrNil(r.quietSince)),
         deprecated |-> MapZero(DeprecationFromWire, MapNil(DeprecationToWire, r.deprecated))]
  BY DEF TrackFromWire, TrackToWire
<1> QED BY <1>1, <1>2, <1>3, <1>4, <1>5, PointersAreRead DEF r

\* So is a request,
LEMMA RequestsAreRead ==
  ASSUME NEW request, NEW rest
  PROVE  LET r == RequestRecord(request, rest)
         IN  RequestFromWire(RequestToWire(r)) = r
  BY PointersAreRead DEF RequestRecord, RequestFromWire, RequestToWire

\* and a verdict, alternatives included.
LEMMA VerdictsAreRead ==
  ASSUME NEW k \in Key, NEW verdict, NEW rest, rest.vulns \in Vector
  PROVE  LET r == VerdictRecord(k, verdict, rest)
         IN  VerdictFromWire(VerdictToWire(r)) = r
<1> DEFINE r       == VerdictRecord(k, verdict, rest)
           offered == Ordered(verdict.alternatives)
           wired   == [i \in DOMAIN r.alternatives |-> AlternativeToWire(r.alternatives[i])]
<1>1. /\ DOMAIN r.alternatives = DOMAIN offered
      /\ r.alternatives = [i \in DOMAIN offered |->
                             [version |-> offered[i], vulns |-> rest.vulns,
                              releasedAt |-> rest.releasedAt]]
  BY DEF VerdictRecord
<1> HIDE DEF offered
<1>2. OrEmptySlice(OrNilSlice(wired)) = wired
  <2> HIDE DEF wired
  <2> QED BY PointersAreRead
<1>3. ASSUME NEW i \in DOMAIN r.alternatives
      PROVE  AlternativeFromWire(AlternativeToWire(r.alternatives[i])) = r.alternatives[i]
  <2>1. r.alternatives[i] = [version |-> offered[i], vulns |-> rest.vulns,
                             releasedAt |-> rest.releasedAt]
    BY <1>1
  <2> HIDE DEF r
  <2> QED BY <2>1, PointersAreRead, VectorsAreRead DEF AlternativeFromWire, AlternativeToWire
<1>4. [i \in DOMAIN wired |-> AlternativeFromWire(wired[i])] = r.alternatives
  <2>1. r.alternatives = [i \in DOMAIN r.alternatives |-> r.alternatives[i]]
    BY <1>1
  <2> HIDE DEF r
  <2> QED BY <1>3, <2>1
<1>5. r = [code |-> r.code, package |-> r.package, ecosystem |-> r.ecosystem,
           track |-> r.track, requested |-> r.requested, adopted |-> r.adopted,
           osvSnapshot |-> r.osvSnapshot, message |-> r.message,
           decidedAt |-> r.decidedAt, alternatives |-> r.alternatives]
  BY DEF VerdictRecord
<1> HIDE DEF r
<1>6. VerdictToWire(r).alternatives = OrNilSlice(wired)
  BY DEF VerdictToWire
<1>7. VerdictFromWire(VerdictToWire(r)) =
        [code |-> r.code, package |-> r.package, decidedAt |-> r.decidedAt,
         ecosystem |-> OrZero(OrNil(r.ecosystem)), track |-> OrZero(OrNil(r.track)),
         requested |-> OrZero(OrNil(r.requested)), adopted |-> OrZero(OrNil(r.adopted)),
         osvSnapshot |-> OrZero(OrNil(r.osvSnapshot)),
         message |-> OrZero(OrNil(r.message)),
         alternatives |-> [i \in DOMAIN wired |-> AlternativeFromWire(wired[i])]]
  <2> HIDE DEF wired
  <2> QED BY <1>2, <1>6 DEF VerdictFromWire, VerdictToWire
<1> HIDE DEF wired
<1> QED BY <1>4, <1>5, <1>7, PointersAreRead DEF r

\* Every record the register may hold is read back as it was written, its optional
\* fields all there or all missing: no field of a track, a request or a verdict is
\* lost on the way through the store.
THEOREM RecordsSurvive ==
  Spec => []RecordsSurviveTheWire
<1>1. \A rest \in {Bare, Filled} : rest.vulns \in Vector
  BY DEF Bare, Filled, Clean, Vector
<1>2. ASSUME TypeOK PROVE RecordsSurviveTheWire
  <2> SUFFICES ASSUME NEW rest \in {Bare, Filled}
               PROVE  /\ \A k \in TrackKey :
                           LET t == TrackRecord(k, index[k], rest)
                           IN  index[k] # None => TrackFromWire(TrackToWire(t)) = t
                      /\ \A k \in Key :
                           LET r == RequestRecord(requests[k], rest)
                               v == VerdictRecord(k, verdicts[k], rest)
                           IN  /\ requests[k] # None => RequestFromWire(RequestToWire(r)) = r
                               /\ verdicts[k] # None => VerdictFromWire(VerdictToWire(v)) = v
    BY DEF RecordsSurviveTheWire
  <2>1. \A k \in TrackKey : index[k] # None => index[k] \in Track
    BY <1>2 DEF TypeOK
  <2> QED BY <1>1, <2>1, TracksAreRead, RequestsAreRead, VerdictsAreRead
<1>3. TypeOK => RecordsSurviveTheWire
  BY <1>2
<1> QED BY <1>3, TypeCorrect, PTL

-----------------------------------------------------------------------------
(* What a run was told.                                                    *)

\* Clean is the vector whose counts add up to none.
LEMMA CleanAddsUpToNone ==
  ASSUME NEW v \in Vector
  PROVE  v.critical + v.high + v.medium + v.low = 0 <=> v = Clean
<1>1. PICK a, b, c, d \in Nat : v = [critical |-> a, high |-> b, medium |-> c, low |-> d]
  BY DEF Vector
<1>2. v = Clean <=> a = 0 /\ b = 0 /\ c = 0 /\ d = 0
  BY <1>1 DEF Clean
<1>3. v.critical = a /\ v.high = b /\ v.medium = c /\ v.low = d
  BY <1>1
<1>4. a + b + c + d = 0 <=> a = 0 /\ b = 0 /\ c = 0 /\ d = 0
  OBVIOUS
<1> QED BY <1>2, <1>3, <1>4

\* Whatever of a version's severities is told, that there is a finding is, and
\* its date.
LEMMA ReadingsAgree ==
  ASSUME TypeOK, NEW p \in Package, NEW v \in Version, NEW read \in Readings(p, v)
  PROVE  /\ read.vulns = Clean <=> Vulns(p, v) = Clean
         /\ read.publishedAt = findings[p][v].publishedAt
<1> DEFINE f == findings[p][v]
<1>1. f \in Finding \cup {NoFinding}
  BY DEF TypeOK
<1> HIDE DEF f
<1>2. Untold(f).publishedAt = f.publishedAt /\ f.vulns \in Vector
  BY <1>1, FindingFields
<1> DEFINE sum == f.vulns.critical + f.vulns.high + f.vulns.medium + f.vulns.low
<1>3. sum = 0 <=> f.vulns = Clean
  BY <1>2, CleanAddsUpToNone
<1>4. Untold(f).vulns = [Clean EXCEPT !.high = sum]
  <2>1. f = NoFinding \/ f \in [vulns : Vector, classified : BOOLEAN,
                                publishedAt : Day \cup {None}, borrowed : BOOLEAN]
    BY <1>1, RegisterAssumption
  <2> HIDE DEF sum
  <2> QED BY <2>1 DEF Untold, NoFinding, sum
<1> HIDE DEF sum
<1>5. [Clean EXCEPT !.high = sum] = Clean <=> sum = 0
  BY DEF Clean
<1>6. read \in {f, Untold(f)}
  BY DEF Readings, f
<1> QED BY <1>2, <1>3, <1>4, <1>5, <1>6 DEF Vulns, f

\* Candidates that say of the world what the answer tells, which is what the feed
\* may say, and nothing but that it did not come if it did not.
Truthful(p, cands, answer) ==
  \A v \in DOMAIN cands :
    LET told == Told(p, v, answer)
    IN  /\ v \in Offered(p)
        /\ v \in Version
        /\ Measured(cands[v].outcome) <=> answer.reach = "answered"
        /\ answer.reach = "answered" =>
             /\ told \in Readings(p, v)
             /\ cands[v].vulns = told.vulns
             /\ cands[v].publishedAt = told.publishedAt
             /\ Ceiling(cands[v]) = Ceiling(told)
             /\ cands[v].outcome = IF told.vulns = Clean THEN "clean" ELSE "findings"

\* annotate tells the truth about every version it is given.
LEMMA AnnotatedIsTruthful ==
  ASSUME NEW p \in Package, NEW answer \in FeedAnswers(p), NEW releasedAt,
         DOMAIN releasedAt \subseteq Offered(p) \cap Version
  PROVE  Truthful(p, Annotate(p, releasedAt, answer), answer)
<1> DEFINE cands   == Annotate(p, releasedAt, answer)
           told(v) == Told(p, v, answer)
<1>1. answer.reach \in {"answered", "unreachable", "not-found"}
  BY AnswersOfTheFeed
<1>2. DOMAIN cands = DOMAIN releasedAt
  BY DEF Annotate
<1> SUFFICES ASSUME NEW v \in DOMAIN releasedAt
             PROVE  /\ Measured(cands[v].outcome) <=> answer.reach = "answered"
                    /\ answer.reach = "answered" =>
                         /\ told(v) \in Readings(p, v)
                         /\ cands[v].vulns = told(v).vulns
                         /\ cands[v].publishedAt = told(v).publishedAt
                         /\ Ceiling(cands[v]) = Ceiling(told(v))
                         /\ cands[v].outcome = IF told(v).vulns = Clean THEN "clean"
                                               ELSE "findings"
  BY <1>2 DEF Truthful
<1> HIDE DEF told
<1>3. CASE answer.reach = "answered"
  <2>1. /\ cands[v].vulns = told(v).vulns
        /\ cands[v].publishedAt = told(v).publishedAt
        /\ cands[v].outcome = IF told(v).vulns = Clean THEN "clean" ELSE "findings"
    BY <1>3 DEF Annotate, told
  <2>2. cands[v].classified = told(v).classified
    BY <1>3, Zenon DEF Annotate, told
  <2>3. told(v) \in Readings(p, v)
    BY <1>3, ToldIsRead DEF told
  <2> HIDE DEF cands
  <2>4. Ceiling(cands[v]) = Ceiling(told(v))
    BY <2>1, <2>2, Zenon DEF Ceiling
  <2>5. Measured(cands[v].outcome)
    BY <2>1 DEF Measured
  <2> QED BY <1>3, <2>1, <2>3, <2>4, <2>5
<1>4. CASE answer.reach # "answered"
  <2>1. cands[v].outcome = answer.reach
    BY <1>4 DEF Annotate
  <2> QED BY <1>1, <1>4, <2>1 DEF Measured
<1> QED BY <1>3, <1>4

\* So do the candidates of a request,
LEMMA DiscoveredIsTruthful ==
  ASSUME NEW p \in Package, p \notin Internal, NEW answer \in FeedAnswers(p)
  PROVE  Truthful(p, Discover(p, answer), answer)
<1>1. Listed(p) \subseteq Offered(p) \cap Version
  BY DEF Offered, Listed
<1>2. DOMAIN [v \in Listed(p) |-> released[p][v]] \subseteq Offered(p) \cap Version
  BY <1>1
<1> QED BY <1>2, AnnotatedIsTruthful DEF Discover

\* and those of an evaluation.
LEMMA CandidatesAreTruthful ==
  ASSUME NEW p \in Package, NEW track \in Track, NEW answer \in FeedAnswers(p)
  PROVE  /\ Truthful(p, CandidatesFor(p, track, answer), answer)
         /\ DOMAIN CandidatesFor(p, track, answer)
              = IF p \in Internal THEN {track.current} ELSE Listed(p)
<1>1. CASE p \in Internal
  <2>1. {track.current} \subseteq Offered(p) \cap Version
    BY <1>1 DEF Offered, Track
  <2>2. DOMAIN [v \in {track.current} |-> track.releasedAt] = {track.current}
    OBVIOUS
  <2>3. Truthful(p, Refresh(p, track, answer), answer)
    BY <2>1, <2>2, AnnotatedIsTruthful DEF Refresh
  <2>4. DOMAIN Refresh(p, track, answer) = {track.current}
    BY DEF Refresh, Annotate
  <2> QED BY <1>1, <2>3, <2>4 DEF CandidatesFor
<1>2. CASE p \notin Internal
  <2>1. DOMAIN Discover(p, answer) = Listed(p)
    BY DEF Discover, Annotate
  <2> QED BY <1>2, <2>1, DiscoveredIsTruthful DEF CandidatesFor
<1> QED BY <1>1, <1>2

\* maintain: the outcome and the advisory of a track whose version is on offer
\* are those of the moment, its advisory stands while nothing is measured, and
\* it is deprecated for want of a fix when the advisory is old enough.
LEMMA MaintainedAdvisory ==
  ASSUME NEW track \in Track, NEW prefix \in Prefix, NEW t \in Day,
         NEW cands, IsDatedOffer(cands)
  PROVE  LET kept == Maintain(track, prefix, cands, t)
         IN  /\ kept.current = track.current
             /\ track.current \in DOMAIN cands =>
                  kept.outcome = cands[track.current].outcome
             /\ kept.advisory =
                  IF track.current \in DOMAIN cands /\ Measured(cands[track.current].outcome)
                  THEN AdvisoryOn(track, prefix, cands, t) ELSE track.advisory
             /\ (track.deprecated = None /\ kept.deprecated # None
                 /\ kept.deprecated.reason = "no-fix")
                  => kept.advisory # None /\ t - kept.advisory.since > DeprecateAfterDays
<1> DEFINE advised    == MaintainAdvisory(track, prefix, cands, t)
           successor  == HasSuccessor(prefix, cands)
           last       == LastRelease(prefix, cands)
           deprecated == EvaluateDeprecation(advised, successor, last, t)
           aged       == [advised EXCEPT !.deprecated = deprecated]
           quiet      == EvaluateQuiet(aged, successor, last, t)
           kept       == Maintain(track, prefix, cands, t)
           advisory   == IF track.current \in DOMAIN cands
                            /\ Measured(cands[track.current].outcome)
                         THEN AdvisoryOn(track, prefix, cands, t) ELSE track.advisory
<1>1. advised \in Track /\ advised.current = track.current
  BY AdvisedTrack
<1>2. /\ advised.advisory = advisory
      /\ advised.deprecated = track.deprecated
      /\ track.current \in DOMAIN cands => advised.outcome = cands[track.current].outcome
  BY DEF MaintainAdvisory, Track
<1>3. kept = [aged EXCEPT !.quietSince = quiet]
  BY DEF Maintain, MaintainWindows
<1>4. /\ kept.current = advised.current /\ kept.outcome = advised.outcome
      /\ kept.advisory = advised.advisory /\ kept.deprecated = deprecated
  <2> HIDE DEF advised, deprecated, quiet
  <2> QED BY <1>1, <1>3 DEF Track
<1>5. (advised.deprecated = None /\ deprecated # None /\ deprecated.reason = "no-fix")
        => advised.advisory # None /\ t - advised.advisory.since > DeprecateAfterDays
  <2> HIDE DEF advised, successor, last
  <2> QED BY DEF EvaluateDeprecation
<1> HIDE DEF advised, kept, advisory, deprecated
<1> QED BY <1>1, <1>2, <1>4, <1>5 DEF kept, advisory

\* advance and an upgrade leave the advisory as it is, and an upgrade moves to
\* what it adopts.
LEMMA MovesKeepAdvisory ==
  ASSUME NEW track \in Track \cup {NewTrack}, NEW v, NEW cands, NEW p, NEW verdict
  PROVE  /\ Advance(track, v, cands).advisory = track.advisory
         /\ Upgraded(p, track, verdict, cands).advisory = track.advisory
         /\ Upgraded(p, track, verdict, cands).current
              = IF verdict.code = "adopted" THEN verdict.adopted ELSE track.current
<1>1. Advance(track, v, cands).advisory = track.advisory
  BY DEF Advance, Track, NewTrack
<1>2. /\ Advance(track, verdict.adopted, cands).advisory = track.advisory
      /\ Advance(track, verdict.adopted, cands).current = verdict.adopted
  BY DEF Advance, Track, NewTrack
<1>3. /\ [track EXCEPT !.current = verdict.adopted].advisory = track.advisory
      /\ [track EXCEPT !.current = verdict.adopted].current = verdict.adopted
  BY DEF Track, NewTrack
<1> QED BY <1>1, <1>2, <1>3 DEF Upgraded

\* processAll: what a run was told of a track, what it makes of it, and what it
\* reports.
LEMMA EvaluatedTrack ==
  ASSUME TypeOK, NEW k \in TrackKey, EvaluateTrack(k)
  PROVE  \E answer \in FeedAnswers(k[1]) :
           LET track   == snapshot[k]
               cands   == CandidatesFor(k[1], track, answer)
               verdict == EvaluateUpgrade(track, k[2], cands, k[1] \in Internal, at)
               moved   == Upgraded(k[1], track, verdict, cands)
           IN  /\ IsDatedOffer(cands)
               /\ Truthful(k[1], cands, answer)
               /\ DOMAIN cands = IF k[1] \in Internal THEN {track.current} ELSE Listed(k[1])
               /\ track \in Track
               /\ moved \in Track
               /\ moved.current = IF verdict.code = "adopted" THEN verdict.adopted
                                  ELSE track.current
               /\ verdict.code = "adopted" => verdict.adopted \in DOMAIN cands
               /\ moved.advisory = track.advisory
               /\ moved.deprecated = track.deprecated
               /\ index'[k] = Maintain(moved, k[2], cands, at)
               /\ OwesNote(track, cands) => k \in unmeasured'
<1>1. k[1] \in Package /\ k[2] \in Prefix
  BY DEF TrackKey
<1>2. snapshot[k] \in Track /\ at \in Day
  BY DEF EvaluateTrack, Leave, TypeOK
<1> DEFINE track == snapshot[k]
<1>3. PICK answer \in FeedAnswers(k[1]) :
        LET cands   == CandidatesFor(k[1], track, answer)
            verdict == EvaluateUpgrade(track, k[2], cands, k[1] \in Internal, at)
        IN  /\ index' = [index EXCEPT ![k] =
                           Maintain(Upgraded(k[1], track, verdict, cands), k[2], cands, at)]
            /\ unmeasured' = IF OwesNote(track, cands) THEN unmeasured \cup {k} ELSE unmeasured
  BY DEF EvaluateTrack
<1> DEFINE cands   == CandidatesFor(k[1], track, answer)
           verdict == EvaluateUpgrade(track, k[2], cands, k[1] \in Internal, at)
           moved   == Upgraded(k[1], track, verdict, cands)
<1>4. IsDatedOffer(cands)
  BY <1>1, <1>2, CandidatesAreDatedOffer
<1>5. /\ Truthful(k[1], cands, answer)
      /\ DOMAIN cands = IF k[1] \in Internal THEN {track.current} ELSE Listed(k[1])
  BY <1>1, <1>2, CandidatesAreTruthful
<1>6. /\ index'[k] = Maintain(moved, k[2], cands, at)
      /\ OwesNote(track, cands) => k \in unmeasured'
  BY <1>3 DEF TypeOK
<1> HIDE DEF track, cands
<1>7. verdict.code = "adopted" => verdict.adopted \in DOMAIN cands
  BY <1>1, <1>4, UpgradeMovesForwardAndSafely DEF IsDatedOffer
<1>8. moved \in Track
  BY <1>1, <1>2, <1>4, UpgradedTrack DEF track
<1>9. track \in Track
  BY <1>2 DEF track
<1> HIDE DEF verdict
<1>10. /\ moved.current = IF verdict.code = "adopted" THEN verdict.adopted ELSE track.current
       /\ moved.advisory = track.advisory
       /\ moved.deprecated = track.deprecated
  BY <1>9, MovesKeepAdvisory, MovesKeepMarks
<1> HIDE DEF moved
<1>11. /\ IsDatedOffer(cands)
       /\ Truthful(k[1], cands, answer)
       /\ DOMAIN cands = IF k[1] \in Internal THEN {track.current} ELSE Listed(k[1])
       /\ track \in Track
       /\ moved \in Track
       /\ moved.current = IF verdict.code = "adopted" THEN verdict.adopted ELSE track.current
       /\ verdict.code = "adopted" => verdict.adopted \in DOMAIN cands
       /\ moved.advisory = track.advisory
       /\ moved.deprecated = track.deprecated
       /\ index'[k] = Maintain(moved, k[2], cands, at)
       /\ OwesNote(track, cands) => k \in unmeasured'
  BY <1>4, <1>5, <1>6, <1>7, <1>8, <1>9, <1>10
<1> USE DEF track, cands, verdict, moved
<1> QED BY <1>11, Zenon

\* What looks like a fix in measured candidates is one in what the feed may say.
LEMMA FixIsRead ==
  ASSUME NEW k \in TrackKey, NEW cands, NEW answer, Truthful(k[1], cands, answer),
         NEW v \in DOMAIN cands, NEW w \in DOMAIN cands, Measured(cands[w].outcome),
         v \in Line[k[2]], Rank[v] > Rank[w], Safer(cands[v].vulns, cands[w].vulns)
  PROVE  Fixes(k, v, w)
<1>1. answer.reach = "answered"
  BY DEF Truthful
<1>2. v \in Offered(k[1])
  BY DEF Truthful
<1>3. cands[v].vulns \in VulnsRead(k[1], v) /\ cands[w].vulns \in VulnsRead(k[1], w)
  BY <1>1 DEF Truthful, VulnsRead
<1> QED BY <1>2, <1>3 DEF Fixes

\* maintain, told of the version the track stands on: where that is measured the
\* advisory says what the feed said and is missing only if there is nothing to say
\* or a fix to move to; where it is not the advisory stands.
LEMMA AdvisedTruly ==
  ASSUME NEW p \in Package, NEW answer, NEW moved \in Track, NEW prefix \in Prefix,
         NEW cands, IsDatedOffer(cands), Truthful(p, cands, answer),
         NEW t \in Day, moved.current \in DOMAIN cands
  PROVE  LET kept == Maintain(moved, prefix, cands, t)
             told == Told(p, moved.current, answer)
         IN  /\ Measured(kept.outcome) =>
                  /\ Measured(cands[moved.current].outcome)
                  /\ told \in Readings(p, moved.current)
                  /\ kept.outcome = "findings" => told.vulns # Clean
                  /\ kept.advisory = None =>
                       told.vulns = Clean \/ FixExists(moved, prefix, cands)
                  /\ kept.advisory # None =>
                       /\ told.vulns # Clean
                       /\ kept.advisory.severity = Ceiling(told)
                       /\ kept.advisory.since =
                            IF told.publishedAt = None THEN t ELSE told.publishedAt
             /\ ~ Measured(kept.outcome) => kept.advisory = moved.advisory
<1> DEFINE kept  == Maintain(moved, prefix, cands, t)
           w     == moved.current
           facts == cands[w]
           told  == Told(p, w, answer)
<1>1. /\ kept.outcome = facts.outcome
      /\ kept.advisory = IF Measured(facts.outcome) THEN AdvisoryOn(moved, prefix, cands, t)
                         ELSE moved.advisory
  BY MaintainedAdvisory
<1>2. Measured(facts.outcome) =>
        /\ told \in Readings(p, w)
        /\ facts.vulns = told.vulns
        /\ facts.publishedAt = told.publishedAt
        /\ Ceiling(facts) = Ceiling(told)
        /\ facts.outcome = IF told.vulns = Clean THEN "clean" ELSE "findings"
  BY DEF Truthful
<1>3. LET advisory == AdvisoryOn(moved, prefix, cands, t)
      IN  IF facts.vulns = Clean \/ FixExists(moved, prefix, cands) THEN advisory = None
          ELSE /\ advisory.severity = Ceiling(facts)
               /\ advisory.since = IF facts.publishedAt = None THEN t ELSE facts.publishedAt
  BY DEF AdvisoryOn
<1>4. facts.vulns # Clean /\ ~ FixExists(moved, prefix, cands)
        => AdvisoryOn(moved, prefix, cands, t) # None
  <2> DEFINE since == IF facts.publishedAt = None THEN t ELSE facts.publishedAt
  <2>1. since \in Day
    BY DatedFacts
  <2>2. Ceiling(facts) \in Severities
    BY DEF Ceiling, Severities, Worst, Severity
  <2>3. facts.vulns # Clean /\ ~ FixExists(moved, prefix, cands)
          => AdvisoryOn(moved, prefix, cands, t) = [severity |-> Ceiling(facts), since |-> since]
    BY DEF AdvisoryOn
  <2> HIDE DEF since, facts
  <2>4. [severity |-> Ceiling(facts), since |-> since] \in Advisory
    BY <2>1, <2>2 DEF Advisory
  <2> QED BY <2>3, <2>4, NoneAssumption
<1> HIDE DEF kept, facts, told
<1>5. ASSUME Measured(kept.outcome)
      PROVE  /\ Measured(facts.outcome)
             /\ told \in Readings(p, w)
             /\ kept.outcome = "findings" => told.vulns # Clean
             /\ kept.advisory = None => told.vulns = Clean \/ FixExists(moved, prefix, cands)
             /\ kept.advisory # None =>
                  /\ told.vulns # Clean
                  /\ kept.advisory.severity = Ceiling(told)
                  /\ kept.advisory.since =
                       IF told.publishedAt = None THEN t ELSE told.publishedAt
  <2>1. Measured(facts.outcome) /\ kept.advisory = AdvisoryOn(moved, prefix, cands, t)
    BY <1>1, <1>5
  <2> QED BY <1>1, <1>2, <1>3, <1>4, <2>1
<1>6. ~ Measured(kept.outcome) => kept.advisory = moved.advisory
  BY <1>1
<1> QED BY <1>5, <1>6 DEF kept, facts, told

\* An evaluation whose outcome is a finding leaves an advisory, or a pre-release
\* is the fix: fixExists counts those, and EvaluateUpgrade does not move to them.
\* What the advisory says of the version the track is left on is what the feed
\* may say of it.
LEMMA EvaluatedTruly ==
  ASSUME TypeOK, NEW k \in TrackKey, EvaluateTrack(k),
         index'[k].current \in Offered(k[1]), Measured(index'[k].outcome)
  PROVE  LET current == index'[k].current
         IN  /\ index'[k].advisory # None =>
                  \E read \in Readings(k[1], current) :
                    read.vulns # Clean /\ index'[k].advisory.severity = Ceiling(read)
             /\ (index'[k].outcome = "findings" /\ index'[k].advisory = None) =>
                  \E v \in Prerelease : Fixes(k, v, current)
<1>1. k[1] \in Package /\ k[2] \in Prefix /\ at \in Day
  BY DEF TrackKey, TypeOK
<1> DEFINE p == k[1]
           track == snapshot[k]
           cands(a)   == CandidatesFor(k[1], track, a)
           verdict(a) == EvaluateUpgrade(track, k[2], cands(a), k[1] \in Internal, at)
           moved(a)   == Upgraded(k[1], track, verdict(a), cands(a))
<1>2. PICK answer \in FeedAnswers(p) :
        /\ IsDatedOffer(cands(answer))
        /\ Truthful(k[1], cands(answer), answer)
        /\ DOMAIN cands(answer) = IF k[1] \in Internal THEN {track.current} ELSE Listed(k[1])
        /\ track \in Track
        /\ moved(answer) \in Track
        /\ moved(answer).current = IF verdict(answer).code = "adopted"
                                   THEN verdict(answer).adopted ELSE track.current
        /\ verdict(answer).code = "adopted"
             => verdict(answer).adopted \in DOMAIN cands(answer)
        /\ index'[k] = Maintain(moved(answer), k[2], cands(answer), at)
  BY EvaluatedTrack
<1> DEFINE offer == cands(answer)
           given == verdict(answer)
           after == moved(answer)
           told  == Told(k[1], after.current, answer)
<1> HIDE DEF cands, verdict, moved
<1>3. index'[k].current = after.current
  BY <1>1, <1>2, MaintainedTrack
<1>4. after.current \in DOMAIN offer
  BY <1>2, <1>3 DEF Offered
<1>5. /\ Measured(offer[after.current].outcome)
      /\ told \in Readings(k[1], after.current)
      /\ index'[k].outcome = "findings" => told.vulns # Clean
      /\ index'[k].advisory = None => told.vulns = Clean \/ FixExists(after, k[2], offer)
      /\ index'[k].advisory # None =>
           told.vulns # Clean /\ index'[k].advisory.severity = Ceiling(told)
  BY <1>1, <1>2, <1>4, AdvisedTruly
<1>6. ASSUME FixExists(after, k[2], offer)
      PROVE  \E v \in Prerelease : Fixes(k, v, after.current)
  <2>1. PICK v \in DOMAIN offer :
          /\ v \in Line[k[2]]
          /\ Rank[v] > Rank[after.current]
          /\ Safer(offer[v].vulns, offer[after.current].vulns)
    BY <1>6 DEF FixExists
  <2>2. Fixes(k, v, after.current)
    BY <1>2, <1>4, <1>5, <2>1, FixIsRead
  <2>3. after.current = IF given.code = "adopted" THEN given.adopted ELSE track.current
    BY <1>2
  <2>4. track.vulns \in Vector /\ track.current \in Version
    BY <1>2, TrackFields
  <2>5. \A w \in Newer(track, k[2], offer, k[1] \in Internal) :
          Rank[w] > Rank[after.current] => ~ Safer(offer[w].vulns, offer[after.current].vulns)
    BY <1>1, <1>2, <1>4, <2>3, <2>4, UpgradesLeaveNoFixBehind
       DEF IsDatedOffer, CurrentVector, verdict, cands
  <2>6. v \notin Newer(track, k[2], offer, k[1] \in Internal)
    BY <2>1, <2>5
  <2>7. Rank[v] > Rank[track.current]
    <3>1. Rank[after.current] >= Rank[track.current]
      BY <1>1, <1>2, UpgradedTrack DEF moved, verdict
    <3>2. Rank[v] \in Int /\ Rank[after.current] \in Int /\ Rank[track.current] \in Int
      BY <1>2, <1>4, <2>1, <2>4, DatedFacts, RankIsInteger
    <3> QED BY <2>1, <3>1, <3>2
  <2>8. v \in Prerelease
    BY <2>1, <2>6, <2>7 DEF Newer
  <2> QED BY <2>2, <2>8
<1>7. index'[k].advisory # None =>
        \E read \in Readings(k[1], index'[k].current) :
          read.vulns # Clean /\ index'[k].advisory.severity = Ceiling(read)
  BY <1>3, <1>5
<1>8. (index'[k].outcome = "findings" /\ index'[k].advisory = None) =>
        \E v \in Prerelease : Fixes(k, v, index'[k].current)
  BY <1>3, <1>5, <1>6
<1> QED BY <1>7, <1>8

\* The advisory of a track that an evaluation has measured speaks of the version
\* the track stands on.  This holds of every step, whatever was published,
\* yanked or written in between.
THEOREM AdvisoriesSpeakOfCurrent ==
  Spec => AdvisoriesFollowCurrent
<1>1. TypeOK /\ [Next]_vars
        => [\A k \in TrackKey :
              (/\ EvaluateTrack(k)
               /\ Measured(index'[k].outcome)
               /\ index'[k].current \in Offered(k[1])
               /\ index'[k].advisory # None) =>
                \E read \in Readings(k[1], index'[k].current) :
                  /\ read.vulns # Clean
                  /\ index'[k].advisory.severity =
                       IF read.classified THEN Worst(read.vulns) ELSE "unknown"]_vars
  <2> SUFFICES ASSUME TypeOK, NEW k \in TrackKey, EvaluateTrack(k),
                      Measured(index'[k].outcome),
                      index'[k].current \in Offered(k[1]),
                      index'[k].advisory # None
               PROVE  \E read \in Readings(k[1], index'[k].current) :
                        /\ read.vulns # Clean
                        /\ index'[k].advisory.severity =
                             IF read.classified THEN Worst(read.vulns) ELSE "unknown"
    OBVIOUS
  <2> QED BY EvaluatedTruly, Zenon DEF Ceiling
<1> QED BY <1>1, TypeCorrect, PTL DEF Spec, AdvisoriesFollowCurrent

\* An evaluation that measures a vulnerability leaves an advisory, or a
\* pre-release is what clears it: one counts as a fix and is not moved to.
THEOREM VulnerableAreAdvised ==
  Spec => VulnerableTracksAreAdvised
<1>1. TypeOK /\ [Next]_vars => [\A k \in TrackKey : AdvisedIfVulnerable(k)]_vars
  <2> SUFFICES ASSUME TypeOK, NEW k \in TrackKey, EvaluateTrack(k),
                      index'[k].outcome = "findings",
                      index'[k].current \in Offered(k[1])
               PROVE  \/ index'[k].advisory # None
                      \/ \E v \in Prerelease : Fixes(k, v, index'[k].current)
    BY DEF AdvisedIfVulnerable
  <2>1. Measured(index'[k].outcome)
    BY DEF Measured
  <2> QED BY <2>1, EvaluatedTruly
<1> QED BY <1>1, TypeCorrect, PTL DEF Spec, VulnerableTracksAreAdvised

\* An evaluation names the track it leaves without a measurement.  The note is
\* about the version the track stood on, which must still be on offer; the one it
\* moves to was told of by the same answer.
LEMMA OfferedIsNamed ==
  ASSUME BackedInv, NEW k \in TrackKey, StillOffered(k)
  PROVE  NamedIfUnmeasured(k)
<1> SUFFICES ASSUME EvaluateTrack(k), ~ Measured(index'[k].outcome)
             PROVE  k \in unmeasured'
  BY DEF NamedIfUnmeasured
<1>1. k[1] \in Package /\ k[2] \in Prefix /\ at \in Day
  BY DEF TrackKey, BackedInv, TypeOK
<1> DEFINE track == snapshot[k]
           cands(a)   == CandidatesFor(k[1], track, a)
           verdict(a) == EvaluateUpgrade(track, k[2], cands(a), k[1] \in Internal, at)
           moved(a)   == Upgraded(k[1], track, verdict(a), cands(a))
<1>2. PICK answer \in FeedAnswers(k[1]) :
        /\ IsDatedOffer(cands(answer))
        /\ Truthful(k[1], cands(answer), answer)
        /\ DOMAIN cands(answer) = IF k[1] \in Internal THEN {track.current} ELSE Listed(k[1])
        /\ moved(answer) \in Track
        /\ moved(answer).current = IF verdict(answer).code = "adopted"
                                   THEN verdict(answer).adopted ELSE track.current
        /\ verdict(answer).code = "adopted"
             => verdict(answer).adopted \in DOMAIN cands(answer)
        /\ index'[k] = Maintain(moved(answer), k[2], cands(answer), at)
        /\ OwesNote(track, cands(answer)) => k \in unmeasured'
  BY EvaluatedTrack DEF BackedInv
<1> DEFINE offer == cands(answer)
           after == moved(answer)
<1>3. track.current \in DOMAIN offer
  <2>1. CASE k[1] \in Internal
    BY <1>2, <2>1
  <2>2. CASE k[1] \notin Internal
    <3>1. snapshot[k] # None
      BY DEF EvaluateTrack, Leave
    <3>2. index[k] = track
      BY <2>2, <3>1 DEF BackedInv
    <3>3. track.current \in Listed(k[1])
      BY <2>2, <3>1, <3>2 DEF StillOffered, Offered
    <3> QED BY <1>2, <2>2, <3>3
  <2> QED BY <2>1, <2>2
<1> HIDE DEF cands, verdict, moved
<1>4. after.current \in DOMAIN offer
  BY <1>2, <1>3
<1>5. index'[k].outcome = offer[after.current].outcome
  BY <1>1, <1>2, <1>4, MaintainedAdvisory
<1>6. ~ Measured(offer[track.current].outcome)
  BY <1>2, <1>3, <1>4, <1>5 DEF Truthful
<1> QED BY <1>2, <1>3, <1>6 DEF OwesNote

\* Every track left so is named, unless it stood on a version that upstream took
\* back.
THEOREM UnmeasuredAreNamed ==
  ASSUME Publishable \subseteq Internal
  PROVE  Spec => UnmeasuredTracksAreNamed
<1>1. BackedInv /\ [Next]_vars
        => [\A k \in TrackKey : StillOffered(k) => NamedIfUnmeasured(k)]_vars
  BY OfferedIsNamed
<1> QED BY <1>1, BackedInvariant, PTL DEF Spec, UnmeasuredTracksAreNamed

\* Track k is written as maintain makes it, from what the feed said and from a
\* track that carries the marks track k carried.
Maintains(k, moved, cands, answer) ==
  /\ moved \in Track
  /\ IsDatedOffer(cands)
  /\ Truthful(k[1], cands, answer)
  /\ IF index[k] = None THEN moved.advisory = None /\ moved.deprecated = None
     ELSE moved.advisory = index[k].advisory /\ moved.deprecated = index[k].deprecated
  /\ \/ moved.current \in DOMAIN cands
     \/ /\ k[1] \notin Internal
        /\ index[k] # None
        /\ moved.current = index[k].current
        /\ DOMAIN cands = Listed(k[1])
  /\ index'[k] = Maintain(moved, k[2], cands, at)

\* admit writes so,
LEMMA AdmitMaintains ==
  ASSUME TypeOK, NEW p \in Package, NEW cands, IsDatedOffer(cands),
         NEW answer, Truthful(p, cands, answer),
         NEW verdict, verdict.adopted \in DOMAIN cands, verdict.track \in Prefix,
         index' = Admit(p, verdict, cands),
         NEW k \in TrackKey, index'[k] # index[k]
  PROVE  \E moved : Maintains(k, moved, cands, answer)
<1> DEFINE q     == <<p, verdict.track>>
           from  == IF index[q] = None THEN NewTrack ELSE index[q]
           ahead == Advance(from, verdict.adopted, cands)
           kept  == Maintain(ahead, verdict.track, cands, at)
<1>1. q \in TrackKey /\ index \in [TrackKey -> Track \cup {None}]
  BY DEF TypeOK, TrackKey
<1>2. from \in Track \cup {NewTrack}
  BY <1>1
<1>3. Admit(p, verdict, cands) \in {index, [index EXCEPT ![q] = kept]}
  BY DEF Admit
<1>4. k = q /\ index'[k] = kept
  <2> HIDE DEF kept
  <2> QED BY <1>1, <1>3
<1>5. IF index[q] = None THEN from.advisory = None /\ from.deprecated = None
      ELSE from.advisory = index[q].advisory /\ from.deprecated = index[q].deprecated
  BY DEF NewTrack
<1> HIDE DEF from
<1>6. /\ ahead \in Track
      /\ ahead.current = verdict.adopted
      /\ ahead.advisory = from.advisory
      /\ ahead.deprecated = from.deprecated
  <2>1. ahead \in Track /\ ahead.current = verdict.adopted
    BY <1>2, AdvancedTrack
  <2>2. ahead.advisory = from.advisory
    BY <1>2, MovesKeepAdvisory
  <2>3. ahead.deprecated = from.deprecated
    BY <1>2, MovesKeepMarks
  <2> QED BY <2>1, <2>2, <2>3
<1>7. k[1] = p /\ k[2] = verdict.track
  BY <1>4
<1> HIDE DEF ahead, q
<1>8. Maintains(k, ahead, cands, answer)
  BY <1>4, <1>5, <1>6, <1>7 DEF Maintains
<1> QED BY <1>8

\* and so does every step from a true copy, unless it is a publish.
LEMMA SettledWrites ==
  ASSUME TypeOK, CopiesInv, [Next]_vars,
         NEW k \in TrackKey, Settled(k), index'[k] # index[k]
  PROVE  \/ Renews(k)
         \/ \E answer : \E cands : \E moved : Maintains(k, moved, cands, answer)
<1>1. ASSUME NEW r \in pending, Answer(r)
      PROVE  \E answer : \E cands : \E moved : Maintains(k, moved, cands, answer)
  <2>1. r \in Request /\ r.pkg \in Package
    BY DEF TypeOK, Request
  <2>2. r.pkg \notin Internal
    BY <1>1, RegisterAssumption DEF Answer, Answerable
  <2>3. PICK answer \in FeedAnswers(r.pkg) :
          /\ decided' = VerdictOn(r, Discover(r.pkg, answer))
          /\ index' = IF decided'.code = "adopted"
                      THEN Admit(r.pkg, decided', Discover(r.pkg, answer)) ELSE index
    BY <1>1 DEF Answer
  <2> DEFINE cands == Discover(r.pkg, answer)
  <2>4. IsDatedOffer(cands) /\ Truthful(r.pkg, cands, answer)
    BY <2>1, <2>2, DiscoveredIsDatedOffer, DiscoveredIsTruthful
  <2>5. decided'.code = "adopted" /\ index' = Admit(r.pkg, decided', cands)
    BY <2>3
  <2>6. decided' = VerdictOn(r, cands)
    BY <2>3
  <2> HIDE DEF cands
  <2>7. decided'.adopted \in DOMAIN cands /\ decided'.track \in Prefix
    BY <2>1, <2>4, <2>5, <2>6, VerdictOnRequest
  <2> QED BY <2>1, <2>4, <2>5, <2>7, AdmitMaintains
<1>2. ASSUME EvaluateTrack(k)
      PROVE  \E answer : \E cands : \E moved : Maintains(k, moved, cands, answer)
  <2>1. index[k] = snapshot[k] /\ snapshot[k] # None
    BY <1>2 DEF EvaluateTrack, Leave, Settled
  <2> DEFINE track == snapshot[k]
             cands(a)   == CandidatesFor(k[1], track, a)
             verdict(a) == EvaluateUpgrade(track, k[2], cands(a), k[1] \in Internal, at)
             moved(a)   == Upgraded(k[1], track, verdict(a), cands(a))
  <2>2. PICK answer \in FeedAnswers(k[1]) :
          /\ IsDatedOffer(cands(answer))
          /\ Truthful(k[1], cands(answer), answer)
          /\ DOMAIN cands(answer) = IF k[1] \in Internal THEN {track.current} ELSE Listed(k[1])
          /\ moved(answer) \in Track
          /\ moved(answer).current = IF verdict(answer).code = "adopted"
                                     THEN verdict(answer).adopted ELSE track.current
          /\ verdict(answer).code = "adopted"
               => verdict(answer).adopted \in DOMAIN cands(answer)
          /\ moved(answer).advisory = track.advisory
          /\ moved(answer).deprecated = track.deprecated
          /\ index'[k] = Maintain(moved(answer), k[2], cands(answer), at)
    BY <1>2, EvaluatedTrack
  <2> HIDE DEF cands, verdict, moved
  <2>3. \/ moved(answer).current \in DOMAIN cands(answer)
        \/ /\ k[1] \notin Internal
           /\ moved(answer).current = index[k].current
           /\ DOMAIN cands(answer) = Listed(k[1])
    BY <2>1, <2>2
  <2>4. Maintains(k, moved(answer), cands(answer), answer)
    BY <2>1, <2>2, <2>3 DEF Maintains
  <2> QED BY <2>4
<1>3. CASE Publish
  BY <1>3, PublishRenews
<1> QED BY <1>1, <1>2, <1>3, WritersOfATrack

\* An advisory disappears only when the feed calls the version clean or knows of
\* a fix: an outage, a request, a yank, a publish withdraws none.
LEMMA SettledEvidence ==
  ASSUME TypeOK, CopiesInv, [Next]_vars, NEW k \in TrackKey, Settled(k)
  PROVE  WithdrawnOnEvidence(k)
<1> SUFFICES ASSUME index[k] # None, index[k].advisory # None, index'[k].advisory = None
             PROVE  LET current == index'[k].current
                    IN  \/ Vulns(k[1], current) = Clean
                        \/ \E v \in Version : Fixes(k, v, current)
  BY DEF WithdrawnOnEvidence
<1>1. PICK answer, cands, moved : Maintains(k, moved, cands, answer)
  BY SettledWrites DEF Renews
<1>2. /\ k[1] \in Package /\ k[2] \in Prefix /\ at \in Day
      /\ moved \in Track /\ IsDatedOffer(cands) /\ Truthful(k[1], cands, answer)
      /\ index'[k] = Maintain(moved, k[2], cands, at)
      /\ moved.advisory # None
  BY <1>1 DEF Maintains, TrackKey, TypeOK
<1>3. moved.current \in DOMAIN cands /\ index'[k].current = moved.current
  BY <1>2, MaintainedAdvisory
<1>4. Measured(index'[k].outcome)
  BY <1>2, <1>3, AdvisedTruly
<1> DEFINE told == Told(k[1], moved.current, answer)
<1>5. /\ Measured(cands[moved.current].outcome)
      /\ told \in Readings(k[1], moved.current)
      /\ told.vulns = Clean \/ FixExists(moved, k[2], cands)
  BY <1>2, <1>3, <1>4, AdvisedTruly
<1>6. CASE told.vulns = Clean
  <2> HIDE DEF told
  <2>1. moved.current \in Version
    BY <1>2, TrackFields
  <2> QED BY <1>2, <1>3, <1>5, <1>6, <2>1, ReadingsAgree
<1>7. CASE FixExists(moved, k[2], cands)
  <2>1. PICK v \in DOMAIN cands :
          /\ v \in Line[k[2]]
          /\ Rank[v] > Rank[moved.current]
          /\ Safer(cands[v].vulns, cands[moved.current].vulns)
    BY <1>7 DEF FixExists
  <2>2. v \in Version
    BY <1>2, <2>1, DatedFacts
  <2> QED BY <1>2, <1>3, <1>5, <2>1, <2>2, FixIsRead
<1> QED BY <1>5, <1>6, <1>7

\* No advisory on a package nobody publishes is withdrawn for another reason,
\* whatever is published beside it.
THEOREM WithdrawalsNeedEvidence ==
  Spec => AdvisoriesAreWithdrawnOnEvidence
<1> DEFINE Inv == \A k \in TrackKey : k[1] \notin Publishable => Settled(k)
<1>1. TypeOK /\ CopiesInv /\ Inv /\ [Next]_vars
        => [\A k \in TrackKey : k[1] \notin Publishable => WithdrawnOnEvidence(k)]_vars
  BY SettledEvidence
<1>2. Spec => []Inv
  BY UnpublishedTracksAreSettled
<1> QED
  BY <1>1, <1>2, TypeCorrect, CopiesInvariant, PTL DEF Spec, AdvisoriesAreWithdrawnOnEvidence

\* A track is deprecated for want of a fix only when the finding on its version
\* is known to be old enough.  The version must still be on offer: an advisory
\* on one that was taken back ages on, and speaks of a finding nobody looks up.
LEMMA SettledNoFix ==
  ASSUME TypeOK, CopiesInv, [Next]_vars,
         NEW k \in TrackKey, Settled(k), StillOffered(k)
  PROVE  NoFixNotEarly(k)
<1> SUFFICES ASSUME index'[k] # None,
                    index'[k].deprecated # None,
                    index'[k].deprecated.reason = "no-fix",
                    Measured(index'[k].outcome),
                    index[k] = None \/ index[k].deprecated = None
             PROVE  LET known == findings[k[1]][index'[k].current]
                    IN  /\ known.vulns # Clean
                        /\ known.publishedAt # None
                        /\ at - known.publishedAt > DeprecateAfterDays
  BY DEF NoFixNotEarly
<1>1. PICK answer, cands, moved : Maintains(k, moved, cands, answer)
  BY SettledWrites DEF Renews
<1>2. /\ k[1] \in Package /\ k[2] \in Prefix /\ at \in Day
      /\ moved \in Track /\ IsDatedOffer(cands) /\ Truthful(k[1], cands, answer)
      /\ index'[k] = Maintain(moved, k[2], cands, at)
      /\ moved.deprecated = None
  BY <1>1 DEF Maintains, TrackKey, TypeOK
<1>3. moved.current \in DOMAIN cands
  BY <1>1 DEF Maintains, StillOffered, Offered
<1>4. /\ index'[k].current = moved.current
      /\ index'[k].advisory # None
      /\ at - index'[k].advisory.since > DeprecateAfterDays
  BY <1>2, MaintainedAdvisory
<1> DEFINE told == Told(k[1], moved.current, answer)
<1>5. /\ told \in Readings(k[1], moved.current)
      /\ told.vulns # Clean
      /\ index'[k].advisory.since = IF told.publishedAt = None THEN at ELSE told.publishedAt
  BY <1>2, <1>3, <1>4, AdvisedTruly
<1> HIDE DEF told
<1>6. told.publishedAt # None
  <2>1. DeprecateAfterDays \in Nat /\ at \in Int /\ ~ (at - at > DeprecateAfterDays)
    BY <1>2, ParamsAssumption, RegisterAssumption DEF Day
  <2> QED BY <1>4, <1>5, <2>1
<1> DEFINE known == findings[k[1]][moved.current]
<1>7. known.vulns # Clean /\ known.publishedAt = told.publishedAt
  <2>1. moved.current \in Version
    BY <1>2, TrackFields
  <2> QED BY <1>2, <1>5, <2>1, ReadingsAgree DEF Vulns
<1> QED BY <1>4, <1>5, <1>6, <1>7

\* No step that writes a track from a true copy deprecates it for want of a fix
\* too early, as long as its version is on offer.
THEOREM NoFixTakesItsTime ==
  Spec => NoFixIsNotEarly
<1>1. TypeOK /\ CopiesInv /\ [Next]_vars
        => [\A k \in TrackKey : (StillOffered(k) /\ Settled(k)) => NoFixNotEarly(k)]_vars
  BY SettledNoFix
<1> QED BY <1>1, TypeCorrect, CopiesInvariant, PTL DEF Spec, NoFixIsNotEarly

-----------------------------------------------------------------------------
(* The pointer.                                                            *)

\* Every step leaves a track whose copies are true at its version or at a later
\* one.
LEMMA SettledForward ==
  ASSUME TypeOK, CopiesInv, [Next]_vars, NEW k \in TrackKey, Settled(k)
  PROVE  MovesForward(k)
<1> SUFFICES ASSUME index[k] # None
             PROVE  index'[k] # None /\ Rank[index'[k].current] >= Rank[index[k].current]
  BY DEF MovesForward
<1>1. Rank[index[k].current] \in Int
  BY TrackFields, RankIsInteger DEF TypeOK
<1>2. CASE index'[k] = index[k]
  BY <1>1, <1>2
<1>3. ASSUME NEW r \in pending, Answer(r)
      PROVE  index'[k] # None /\ Rank[index'[k].current] >= Rank[index[k].current]
  BY <1>3, AnswerStep DEF Forward
<1>4. CASE EvaluateTrack(k)
  <2>1. index[k] = snapshot[k]
    BY <1>4 DEF EvaluateTrack, Leave, Settled
  <2> QED BY <1>4, <2>1, EvaluateStep, EvaluateMarks
<1>5. CASE Publish /\ index'[k] # index[k]
  <2>1. index'[k] # None /\ Rank[index'[k].current] > Rank[index[k].current]
    BY <1>5, PublishRenews DEF Renews
  <2>2. Rank[index'[k].current] \in Int
    BY <1>5, <2>1, NextTypeOK, TrackFields, RankIsInteger DEF TypeOK
  <2> QED BY <1>1, <2>1, <2>2
<1> QED BY <1>2, <1>3, <1>4, <1>5, WritersOfATrack

\* Where the copies of a track are true, writing them back loses nothing: not the
\* version the track has reached, not its deprecation, not its advisory.  That an
\* evaluation or a publish overwrites what it has not seen is the only way to
\* lose them.
THEOREM TrueCopiesSuffice ==
  Spec => TrueCopiesLoseNothing
<1>1. TypeOK /\ CopiesInv /\ [Next]_vars
        => [\A k \in TrackKey :
              Settled(k) => /\ MovesForward(k)
                            /\ DeprecationStands(k)
                            /\ WithdrawnOnEvidence(k)]_vars
  BY SettledForward, SettledStands, SettledEvidence
<1> QED BY <1>1, TypeCorrect, CopiesInvariant, PTL DEF Spec, TrueCopiesLoseNothing

\* No version that a track has reached is lost, as long as no publish runs into
\* an evaluation: that it is lost takes both at once.
THEOREM OnlyARaceGoesBack ==
  ASSUME Publishable \subseteq Internal
  PROVE  Spec /\ []Apart => CurrentOnlyMovesForward
<1> DEFINE Inv == \A k \in TrackKey : Settled(k)
<1>1. TypeOK /\ CopiesInv /\ Inv /\ [Next]_vars
        => [\A k \in TrackKey : MovesForward(k)]_vars
  BY SettledForward
<1>2. Spec /\ []Apart => []Inv
  BY ApartTracksAreSettled
<1> QED BY <1>1, <1>2, TypeCorrect, CopiesInvariant, PTL DEF Spec, CurrentOnlyMovesForward

=============================================================================
