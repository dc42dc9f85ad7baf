----------------------------- MODULE LineProofs -----------------------------
(***************************************************************************)
(* Which tracks there are and where they stand, proved for every value of  *)
(* the constants: which request takes a track out of its line, and which   *)
(* gives a package more finer tracks than its budget.                      *)
(***************************************************************************)
EXTENDS RegisterProofs, FiniteSetTheorems

-----------------------------------------------------------------------------
(* A track holds a version of its line.                                    *)

\* MajorOf and InPrefix agree: a version is in the line of its own major.
MajorsAreLines == \A v \in Version : v \in Line[Major[v]]

\* The verdict on a request that does not name both adopts a version of the line
\* it names.
LEMMA AdoptedInLine ==
  ASSUME MajorsAreLines, NEW r \in Request, NEW cands, IsDatedOffer(cands),
         r.type = "open-track" \/ r.track = None \/ r.version = None,
         VerdictOn(r, cands).code = "adopted"
  PROVE  VerdictOn(r, cands).adopted \in Line[VerdictOn(r, cands).track]
<1>1. /\ r.track \in Prefix \cup {None}
      /\ r.version \in Version \cup {None}
      /\ r.type = "open-track" => r.track \in Prefix
  BY DEF Request
<1>2. IsOffer(cands) /\ DOMAIN cands \subseteq Version
  BY DEF IsDatedOffer, IsOffer
<1>3. \A v \in DOMAIN cands : r.track = None => v \in Line[TrackFor(r, v)]
  BY <1>2 DEF MajorsAreLines, TrackFor
<1>4. CASE r.type = "open-track"
  <2> DEFINE current == DefaultCurrent(r.pkg, cands)
             finer   == Cardinality(FinerTracks(r.pkg))
  <2>1. VerdictOn(r, cands) = EvaluateTrackOpen(r, cands, current, finer, at)
    BY <1>4 DEF VerdictOn
  <2> HIDE DEF current, finer
  <2> QED BY <1>1, <1>2, <1>4, <2>1, OpenedTracksAreWithinBudget
<1>5. CASE r.type # "open-track" /\ r.track = None
  <2>1. VerdictOn(r, cands) = EvaluateAdmission(r, cands, at)
    BY <1>5 DEF VerdictOn
  <2> QED BY <1>1, <1>2, <1>3, <1>5, <2>1, AdmissionIsAdmissible
<1>6. CASE r.type # "open-track" /\ r.track # None /\ r.version = None
  <2> DEFINE any == EvaluateAny(r, cands, at)
  <2>1. VerdictOn(r, cands) = [any EXCEPT !.requested = None]
    BY <1>6 DEF VerdictOn, EvaluateAdmission
  <2>2. /\ any \in Verdict
        /\ any.track = r.track
        /\ any.code = "adopted" => any.adopted \in PoolFor(r, cands)
    BY <1>1, <1>2, <1>6, AnyVerdict
  <2> HIDE DEF any
  <2>3. /\ VerdictOn(r, cands).code = any.code
        /\ VerdictOn(r, cands).track = r.track
        /\ VerdictOn(r, cands).adopted = any.adopted
    BY <2>1, <2>2 DEF Verdict
  <2>4. PoolFor(r, cands) \subseteq Line[r.track]
    BY <1>6 DEF PoolFor
  <2> QED BY <2>2, <2>3, <2>4
<1> QED BY <1>4, <1>5, <1>6

\* answer takes a track to a version of its line, or to one that was asked for
\* beside the track.
LEMMA AnswerInLine ==
  ASSUME MajorsAreLines, TypeOK, NEW r \in pending, Answer(r),
         NEW k \in TrackKey, index'[k] # index[k]
  PROVE  \/ index'[k].current \in Line[k[2]]
         \/ r.pkg = k[1] /\ r.track = k[2] /\ r.version # None
<1>1. r \in Request /\ r.pkg \in Package
  BY DEF TypeOK, Request
<1>2. PICK cands \in {Discover(r.pkg, feed) : feed \in FeedAnswers(r.pkg)} :
        /\ decided' = VerdictOn(r, cands)
        /\ index' = IF decided'.code = "adopted"
                    THEN Admit(r.pkg, decided', cands) ELSE index
  BY DEF Answer
<1>3. IsDatedOffer(cands)
  BY <1>1, DiscoveredIsDatedOffer
<1> DEFINE verdict == VerdictOn(r, cands)
           q       == <<r.pkg, verdict.track>>
<1>4. verdict.code = "adopted" /\ index' = Admit(r.pkg, verdict, cands)
  BY <1>2
<1>5. /\ verdict.adopted \in DOMAIN cands
      /\ verdict.track \in Prefix
      /\ r.track # None => verdict.track = r.track
  BY <1>1, <1>3, <1>4, VerdictOnRequest
<1>6. (r.type = "open-track" \/ r.track = None \/ r.version = None)
        => verdict.adopted \in Line[verdict.track]
  BY <1>1, <1>3, <1>4, AdoptedInLine
<1> HIDE DEF verdict
<1>7. /\ \A j \in TrackKey \ {q} : index'[j] = index[j]
      /\ index'[q].current = verdict.adopted
  BY <1>1, <1>3, <1>4, <1>5, AdmittedIndex
<1>8. k = q
  BY <1>7
<1> QED BY <1>5, <1>6, <1>7, <1>8

\* An evaluation writes the version it read, or one of the line.
LEMMA EvaluateInLine ==
  ASSUME TypeOK, NEW k \in TrackKey, EvaluateTrack(k),
         snapshot[k].current \in Line[k[2]]
  PROVE  index'[k].current \in Line[k[2]]
<1>1. k[1] \in Package /\ k[2] \in Prefix
  BY DEF TrackKey
<1>2. snapshot[k] \in Track /\ snapshot[k] # None /\ at \in Day
  BY DEF EvaluateTrack, Leave, TypeOK
<1> DEFINE track == snapshot[k]
<1>3. PICK cands \in {CandidatesFor(k[1], track, feed) : feed \in FeedAnswers(k[1])} :
        LET verdict == EvaluateUpgrade(track, k[2], cands, k[1] \in Internal, at)
        IN  index' = [index EXCEPT ![k] =
                        Maintain(Upgraded(k[1], track, verdict, cands), k[2], cands, at)]
  BY DEF EvaluateTrack
<1> DEFINE verdict == EvaluateUpgrade(track, k[2], cands, k[1] \in Internal, at)
           moved   == Upgraded(k[1], track, verdict, cands)
           kept    == Maintain(moved, k[2], cands, at)
<1>4. IsDatedOffer(cands)
  BY <1>1, <1>2, CandidatesAreDatedOffer
<1>5. index' = [index EXCEPT ![k] = kept]
  BY <1>3
<1> HIDE DEF track
<1>6. verdict.code = "adopted" => verdict.adopted \in Line[k[2]]
  BY <1>1, <1>4, UpgradeMovesForwardAndSafely DEF IsDatedOffer
<1>7. moved \in Track
  BY <1>1, <1>2, <1>4, UpgradedTrack DEF track
<1> HIDE DEF verdict
<1>8. moved.current = IF verdict.code = "adopted" THEN verdict.adopted ELSE track.current
  BY <1>2 DEF Upgraded, Advance, Track, track
<1> HIDE DEF moved
<1>9. kept.current = moved.current
  BY <1>1, <1>2, <1>4, <1>7, MaintainedTrack
<1> HIDE DEF kept
<1>10. index'[k] = kept
  BY <1>5 DEF TypeOK
<1> QED BY <1>6, <1>8, <1>9, <1>10 DEF track

\* Nobody asks for an internal version by name: their tracks, what was read of
\* them and what is about to be published are in their lines.
Lined(track, k) == track # None => track.current \in Line[k[2]]

InternalInv ==
  /\ \A k \in TrackKey :
       k[1] \in Internal => Lined(index[k], k) /\ Lined(snapshot[k], k)
  /\ publishing # None => publishing.version \in Line[publishing.key[2]]

\* What publish writes stands on the version it publishes.
LEMMA PublishInLine ==
  ASSUME TypeOK, InternalInv, Publish, NEW k \in TrackKey, index'[k] # index[k]
  PROVE  index'[k].current \in Line[k[2]]
<1>1. publishing # None /\ index' = [index EXCEPT ![publishing.key] = Published]
  BY PublishStep
<1>2. k = publishing.key /\ index'[k] = Published
  BY <1>1 DEF TypeOK
<1> QED BY <1>1, <1>2, PublishedFields DEF InternalInv

\* Every step keeps the tracks of internal packages in their lines.
LEMMA NextInternal ==
  ASSUME MajorsAreLines, TypeOK, InternalInv, [Next]_vars
  PROVE  InternalInv'
<1>1. \A k \in TrackKey : k[1] \in Internal => Lined(index'[k], k)
  <2> SUFFICES ASSUME NEW k \in TrackKey, k[1] \in Internal, index'[k] # index[k]
               PROVE  Lined(index'[k], k)
    BY DEF InternalInv
  <2>1. ASSUME NEW r \in pending, Answer(r)
        PROVE  FALSE
    BY <2>1, AnswerWritesItsPackage, RegisterAssumption
  <2>2. CASE EvaluateTrack(k)
    <3>1. snapshot[k].current \in Line[k[2]]
      BY <2>2 DEF EvaluateTrack, Leave, InternalInv, Lined
    <3> QED BY <2>2, <3>1, EvaluateInLine DEF Lined
  <2>3. CASE Publish
    BY <2>3, PublishInLine DEF Lined
  <2> QED BY <2>1, <2>2, <2>3, WritersOfATrack
<1>2. \A k \in TrackKey : snapshot'[k] \in {snapshot[k], index[k], None}
  <2>1. CASE snapshot' \in {snapshot, index, NoTracks}
    BY <2>1 DEF NoTracks
  <2>2. CASE World \/ ProofDoor \/ (\E r \in RequestSet : File(r)) \/ UNCHANGED vars
    BY <2>1, <2>2 DEF World, Tick, Release, Yank, Disclose, ProofDoor, StartPublish,
                      Publish, PublishFails, File, vars, run, progress
  <2>3. ASSUME NEW k \in TrackKey, EvaluateTrack(k) \/ EvaluateFails(k)
        PROVE  \A j \in TrackKey : snapshot'[j] \in {snapshot[j], index[j], None}
    BY <2>3 DEF EvaluateTrack, EvaluateFails, Leave, TypeOK
  <2>4. CASE Pipeline
    BY <2>1, <2>3, <2>4 DEF Pipeline, StartProcess, StartEvaluate, Answer, RecordVerdict,
                            FinishProcess, FinishEvaluate, Abort
  <2> QED BY <2>2, <2>4 DEF Next
<1>3. publishing' # None => publishing'.version \in Line[publishing'.key[2]]
  <2>1. ASSUME NEW p \in Publishable, NEW v \in PublishedVersion, StartPublish(p, v)
        PROVE  publishing'.version \in Line[publishing'.key[2]]
    <3>1. v \in Line[Major[v]]
      BY RegisterAssumption DEF MajorsAreLines
    <3> QED BY <2>1, <3>1 DEF StartPublish
  <2>2. CASE publishing' \in {publishing, None}
    BY <2>2 DEF InternalInv
  <2>3. CASE World \/ (\E r \in RequestSet : File(r)) \/ Pipeline \/ UNCHANGED vars
    BY <2>2, <2>3
       DEF World, Tick, Release, Yank, Disclose, File, Pipeline, StartProcess,
           StartEvaluate, Answer, RecordVerdict, FinishProcess, EvaluateTrack,
           EvaluateFails, FinishEvaluate, Abort, vars, world
  <2>4. CASE Publish \/ PublishFails
    BY <2>2, <2>4 DEF Publish, PublishFails
  <2> QED BY <2>1, <2>3, <2>4 DEF Next, ProofDoor
<1> QED BY <1>1, <1>2, <1>3 DEF InternalInv, Lined

\* A track leaves its line by a request that names both.
LEMMA LeavesByName ==
  ASSUME MajorsAreLines, Publishable \subseteq Internal, BackedInv, InternalInv,
         [Next]_vars, NEW k \in TrackKey, InLine(k), ~ InLine(k)'
  PROVE  \E r \in pending : Answer(r) /\ r.pkg = k[1] /\ r.track = k[2] /\ r.version # None
<1>1. TypeOK
  BY DEF BackedInv
<1>2. index'[k] # index[k] /\ index'[k].current \notin Line[k[2]]
  BY DEF InLine
<1>3. ~ EvaluateTrack(k)
  <2> SUFFICES ASSUME EvaluateTrack(k) PROVE FALSE
    OBVIOUS
  <2>1. snapshot[k] # None
    BY DEF EvaluateTrack, Leave
  <2>2. snapshot[k].current \in Line[k[2]]
    BY <2>1 DEF BackedInv, InternalInv, Lined, InLine
  <2> QED BY <1>1, <1>2, <2>2, EvaluateInLine
<1>4. ~ Publish
  BY <1>1, <1>2, PublishInLine
<1>5. PICK r \in pending : Answer(r)
  BY <1>1, <1>2, <1>3, <1>4, WritersOfATrack
<1> QED BY <1>1, <1>2, <1>5, AnswerInLine

\* Whoever writes a track, a request, an evaluation of a copy or a publish, it
\* stays in the line that names it; but for a request that names a track beside
\* an exact version, which evaluateExact does not compare.
THEOREM OnlyNamesLeaveALine ==
  ASSUME MajorsAreLines, Publishable \subseteq Internal
  PROVE  Spec => LinesAreLeftByName
<1>1. Init => InternalInv
  BY DEF Init, InternalInv, Lined, NoTracks
<1>2. TypeOK /\ InternalInv /\ [Next]_vars => InternalInv'
  BY NextInternal
<1>3. BackedInv /\ InternalInv /\ [Next]_vars =>
        [\A k \in TrackKey :
           (InLine(k) /\ ~ InLine(k)') =>
             \E r \in pending : /\ Answer(r)
                                /\ r.pkg = k[1]
                                /\ r.track = k[2]
                                /\ r.version # None]_vars
  BY LeavesByName
<1> QED BY <1>1, <1>2, <1>3, TypeCorrect, BackedInvariant, PTL DEF Spec, LinesAreLeftByName

-----------------------------------------------------------------------------
(* The budget of finer tracks.                                             *)

\* MajorOf yields a major.
MajorsAreNotFiner == \A v \in Version : Major[v] \notin Finer

\* The finer tracks of a package.
FinerOf(p, tracks) == {f \in Finer : tracks[<<p, f>>] # None}

\* TracksOf lists all tracks of the package, so the count is no smaller.
LEMMA FinerAreCounted ==
  ASSUME IsFiniteSet(Package), IsFiniteSet(Prefix), NEW p \in Package
  PROVE  /\ IsFiniteSet(FinerOf(p, index))
         /\ Cardinality(FinerOf(p, index)) \in Nat
         /\ Cardinality(FinerTracks(p)) \in Nat
         /\ Cardinality(FinerOf(p, index)) <= Cardinality(FinerTracks(p))
<1> DEFINE S == FinerOf(p, index)
           T == FinerTracks(p)
           f == [x \in S |-> <<p, x>>]
<1>1. Finer \subseteq Prefix /\ Nested[p] \subseteq Package
  BY VersionAssumption, RegisterAssumption
<1>2. IsFiniteSet(TrackKey)
  BY FS_Product DEF TrackKey
<1>3. T \in SUBSET TrackKey
  BY <1>1 DEF FinerTracks, TracksOf, TrackKey
<1>4. IsFiniteSet(T)
  BY <1>2, <1>3, FS_Subset
<1>5. \A x \in S : <<p, x>> \in T
  BY <1>1 DEF FinerOf, FinerTracks, TracksOf
<1> HIDE DEF S, T
<1>6. f \in Injection(S, T)
  BY <1>5 DEF Injection, IsInjective
<1>7. IsFiniteSet(S) /\ Cardinality(S) <= Cardinality(T)
  BY <1>4, <1>6, FS_Injection
<1> QED BY <1>4, <1>7, FS_CardinalityType DEF S, T

\* admit writes the track its verdict names.
LEMMA AdmitWritesOne ==
  ASSUME TypeOK, NEW p, NEW verdict, NEW cands
  PROVE  \A j \in TrackKey \ {<<p, verdict.track>>} :
           Admit(p, verdict, cands)[j] = index[j]
<1> DEFINE k     == <<p, verdict.track>>
           moved == Maintain(Advance(IF index[k] = None THEN NewTrack ELSE index[k],
                                     verdict.adopted, cands),
                             verdict.track, cands, at)
<1>1. Admit(p, verdict, cands) \in {index, [index EXCEPT ![k] = moved]}
  BY DEF Admit
<1> HIDE DEF moved, k
<1>2. \A j \in TrackKey \ {k} : Admit(p, verdict, cands)[j] = index[j]
  BY <1>1 DEF TypeOK
<1> QED BY <1>2 DEF k

\* Other tracks than those that are there are written by an answer alone: an
\* evaluation has read its track, and a publish goes to a major.
OpeningInv ==
  /\ \A k \in TrackKey : snapshot[k] # None => index[k] # None
  /\ publishing # None => publishing.key[2] \notin Finer

\* Every step keeps that.
LEMMA NextOpening ==
  ASSUME MajorsAreNotFiner, TypeOK, OpeningInv, [Next]_vars
  PROVE  OpeningInv'
<1> USE DEF OpeningInv
<1>1. CASE UNCHANGED <<index, publishing>> /\ snapshot' \in {snapshot, index, NoTracks}
  BY <1>1 DEF NoTracks
<1>2. ASSUME NEW r \in pending, Answer(r)
      PROVE  OpeningInv'
  <2>1. Forward(index, index')
    BY <1>2, AnswerStep
  <2> QED BY <1>2, <2>1 DEF Answer, Forward, world
<1>3. ASSUME NEW k \in TrackKey, EvaluateTrack(k)
      PROVE  OpeningInv'
  <2>1. index'[k] # None /\ \A j \in TrackKey \ {k} : index'[j] = index[j]
    BY <1>3, EvaluateStep, NoneAssumption DEF TypeOK
  <2>2. \A j \in TrackKey : snapshot'[j] \in {snapshot[j], None}
    BY <1>3 DEF EvaluateTrack, Leave, TypeOK
  <2> QED BY <1>3, <2>1, <2>2 DEF EvaluateTrack, world
<1>4. ASSUME NEW k \in TrackKey, EvaluateFails(k)
      PROVE  OpeningInv'
  <2>1. \A j \in TrackKey : snapshot'[j] \in {snapshot[j], None}
    BY <1>4 DEF EvaluateFails, Leave, TypeOK
  <2> QED BY <1>4, <2>1 DEF EvaluateFails, store, world
<1>5. CASE Pipeline
  <2>1. ASSUME NEW v \in {"process", "apply"}, StartProcess(v)
        PROVE  OpeningInv'
    BY <1>1, <2>1 DEF StartProcess, store, world
  <2>2. CASE StartEvaluate \/ FinishProcess \/ FinishEvaluate \/ Abort
    BY <1>1, <2>2 DEF StartEvaluate, FinishProcess, FinishEvaluate, Abort, store, world
  <2>3. CASE RecordVerdict
    BY <1>1, <2>3 DEF RecordVerdict, world
  <2> QED BY <1>2, <1>3, <1>4, <1>5, <2>1, <2>2, <2>3 DEF Pipeline
<1>6. ASSUME NEW p \in Publishable, NEW v \in PublishedVersion, StartPublish(p, v)
      PROVE  OpeningInv'
  <2>1. Major[v] \notin Finer
    BY RegisterAssumption DEF MajorsAreNotFiner
  <2>2. publishing'.key[2] = Major[v] /\ UNCHANGED <<index, snapshot>>
    BY <1>6 DEF StartPublish, store, run, progress
  <2> QED BY <2>1, <2>2
<1>7. CASE Publish
  <2>1. index' = [index EXCEPT ![publishing.key] = Published] /\ Published # None
    BY <1>7, PublishStep, NoneAssumption
  <2>2. \A j \in TrackKey : index[j] # None => index'[j] # None
    BY <2>1 DEF TypeOK
  <2> QED BY <1>7, <2>2 DEF Publish, run, progress
<1>8. CASE PublishFails
  BY <1>8 DEF PublishFails, store, run, progress
<1>9. CASE World
  BY <1>1, <1>9 DEF World, Tick, Release, Yank, Disclose, store, run, progress
<1>10. ASSUME NEW r \in RequestSet, File(r)
       PROVE  OpeningInv'
  <2>1. UNCHANGED <<world, index, run>>
    BY <1>10 DEF File
  <2> QED BY <1>1, <2>1 DEF run, progress, world
<1>11. CASE UNCHANGED vars
  BY <1>1, <1>11 DEF vars, store, run, progress, world
<1> QED BY <1>5, <1>6, <1>7, <1>8, <1>9, <1>10, <1>11 DEF Next, ProofDoor

\* A finer track that is there after a step and was not before was opened by an
\* answer.
LEMMA OpenedByAnswer ==
  ASSUME TypeOK, OpeningInv, [Next]_vars, NEW p \in Package,
         FinerOf(p, index') # FinerOf(p, index)
  PROVE  \E r \in pending : Answer(r)
<1>1. PICK f \in Finer : ~ (index'[<<p, f>>] # None <=> index[<<p, f>>] # None)
  BY DEF FinerOf
<1> DEFINE k == <<p, f>>
<1>2. k \in TrackKey /\ k[2] = f
  BY VersionAssumption DEF TrackKey
<1>3. ~ (index'[k] # None <=> index[k] # None)
  BY <1>1
<1> HIDE DEF k
<1>4. index'[k] # index[k]
  BY <1>3
<1>5. ~ EvaluateTrack(k)
  <2> SUFFICES ASSUME EvaluateTrack(k) PROVE FALSE
    OBVIOUS
  <2>1. snapshot[k] # None
    BY DEF EvaluateTrack, Leave
  <2>2. index'[k] # None
    BY <1>2, EvaluateStep, NoneAssumption
  <2> QED BY <1>2, <1>3, <2>1, <2>2 DEF OpeningInv
<1>6. ~ Publish
  <2> SUFFICES ASSUME Publish PROVE FALSE
    OBVIOUS
  <2>1. publishing # None /\ index' = [index EXCEPT ![publishing.key] = Published]
    BY PublishStep
  <2>2. k = publishing.key
    BY <1>2, <1>4, <2>1 DEF TypeOK
  <2> QED BY <1>2, <2>1, <2>2 DEF OpeningInv
<1> QED BY <1>2, <1>4, <1>5, <1>6, WritersOfATrack

\* An answer that gives a package more finer tracks than it has is held to the
\* budget, or asks for the finer track by name.
LEMMA AnswerKeepsBudget ==
  ASSUME IsFiniteSet(Package), IsFiniteSet(Prefix), MajorsAreNotFiner, TypeOK,
         NEW r \in pending, Answer(r), NEW p \in Package,
         FinerOf(p, index') # FinerOf(p, index)
  PROVE  \/ Cardinality(FinerOf(p, index')) <= MaxTracksPerPackage
         \/ r.pkg = p /\ r.type # "open-track" /\ r.track \in Finer
<1>1. /\ r \in Request /\ r.pkg \in Package
      /\ r.track \in Prefix \cup {None}
      /\ r.version \in Version \cup {None}
      /\ r.type = "open-track" => r.track \in Prefix
  BY DEF TypeOK, Request
<1>2. PICK cands \in {Discover(r.pkg, feed) : feed \in FeedAnswers(r.pkg)} :
        /\ decided' = VerdictOn(r, cands)
        /\ index' = IF decided'.code = "adopted"
                    THEN Admit(r.pkg, decided', cands) ELSE index
  BY DEF Answer
<1>3. IsDatedOffer(cands) /\ IsOffer(cands) /\ DOMAIN cands \subseteq Version
  BY <1>1, DiscoveredIsDatedOffer DEF IsDatedOffer, IsOffer
<1> DEFINE verdict == VerdictOn(r, cands)
           x       == verdict.track
           before  == FinerOf(p, index)
           after   == FinerOf(p, index')
<1>4. verdict.code = "adopted" /\ index' = Admit(r.pkg, verdict, cands)
  BY <1>2
<1>5. \A j \in TrackKey \ {<<r.pkg, x>>} : index'[j] = index[j]
  BY <1>4, AdmitWritesOne
<1> HIDE DEF verdict
<1>6. p = r.pkg /\ x \in Finer /\ after \subseteq before \cup {x}
  <2>1. \A f \in Finer : <<p, f>> \in TrackKey
    BY VersionAssumption DEF TrackKey
  <2>2. \A f \in Finer : <<p, f>> # <<r.pkg, x>> => index'[<<p, f>>] = index[<<p, f>>]
    BY <1>5, <2>1
  <2> HIDE DEF x
  <2> QED BY <2>2 DEF FinerOf
<1>7. CASE r.type = "open-track"
  <2> DEFINE current == DefaultCurrent(r.pkg, cands)
             finer   == Cardinality(FinerTracks(r.pkg))
  <2>1. verdict = EvaluateTrackOpen(r, cands, current, finer, at)
    BY <1>7 DEF VerdictOn, verdict
  <2>2. ~ BudgetSpent(finer)
    <3> HIDE DEF current, finer
    <3> QED BY <1>1, <1>3, <1>4, <1>7, <2>1, OpenedTracksAreWithinBudget
  <2>3. /\ IsFiniteSet(before)
        /\ Cardinality(before) \in Nat
        /\ finer \in Nat
        /\ Cardinality(before) <= finer
    BY <1>6, FinerAreCounted
  <2>4. Cardinality(before) + 1 <= MaxTracksPerPackage
    <3> HIDE DEF finer, before
    <3> QED BY <2>2, <2>3, ParamsAssumption DEF BudgetSpent
  <2> HIDE DEF before, x
  <2>5. /\ IsFiniteSet(before \cup {x})
        /\ Cardinality(before \cup {x})
             = IF x \in before THEN Cardinality(before) ELSE Cardinality(before) + 1
    BY <2>3, FS_AddElement
  <2> HIDE DEF after
  <2>6. Cardinality(after) <= Cardinality(before \cup {x}) /\ Cardinality(after) \in Nat
    BY <1>6, <2>5, FS_Subset, FS_CardinalityType
  <2>7. Cardinality(after) <= MaxTracksPerPackage
    BY <2>3, <2>4, <2>5, <2>6, ParamsAssumption
  <2> QED BY <2>7 DEF after
<1>8. CASE r.type # "open-track"
  <2>1. verdict = EvaluateAdmission(r, cands, at)
    BY <1>8 DEF VerdictOn, verdict
  <2>2. verdict.adopted \in Version /\ x = TrackFor(r, verdict.adopted)
    BY <1>1, <1>3, <1>4, <2>1, AdmissionIsAdmissible
  <2>3. r.track \in Finer
    BY <1>6, <2>2 DEF TrackFor, MajorsAreNotFiner
  <2> QED BY <1>6, <1>8, <2>3
<1> QED BY <1>7, <1>8

\* However often a request is answered again after a crash, and whatever is
\* evaluated and published in between, no package gets a finer track beyond
\* maxTracksPerPackage but by an admission request that names one.
THEOREM BudgetIsHeld ==
  ASSUME IsFiniteSet(Package), IsFiniteSet(Prefix), MajorsAreNotFiner
  PROVE  Spec => BudgetHeld
<1>1. Init => OpeningInv
  BY DEF Init, OpeningInv, NoTracks
<1>2. TypeOK /\ OpeningInv /\ [Next]_vars => OpeningInv'
  BY NextOpening
<1>3. ASSUME TypeOK, OpeningInv, [Next]_vars, NEW p \in Package,
             Cardinality(FinerOf(p, index')) > MaxTracksPerPackage,
             FinerOf(p, index') # FinerOf(p, index)
      PROVE  \E r \in pending : /\ Answer(r)
                                /\ r.pkg = p
                                /\ r.type # "open-track"
                                /\ r.track \in Finer
  <2>1. PICK r \in pending : Answer(r)
    BY <1>3, OpenedByAnswer
  <2>2. \/ Cardinality(FinerOf(p, index')) <= MaxTracksPerPackage
        \/ r.pkg = p /\ r.type # "open-track" /\ r.track \in Finer
    BY <1>3, <2>1, AnswerKeepsBudget
  <2>3. ~ (Cardinality(FinerOf(p, index')) <= MaxTracksPerPackage)
    <3>1. FinerOf(p, index') \subseteq Prefix
      BY VersionAssumption DEF FinerOf
    <3>2. Cardinality(FinerOf(p, index')) \in Nat
      BY <3>1, FS_Subset, FS_CardinalityType
    <3> QED BY <1>3, <3>2, ParamsAssumption
  <2> QED BY <2>1, <2>2, <2>3
<1>4. TypeOK /\ OpeningInv /\ [Next]_vars =>
        [\A p \in Package :
           LET finer == FinerTracksHeld(p)
           IN  (/\ Cardinality(finer') > MaxTracksPerPackage
                /\ finer' # finer) =>
                 \E r \in pending : /\ Answer(r)
                                    /\ r.pkg = p
                                    /\ r.type # "open-track"
                                    /\ r.track \in Finer]_vars
  BY <1>3 DEF FinerTracksHeld, FinerOf
<1> QED BY <1>1, <1>2, <1>4, TypeCorrect, PTL DEF Spec, BudgetHeld

=============================================================================
