---------------------------- MODULE AnswerProofs ----------------------------
(***************************************************************************)
(* Verdicts and requests, proved for every value of the constants: each    *)
(* request is answered once, each verdict answers the request at its key,  *)
(* a rejection says what to ask for instead, the register implements the   *)
(* catalog, and a run ends and leaves no request behind.                   *)
(***************************************************************************)
EXTENDS EntryProofs, LineProofs

-----------------------------------------------------------------------------
(* One verdict for each request.                                           *)

\* A run answers a key at most once and only keys that have no verdict: its
\* copy of the pending requests holds one request per key, the one it has
\* decided is no longer among them, and nobody else writes verdicts.
OnceInv ==
  /\ \A k \in Key : requests[k] # None => RequestKey(requests[k]) = k
  /\ pc \in {"idle", "evaluate"} => pending = {}
  /\ \A r \in pending : verdicts[RequestKey(r)] = None
  /\ \A r, s \in pending : RequestKey(r) = RequestKey(s) => r = s
  /\ pc = "record" =>
       /\ answering \in Request
       /\ decided \in Verdict
       /\ verdicts[RequestKey(answering)] = None
       /\ \A r \in pending : RequestKey(r) # RequestKey(answering)

\* What names a record is a key.
LEMMA RequestKeyIsKey ==
  ASSUME NEW r \in Request
  PROVE  RequestKey(r) \in Key /\ RequestKey(r).pkg = r.pkg /\ RequestKey(r).type = r.type
  BY DEF Request, RequestKey, Key

\* The requests without a verdict, one per key.
LEMMA PendingAreUnanswered ==
  ASSUME TypeOK, OnceInv
  PROVE  /\ PendingRequests \subseteq Request
         /\ \A r \in PendingRequests : /\ verdicts[RequestKey(r)] = None
                                       /\ requests[RequestKey(r)] = r
<1>1. ASSUME NEW r \in PendingRequests
      PROVE  /\ r \in Request
             /\ verdicts[RequestKey(r)] = None
             /\ requests[RequestKey(r)] = r
  <2>1. PICK k \in Key : requests[k] # None /\ verdicts[k] = None /\ r = requests[k]
    BY DEF PendingRequests
  <2> QED BY <2>1 DEF OnceInv, TypeOK
<1> QED BY <1>1

\* Every step keeps requests answered once.
LEMMA NextOnce ==
  ASSUME TypeOK, TypeOK', OnceInv, [Next]_vars
  PROVE  OnceInv'
<1>1. CASE UNCHANGED <<requests, verdicts, pc, pending, answering, decided>>
  BY <1>1 DEF OnceInv, RequestKey
<1>2. ASSUME NEW r \in RequestSet, File(r)
      PROVE  OnceInv'
  <2> DEFINE request == [pkg |-> r.pkg, type |-> r.type, track |-> r.track,
                         version |-> r.version, at |-> now]
  <2>1. /\ requests' = [requests EXCEPT ![RequestKey(request)] = request]
        /\ UNCHANGED <<verdicts, pc, pending, answering, decided>>
    BY <1>2 DEF File, run, progress
  <2> HIDE DEF request
  <2>2. \A k \in Key : requests'[k] # None => RequestKey(requests'[k]) = k
    BY <2>1 DEF OnceInv, TypeOK
  <2> QED BY <2>1, <2>2 DEF OnceInv, RequestKey
<1>3. ASSUME NEW v \in {"process", "apply"}, StartProcess(v)
      PROVE  OnceInv'
  <2>1. pending' = PendingRequests /\ pc' = "process" /\ UNCHANGED <<requests, verdicts>>
    BY <1>3 DEF StartProcess, store
  <2> QED BY <2>1, PendingAreUnanswered DEF OnceInv, RequestKey
<1>4. ASSUME NEW r \in pending, Answer(r)
      PROVE  OnceInv'
  <2>1. /\ r \in Request /\ decided' \in Verdict
        /\ answering' = r /\ pending' = pending \ {r} /\ pc' = "record"
        /\ UNCHANGED <<requests, verdicts>>
    BY <1>4, AnswerStep DEF Answer, TypeOK
  <2> QED BY <2>1 DEF OnceInv, RequestKey
<1>5. CASE RecordVerdict
  <2>1. /\ pc = "record" /\ pc' = "process"
        /\ verdicts' = [verdicts EXCEPT ![RequestKey(answering)] = decided]
        /\ UNCHANGED <<requests, pending>>
    BY <1>5 DEF RecordVerdict
  <2>2. \A r \in pending : RequestKey(r) \in Key
    BY RequestKeyIsKey DEF TypeOK
  <2>3. \A r \in pending : verdicts'[RequestKey(r)] = None
    BY <2>1, <2>2 DEF OnceInv, TypeOK
  <2> QED BY <2>1, <2>3 DEF OnceInv, RequestKey
<1>6. CASE StartEvaluate
  BY <1>6 DEF StartEvaluate, OnceInv, RequestKey, store
<1>7. CASE FinishProcess
  BY <1>7 DEF FinishProcess, OnceInv, RequestKey, store
<1>8. CASE FinishEvaluate
  BY <1>8 DEF FinishEvaluate, OnceInv, RequestKey, store
<1>9. CASE Abort
  BY <1>9 DEF Abort, OnceInv, RequestKey, store
<1>10. ASSUME NEW k \in TrackKey, EvaluateTrack(k) \/ EvaluateFails(k)
       PROVE  OnceInv'
  BY <1>1, <1>10 DEF EvaluateTrack, EvaluateFails, store
<1>11. CASE World
  BY <1>1, <1>11 DEF World, Tick, Release, Yank, Disclose, store, run, progress
<1>12. CASE ProofDoor
  BY <1>1, <1>12 DEF ProofDoor, StartPublish, Publish, PublishFails, store, run, progress
<1>13. CASE UNCHANGED vars
  BY <1>1, <1>13 DEF vars, store, run, progress
<1> QED BY <1>2, <1>3, <1>4, <1>5, <1>6, <1>7, <1>8, <1>9, <1>10, <1>11, <1>12,
           <1>13 DEF Next, Pipeline

\* The initial state has nothing to answer.
LEMMA InitOnce ==
  Init => OnceInv
  BY DEF Init, OnceInv

\* The invariant holds of every behaviour.
LEMMA OnceInvariant ==
  Spec => []OnceInv
<1>1. TypeOK /\ TypeOK' /\ OnceInv /\ [Next]_vars => OnceInv'
  BY NextOnce
<1> QED BY <1>1, InitOnce, TypeCorrect, PTL DEF Spec

-----------------------------------------------------------------------------
(* The catalog.                                                            *)

\* A write that opens one track or moves it forward advances the catalog, and one
\* of a published package's track is none of its business.
LEMMA WriteAdvances ==
  ASSUME TypeOK, TypeOK', NEW k \in TrackKey, index'[k] # None,
         \A j \in TrackKey \ {k} : index'[j] = index[j],
         k \in Unpublished /\ index[k] # None
           => Rank[index'[k].current] > Rank[index[k].current],
         UNCHANGED GivenAnswers
  PROVE  [Promise!Next]_(Promise!vars)
<1> DEFINE v == index'[k].current
<1>1. v \in Version
  BY TrackFields DEF TypeOK
<1>2. HeldVersions' = [HeldVersions EXCEPT ![k] = v]
  BY DEF HeldVersions, Unpublished
<1>3. CASE UNCHANGED HeldVersions
  BY <1>3 DEF Promise!vars
<1>4. CASE HeldVersions' # HeldVersions
  <2>1. k \in Unpublished
    BY <1>2, <1>4 DEF HeldVersions
  <2>2. HeldVersions[k] = IF index[k] = None THEN None ELSE index[k].current
    BY <2>1 DEF HeldVersions
  <2>3. HeldVersions[k] # None => Rank[v] > Rank[HeldVersions[k]]
    BY <2>1, <2>2
  <2> HIDE DEF v
  <2>4. Promise!Advance(k, v)
    BY <1>2, <2>3 DEF Promise!Advance
  <2> QED BY <1>1, <1>4, <2>1, <2>4 DEF Promise!Next
<1> QED BY <1>3, <1>4

\* Steps that write neither tracks nor verdicts are none of the catalog's.
LEMMA SilentStep ==
  ASSUME UNCHANGED <<index, verdicts>>
  PROVE  UNCHANGED <<HeldVersions, GivenAnswers>>
  BY DEF HeldVersions, GivenAnswers, GivenAnswer

\* PutVerdict is the catalog's answer, true when it is given.
LEMMA RecordAnswers ==
  ASSUME Publishable \subseteq Internal, TypeOK, BackedInv, OnceInv, RecordVerdict
  PROVE  [Promise!Next]_(Promise!vars)
<1> DEFINE q == RequestKey(answering)
<1>1. /\ answering \in Request /\ decided \in Verdict
      /\ verdicts[q] = None
      /\ Backs(answering.pkg, decided)
      /\ verdicts' = [verdicts EXCEPT ![q] = decided]
      /\ index' = index
  BY DEF RecordVerdict, OnceInv, BackedInv
<1>2. q \in Key /\ q.pkg = answering.pkg /\ q.pkg \in Package
  BY <1>1, RequestKeyIsKey DEF Request
<1>3. decided # None
  BY <1>1, NoneAssumption
<1> HIDE DEF q
<1>4. GivenAnswers[q] = None /\ UNCHANGED HeldVersions
  BY <1>1, <1>2 DEF GivenAnswers, HeldVersions
<1> DEFINE grant == IF decided.code = "adopted"
                    THEN [track |-> <<q.pkg, decided.track>>, version |-> decided.adopted]
                    ELSE [track |-> None, version |-> None]
<1>5. GivenAnswers' = [GivenAnswers EXCEPT ![q] = grant]
  BY <1>1, <1>2, <1>3 DEF GivenAnswers, GivenAnswer, TypeOK
<1>6. CASE UNCHANGED GivenAnswers
  BY <1>4, <1>6 DEF Promise!vars
<1>7. CASE GivenAnswers' # GivenAnswers /\ decided.code # "adopted"
  <2>1. Promise!Refuse(q)
    BY <1>4, <1>5, <1>7 DEF Promise!Refuse, Promise!Refusal
  <2> QED BY <1>2, <1>7, <2>1 DEF Promise!Next
<1>8. CASE GivenAnswers' # GivenAnswers /\ decided.code = "adopted"
  <2> DEFINE k == <<q.pkg, decided.track>>
  <2>1. /\ k \in TrackKey /\ k \in Unpublished /\ decided.adopted \in Version
        /\ index[k] # None /\ Rank[index[k].current] >= Rank[decided.adopted]
    BY <1>1, <1>2, <1>8, RegisterAssumption
       DEF Backs, Holds, Verdict, TrackKey, Unpublished
  <2>2. GivenAnswers' = [GivenAnswers EXCEPT ![q] = [track |-> k, version |-> decided.adopted]]
    BY <1>5, <1>8
  <2> HIDE DEF k
  <2>3. HeldVersions[k] = index[k].current /\ HeldVersions[k] # None
    BY <2>1, TrackFields, VersionAssumption DEF HeldVersions, TypeOK
  <2>4. Promise!Adopt(q, k, decided.adopted)
    BY <1>4, <2>1, <2>2, <2>3 DEF Promise!Adopt, Promise!Grant
  <2> QED BY <1>2, <1>8, <2>1, <2>4 DEF Promise!Next
<1> QED BY <1>6, <1>7, <1>8

\* Every step of the register is a step of the catalog, or none.
LEMMA StepIsCatalogs ==
  ASSUME Publishable \subseteq Internal, TypeOK, TypeOK', BackedInv, OnceInv,
         \A k \in TrackKey : k[1] \notin Publishable => Settled(k), [Next]_vars
  PROVE  [Promise!Next]_(Promise!vars)
<1>1. CASE UNCHANGED <<index, verdicts>>
  BY <1>1, SilentStep DEF Promise!vars
<1>2. ASSUME NEW r \in pending, Answer(r)
      PROVE  [Promise!Next]_(Promise!vars)
  <2>1. r \in Request /\ r.pkg \in Package /\ UNCHANGED verdicts
    BY <1>2 DEF Answer, TypeOK, Request
  <2>2. PICK cands \in {Discover(r.pkg, feed) : feed \in FeedAnswers(r.pkg)} :
          /\ decided' = VerdictOn(r, cands)
          /\ index' = IF decided'.code = "adopted"
                      THEN Admit(r.pkg, decided', cands) ELSE index
    BY <1>2 DEF Answer
  <2>3. IsDatedOffer(cands)
    BY <2>1, DiscoveredIsDatedOffer
  <2>4. /\ decided' = VerdictOn(r, cands)
        /\ index' = IF decided'.code = "adopted"
                    THEN Admit(r.pkg, decided', cands) ELSE index
    BY <2>2
  <2>5. CASE index' = index
    BY <1>1, <2>1, <2>5
  <2>6. CASE index' # index
    <3>1. /\ index' = Admit(r.pkg, decided', cands)
          /\ decided'.adopted \in DOMAIN cands /\ decided'.track \in Prefix
      BY <2>1, <2>3, <2>4, <2>6, VerdictOnRequest
    <3> DEFINE k == <<r.pkg, decided'.track>>
    <3>2. /\ index'[k] # None
          /\ \A j \in TrackKey \ {k} : index'[j] = index[j]
          /\ index'[k].current = decided'.adopted
          /\ index[k] # None => Rank[index[k].current] < Rank[decided'.adopted]
      BY <2>1, <2>3, <2>6, <3>1, AdmittedIndex
    <3>3. k \in TrackKey
      BY <2>1, <3>1 DEF TrackKey
    <3> HIDE DEF k
    <3>4. index[k] # None => Rank[index'[k].current] > Rank[index[k].current]
      <4>1. decided'.adopted \in Version
        BY <2>3, <3>1, DatedFacts
      <4>2. Rank[decided'.adopted] \in Int
        BY <4>1, RankIsInteger
      <4>3. index[k] # None => Rank[index[k].current] \in Int
        BY <3>3, TrackFields, RankIsInteger DEF TypeOK
      <4> QED BY <3>2, <4>2, <4>3
    <3>5. UNCHANGED GivenAnswers
      BY <2>1 DEF GivenAnswers, GivenAnswer
    <3> QED BY <3>2, <3>3, <3>4, <3>5, WriteAdvances
  <2> QED BY <2>5, <2>6
<1>3. CASE RecordVerdict
  BY <1>3, RecordAnswers
<1>4. ASSUME NEW k \in TrackKey, EvaluateTrack(k)
      PROVE  [Promise!Next]_(Promise!vars)
  <2>1. /\ snapshot[k] \in Track
        /\ index' = [index EXCEPT ![k] = index'[k]]
        /\ index'[k] \in Track
        /\ \/ index'[k].current = snapshot[k].current
           \/ Rank[index'[k].current] > Rank[snapshot[k].current]
    BY <1>4, EvaluateStep
  <2>2. /\ index'[k] # None /\ snapshot[k] # None
        /\ \A j \in TrackKey \ {k} : index'[j] = index[j]
    BY <2>1, NoneAssumption DEF TypeOK
  <2>3. UNCHANGED GivenAnswers
    BY <1>4 DEF EvaluateTrack, GivenAnswers, GivenAnswer
  <2>4. CASE k[1] \in Publishable
    BY <2>2, <2>3, <2>4, WriteAdvances DEF Unpublished
  <2>5. CASE k[1] \notin Publishable
    <3>1. index[k] = snapshot[k]
      BY <2>2, <2>5 DEF Settled
    <3>2. CASE index'[k].current = index[k].current
      <4>1. UNCHANGED HeldVersions
        BY <2>2, <3>1, <3>2 DEF HeldVersions, Unpublished
      <4> QED BY <2>3, <4>1 DEF Promise!vars
    <3>3. CASE Rank[index'[k].current] > Rank[index[k].current]
      BY <2>2, <2>3, <3>3, WriteAdvances
    <3> QED BY <2>1, <3>1, <3>2, <3>3
  <2> QED BY <2>4, <2>5
<1>5. CASE World
  BY <1>1, <1>5 DEF World, Tick, Release, Yank, Disclose, store
<1>6. ASSUME NEW r \in RequestSet, File(r)
      PROVE  [Promise!Next]_(Promise!vars)
  BY <1>1, <1>6 DEF File
<1>7. CASE Pipeline
  BY <1>1, <1>2, <1>3, <1>4, <1>7
     DEF Pipeline, StartProcess, StartEvaluate, FinishProcess, EvaluateFails,
         FinishEvaluate, Abort, store
<1>8. CASE Publish
  <2> DEFINE k == publishing.key
  <2>1. /\ k \in TrackKey /\ k \notin Unpublished
        /\ index' = [index EXCEPT ![k] = Published]
        /\ Published \in Track
        /\ UNCHANGED verdicts
    BY <1>8, PublishStep, PublicationFields DEF Publish, Unpublished
  <2> HIDE DEF k
  <2>2. index'[k] # None /\ \A j \in TrackKey \ {k} : index'[j] = index[j]
    BY <2>1, NoneAssumption DEF TypeOK
  <2>3. UNCHANGED GivenAnswers
    BY <2>1 DEF GivenAnswers, GivenAnswer
  <2> QED BY <2>1, <2>2, <2>3, WriteAdvances
<1>9. CASE ProofDoor
  BY <1>1, <1>8, <1>9 DEF ProofDoor, StartPublish, PublishFails, store
<1>10. CASE UNCHANGED vars
  BY <1>1, <1>10 DEF vars, store
<1> QED BY <1>5, <1>6, <1>7, <1>9, <1>10 DEF Next

\* The register is the catalog its readers rely on: whatever crashes, outages
\* and requests there are, tracks only move forward, a request is answered once
\* and for all, and a version that an answer names is already held.  (The tracks
\* of published packages are not part of it: a publish may be overwritten.)
THEOREM RegisterIsACatalog ==
  ASSUME Publishable \subseteq Internal
  PROVE  Spec => ImplementsCatalog
<1> DEFINE Inv == \A k \in TrackKey : k[1] \notin Publishable => Settled(k)
<1>1. Init => Promise!Init
  BY DEF Init, NoTracks, Promise!Init, HeldVersions, GivenAnswers, Unpublished
<1>2. TypeOK /\ TypeOK' /\ BackedInv /\ OnceInv /\ Inv /\ [Next]_vars
        => [Promise!Next]_(Promise!vars)
  BY StepIsCatalogs
<1>3. Spec => []Inv
  BY UnpublishedTracksAreSettled
<1> QED
  BY <1>1, <1>2, <1>3, TypeCorrect, BackedInvariant, OnceInvariant, PTL
     DEF Spec, ImplementsCatalog, Promise!Spec

-----------------------------------------------------------------------------
(* Each verdict answers the request at its key.                            *)

\* What a run reads was filed, and what was filed at a key stays so.
FitsInv ==
  /\ \A k \in Key : requests[k] # None => requests[k] \in filed[k]
  /\ \A r \in pending : requests[RequestKey(r)] # None /\ r \in filed[RequestKey(r)]
  /\ pc = "record" => /\ requests[RequestKey(answering)] # None
                      /\ answering \in filed[RequestKey(answering)]
                      /\ Fits(decided, answering)
  /\ VerdictsAnswerTheirRequests

\* Filing takes nothing back.
LEMMA FileFits ==
  ASSUME TypeOK, OnceInv, FitsInv, NEW r \in RequestSet, File(r)
  PROVE  FitsInv'
<1> DEFINE request == [pkg |-> r.pkg, type |-> r.type, track |-> r.track,
                       version |-> r.version, at |-> now]
           q       == RequestKey(request)
<1>1. /\ requests' = [requests EXCEPT ![q] = request]
      /\ filed' = [filed EXCEPT ![q] = @ \cup {request}]
      /\ UNCHANGED <<verdicts, pc, pending, answering, decided>>
  BY DEF File, run, progress
<1>2. request # None
  BY RegisterAssumption, NoneAssumption DEF TypeOK, Request
<1> HIDE DEF q, request
<1>3. \A k \in Key : /\ filed[k] \subseteq filed'[k]
                     /\ requests[k] # None => requests'[k] # None
                     /\ requests'[k] # None => requests'[k] \in filed'[k]
  BY <1>1, <1>2 DEF TypeOK, FitsInv
<1>4. \A s \in Request : RequestKey(s) \in Key
  BY RequestKeyIsKey
<1>5. \A s \in pending : requests'[RequestKey(s)] # None /\ s \in filed'[RequestKey(s)]
  BY <1>3, <1>4 DEF FitsInv, TypeOK
<1>6. pc = "record" => /\ requests'[RequestKey(answering)] # None
                       /\ answering \in filed'[RequestKey(answering)]
  BY <1>3, <1>4 DEF FitsInv, OnceInv
<1>7. VerdictsAnswerTheirRequests'
  BY <1>1, <1>3 DEF FitsInv, VerdictsAnswerTheirRequests, Fits
<1> QED BY <1>1, <1>3, <1>5, <1>6, <1>7 DEF FitsInv, Fits, RequestKey

\* Every step keeps verdicts and requests together.
LEMMA NextFits ==
  ASSUME TypeOK, OnceInv, FitsInv, [Next]_vars
  PROVE  FitsInv'
<1>1. CASE UNCHANGED <<requests, filed, verdicts, pc, pending, answering, decided>>
  BY <1>1 DEF FitsInv, VerdictsAnswerTheirRequests, Fits, RequestKey
<1>2. ASSUME NEW r \in RequestSet, File(r)
      PROVE  FitsInv'
  BY <1>2, FileFits
<1>3. CASE pc' # "record" /\ pending' = {} /\ UNCHANGED <<requests, filed, verdicts>>
  BY <1>3 DEF FitsInv, VerdictsAnswerTheirRequests, Fits
<1>4. ASSUME NEW v \in {"process", "apply"}, StartProcess(v)
      PROVE  FitsInv'
  <2>1. /\ pending' = PendingRequests /\ pc' = "process"
        /\ UNCHANGED <<requests, filed, verdicts>>
    BY <1>4 DEF StartProcess, store
  <2>2. \A r \in PendingRequests : requests[RequestKey(r)] # None /\ r \in filed[RequestKey(r)]
    <3>1. \A r \in PendingRequests : /\ r \in Request /\ r # None
                                     /\ requests[RequestKey(r)] = r
      BY PendingAreUnanswered, NoneAssumption
    <3> QED BY <3>1, RequestKeyIsKey DEF FitsInv
  <2> QED BY <2>1, <2>2 DEF FitsInv, VerdictsAnswerTheirRequests, Fits, RequestKey
<1>5. ASSUME NEW r \in pending, Answer(r)
      PROVE  FitsInv'
  <2>1. Fits(decided', r)
    BY <1>5, AnswerStep DEF Fits
  <2>2. /\ answering' = r /\ pending' = pending \ {r} /\ pc' = "record"
        /\ UNCHANGED <<requests, filed, verdicts>>
    BY <1>5 DEF Answer
  <2> QED BY <2>1, <2>2 DEF FitsInv, VerdictsAnswerTheirRequests, Fits, RequestKey
<1>6. CASE RecordVerdict
  <2> DEFINE q == RequestKey(answering)
  <2>1. /\ pc = "record" /\ pc' = "process" /\ q \in Key
        /\ verdicts' = [verdicts EXCEPT ![q] = decided]
        /\ UNCHANGED <<requests, filed, pending>>
    BY <1>6, RequestKeyIsKey DEF RecordVerdict, OnceInv
  <2>2. requests[q] # None /\ answering \in filed[q] /\ Fits(decided, answering)
    BY <2>1 DEF FitsInv
  <2> HIDE DEF q
  <2>3. \A k \in Key : verdicts'[k] = IF k = q THEN decided ELSE verdicts[k]
    BY <2>1 DEF TypeOK
  <2>4. VerdictsAnswerTheirRequests'
    BY <2>1, <2>2, <2>3 DEF FitsInv, VerdictsAnswerTheirRequests, Fits
  <2> QED BY <2>1, <2>4 DEF FitsInv, Fits, RequestKey
<1>7. CASE StartEvaluate
  BY <1>7 DEF StartEvaluate, FitsInv, VerdictsAnswerTheirRequests, Fits, RequestKey, store
<1>8. CASE FinishProcess
  BY <1>3, <1>8 DEF FinishProcess, store
<1>9. CASE FinishEvaluate
  BY <1>9 DEF FinishEvaluate, FitsInv, VerdictsAnswerTheirRequests, Fits, RequestKey, store
<1>10. CASE Abort
  BY <1>3, <1>10 DEF Abort, store
<1>11. ASSUME NEW k \in TrackKey, EvaluateTrack(k) \/ EvaluateFails(k)
       PROVE  FitsInv'
  BY <1>1, <1>11 DEF EvaluateTrack, EvaluateFails, store
<1>12. CASE World
  BY <1>1, <1>12 DEF World, Tick, Release, Yank, Disclose, store, run, progress
<1>13. CASE ProofDoor
  BY <1>1, <1>13 DEF ProofDoor, StartPublish, Publish, PublishFails, store, run, progress
<1>14. CASE UNCHANGED vars
  BY <1>1, <1>14 DEF vars, store, run, progress
<1> QED BY <1>2, <1>4, <1>5, <1>6, <1>7, <1>8, <1>9, <1>10, <1>11, <1>12, <1>13,
           <1>14 DEF Next, Pipeline

\* The verdict found at a key answers a request that was filed there: it speaks
\* of the track and the version that request names, whatever was filed meanwhile.
THEOREM VerdictsFitTheirRequests ==
  Spec => []VerdictsAnswerTheirRequests
<1>1. Init => FitsInv
  BY DEF Init, FitsInv, VerdictsAnswerTheirRequests
<1>2. TypeOK /\ OnceInv /\ FitsInv /\ [Next]_vars => FitsInv'
  BY NextFits
<1>3. FitsInv => VerdictsAnswerTheirRequests
  BY DEF FitsInv
<1> QED BY <1>1, <1>2, <1>3, TypeCorrect, OnceInvariant, PTL DEF Spec

-----------------------------------------------------------------------------
(* What is asked.                                                          *)

\* A request as add files it on day d.
Filed(r, d) ==
  [pkg |-> r.pkg, type |-> r.type, track |-> r.track, version |-> r.version, at |-> d]

\* All that was asked, and is being answered, is of a certain kind.
AskedIn(S) ==
  /\ \A k \in Key : requests[k] # None => requests[k] \in S
  /\ pending \subseteq S

\* A run answers what was filed and nothing else.
LEMMA NextAsked ==
  ASSUME NEW S, \A r \in RequestSet, d \in Day : Filed(r, d) \in S,
         TypeOK, AskedIn(S), [Next]_vars
  PROVE  AskedIn(S)'
<1>1. CASE UNCHANGED requests /\ pending' \subseteq pending
  BY <1>1 DEF AskedIn
<1>2. ASSUME NEW r \in RequestSet, File(r)
      PROVE  AskedIn(S)'
  <2>1. Filed(r, now) \in S
    BY DEF TypeOK
  <2>2. /\ requests' = [requests EXCEPT ![RequestKey(Filed(r, now))] = Filed(r, now)]
        /\ pending' = pending
    BY <1>2 DEF File, Filed, run, progress
  <2>3. \A k \in Key : requests'[k] \in {requests[k], Filed(r, now)}
    BY <2>2 DEF TypeOK
  <2> QED BY <2>1, <2>2, <2>3 DEF AskedIn
<1>3. ASSUME NEW v \in {"process", "apply"}, StartProcess(v)
      PROVE  AskedIn(S)'
  <2>1. PendingRequests \subseteq S
    BY DEF PendingRequests, AskedIn
  <2> QED BY <1>3, <2>1 DEF StartProcess, AskedIn, store
<1>4. CASE Pipeline
  <2>1. ASSUME NEW r \in pending, Answer(r)
        PROVE  AskedIn(S)'
    BY <1>1, <2>1 DEF Answer
  <2>2. CASE StartEvaluate \/ FinishProcess \/ FinishEvaluate
    BY <1>1, <2>2 DEF StartEvaluate, FinishProcess, FinishEvaluate, store
  <2>3. CASE RecordVerdict
    BY <1>1, <2>3 DEF RecordVerdict
  <2>4. CASE Abort
    BY <1>1, <2>4 DEF Abort, store
  <2>5. ASSUME NEW k \in TrackKey, EvaluateTrack(k) \/ EvaluateFails(k)
        PROVE  AskedIn(S)'
    BY <1>1, <2>5 DEF EvaluateTrack, EvaluateFails, store
  <2> QED BY <1>3, <1>4, <2>1, <2>2, <2>3, <2>4, <2>5 DEF Pipeline
<1>5. CASE World
  BY <1>1, <1>5 DEF World, Tick, Release, Yank, Disclose, store, run, progress
<1>6. CASE ProofDoor
  BY <1>1, <1>6 DEF ProofDoor, StartPublish, Publish, PublishFails, store, run, progress
<1>7. CASE UNCHANGED vars
  BY <1>1, <1>7 DEF vars, store, run, progress
<1> QED BY <1>2, <1>4, <1>5, <1>6, <1>7 DEF Next

\* Nothing is asked at the start.
LEMMA InitAsked ==
  ASSUME NEW S
  PROVE  Init => AskedIn(S)
  BY DEF Init, AskedIn

-----------------------------------------------------------------------------
(* A rejection can be corrected.                                           *)

\* What upstream may ever list.
Upstream ==
  {v \in Version : \E p \in Package : InitialRelease[p][v] # None} \cup LaterRelease

\* It lists nothing else.
UpstreamInv ==
  \A p \in Package, v \in Version : released[p][v] # None => v \in Upstream

LEMMA UpstreamInvariant ==
  Spec => []UpstreamInv
<1>1. Init => UpstreamInv
  BY DEF Init, UpstreamInv, Upstream
<1>2. TypeOK /\ UpstreamInv /\ [Next]_vars => UpstreamInv'
  <2> SUFFICES ASSUME TypeOK, UpstreamInv, [Next]_vars PROVE UpstreamInv'
    OBVIOUS
  <2>1. CASE UNCHANGED released
    BY <2>1 DEF UpstreamInv
  <2>2. ASSUME NEW p \in Package, NEW v \in LaterRelease, Release(p, v)
        PROVE  UpstreamInv'
    <3>1. released' = [released EXCEPT ![p][v] = now]
      BY <2>2 DEF Release
    <3>2. \A q \in Package, w \in Version :
            released'[q][w] = IF q = p /\ w = v THEN now ELSE released[q][w]
      BY <3>1, RegisterAssumption DEF TypeOK
    <3> QED BY <3>2 DEF UpstreamInv, Upstream
  <2>3. CASE World
    BY <2>1, <2>2, <2>3 DEF World, Tick, Yank, Disclose
  <2>4. CASE ProofDoor
    BY <2>1, <2>4 DEF ProofDoor, StartPublish, Publish, PublishFails, upstream
  <2>5. ASSUME NEW r \in RequestSet, File(r)
        PROVE  UpstreamInv'
    BY <2>1, <2>5 DEF File, world, upstream
  <2>6. CASE Pipeline
    BY <2>1, <2>6
       DEF Pipeline, StartProcess, StartEvaluate, Answer, RecordVerdict, FinishProcess,
           EvaluateTrack, EvaluateFails, FinishEvaluate, Abort, world, upstream
  <2>7. CASE UNCHANGED vars
    BY <2>1, <2>7 DEF vars, world, upstream
  <2> QED BY <2>3, <2>4, <2>5, <2>6, <2>7 DEF Next
<1> QED BY <1>1, <1>2, TypeCorrect, PTL DEF Spec

\* A request for a line names no version besides.
LineOrVersion == {r \in Request : r.type = "open-track" => r.version = None}

LEMMA AskedForLineOrVersion ==
  ASSUME \A r \in RequestSet : r.type = "open-track" => r.version = None
  PROVE  Spec => []AskedIn(LineOrVersion)
<1>1. \A r \in RequestSet, d \in Day : Filed(r, d) \in LineOrVersion
  BY RegisterAssumption DEF Filed, LineOrVersion, Request
<1>2. TypeOK /\ AskedIn(LineOrVersion) /\ [Next]_vars => AskedIn(LineOrVersion)'
  BY <1>1, NextAsked
<1>3. Init => AskedIn(LineOrVersion)
  BY InitAsked
<1> QED BY <1>2, <1>3, TypeCorrect, PTL DEF Spec

\* The request a run turns to is one of those it had not answered.
LEMMA TurnsToAnswer ==
  ASSUME TypeOK, OnceInv, AnsweringInv, [Next]_vars,
         NEW r \in pending, answering' = r
  PROVE  Answer(r)
<1>1. r # None
  BY NoneAssumption DEF TypeOK
<1>2. answering' = answering => FALSE
  BY <1>1 DEF OnceInv, AnsweringInv
<1>3. ASSUME NEW s \in pending, Answer(s)
      PROVE  Answer(r)
  BY <1>3 DEF Answer
<1>4. CASE World \/ ProofDoor \/ (\E q \in RequestSet : File(q)) \/ UNCHANGED vars
  BY <1>2, <1>4 DEF World, Tick, Release, Yank, Disclose, ProofDoor, StartPublish,
                    Publish, PublishFails, File, vars, run, progress
<1>5. CASE Pipeline
  <2>1. CASE \E k \in TrackKey : EvaluateTrack(k) \/ EvaluateFails(k)
    BY <1>2, <2>1 DEF EvaluateTrack, EvaluateFails
  <2>2. CASE \E v \in {"process", "apply"} : StartProcess(v)
    BY <1>2, <2>2 DEF StartProcess
  <2>3. CASE StartEvaluate \/ FinishProcess \/ FinishEvaluate
    BY <1>2, <2>3 DEF StartEvaluate, FinishProcess, FinishEvaluate
  <2>4. CASE RecordVerdict \/ Abort
    BY <1>1, <2>4 DEF RecordVerdict, Abort
  <2> QED BY <1>3, <1>5, <2>1, <2>2, <2>3, <2>4 DEF Pipeline
<1> QED BY <1>4, <1>5 DEF Next

\* A request for one version is refused for what the version carries only if it
\* is on offer, and offered instead is what passes.
LEMMA OverFloorOffersWhatPasses ==
  ASSUME NEW r \in Request, r.type # "open-track", r.version # None,
         NEW cands, IsOffer(cands),
         \A v, w \in DOMAIN cands : Rank[v] = Rank[w] => v = w,
         VerdictOn(r, cands).code = "denied-over-floor",
         NEW v \in DOMAIN cands, Admissible(cands[v], at)
  PROVE  /\ \E w \in DOMAIN cands : Exceeds(cands[w].vulns, AdmissionMaxSeverity)
         /\ \E w \in VerdictOn(r, cands).alternatives :
              w \in DOMAIN cands /\ Admissible(cands[w], at) /\ Rank[w] # Rank[r.version]
<1> DEFINE found == ExactMatch(cands, r.version)
           equal == {w \in DOMAIN cands : Rank[w] = Rank[r.version]}
<1>1. VerdictOn(r, cands) = EvaluateExact(r, cands, at)
  BY DEF VerdictOn, EvaluateAdmission
<1>2. found = None \/ (found \in DOMAIN cands /\ Rank[found] = Rank[r.version])
  <2>1. equal # {} => Newest(equal) \in equal
    BY NewestIsGreatest DEF IsOffer
  <2> QED BY <2>1 DEF ExactMatch
<1>3. /\ found # None
      /\ Exceeds(cands[found].vulns, AdmissionMaxSeverity)
      /\ VerdictOn(r, cands).alternatives = PassingAlternatives(cands, found, at)
  <2> HIDE DEF found
  <2>1. CASE found = None
    BY <1>1, <2>1 DEF EvaluateExact, found
  <2>2. CASE found # None /\ Exceeds(cands[found].vulns, AdmissionMaxSeverity)
    BY <1>1, <2>2 DEF EvaluateExact, found
  <2>3. CASE found # None /\ ~ Exceeds(cands[found].vulns, AdmissionMaxSeverity)
    BY <1>1, <2>3 DEF EvaluateExact, found
  <2> QED BY <2>1, <2>2, <2>3
<1> HIDE DEF found
<1>4. \A w \in DOMAIN cands : Rank[w] = Rank[found] => ~ Admissible(cands[w], at)
  BY <1>2, <1>3 DEF Admissible
<1>5. \E w \in PassingAlternatives(cands, found, at) :
        w \in DOMAIN cands /\ Admissible(cands[w], at) /\ Rank[w] # Rank[found]
  BY <1>4, RejectionsOfferWhatPasses
<1> QED BY <1>2, <1>3, <1>5

\* A refused request for one version is offered one the policy would accept, if
\* there is one.  Upstream lists a version under one spelling: had it two and the
\* feed faulted one of them alone, the other would not be offered in its place.
THEOREM RejectionsOfferAWayOut ==
  ASSUME \A r \in RequestSet : r.type = "open-track" => r.version = None,
         \A v, w \in Upstream : Rank[v] = Rank[w] => v = w
  PROVE  Spec => RejectionsAreCorrectable
<1> DEFINE Refused(r)  == /\ answering' = r
                          /\ decided'.code = "denied-over-floor"
                          /\ r.version # None
           under(r, v) == {u \in VulnsRead(r.pkg, v) : ~ Exceeds(u, AdmissionMaxSeverity)}
           baked(r)    == {v \in Listed(r.pkg) :
                             /\ Rank[v] # Rank[r.version]
                             /\ at - released[r.pkg][v] >= QuarantineDays}
<1>1. ASSUME TypeOK, OnceInv, AnsweringInv, UpstreamInv, AskedIn(LineOrVersion), [Next]_vars,
             NEW r \in pending, Refused(r),
             NEW v \in baked(r), under(r, v) = VulnsRead(r.pkg, v)
      PROVE  \E w \in baked(r) \cap decided'.alternatives : under(r, w) # {}
  <2>1. r \in Request /\ r.pkg \in Package /\ r.type # "open-track"
    BY <1>1 DEF TypeOK, AskedIn, LineOrVersion, Request
  <2>2. Answer(r)
    BY <1>1, TurnsToAnswer
  <2>3. PICK answer \in FeedAnswers(r.pkg) : decided' = VerdictOn(r, Discover(r.pkg, answer))
    BY <2>2 DEF Answer
  <2> DEFINE cands == Discover(r.pkg, answer)
  <2>4. /\ DOMAIN cands = Listed(r.pkg)
        /\ \A w \in Listed(r.pkg) : cands[w].releasedAt = released[r.pkg][w]
    BY DEF Discover, Annotate
  <2>5. \A w \in Listed(r.pkg) :
          /\ answer.reach = "answered" => cands[w].vulns \in VulnsRead(r.pkg, w)
          /\ answer.reach # "answered" => cands[w].vulns = Clean
    BY <2>1, DiscoveredVectors
  <2>6. IsOffer(cands) /\ decided' = VerdictOn(r, cands)
    BY <1>1, <2>1, <2>3, DiscoveredIsDatedOffer DEF IsDatedOffer
  <2> HIDE DEF cands
  <2>7. \A u, w \in DOMAIN cands : Rank[u] = Rank[w] => u = w
    BY <1>1, <2>1, <2>4 DEF UpstreamInv, Listed
  <2>8. ~ Exceeds(Clean, AdmissionMaxSeverity)
    BY DEF Exceeds, Clean
  <2>9. ~ Exceeds(cands[v].vulns, AdmissionMaxSeverity)
    <3>1. CASE answer.reach = "answered"
      BY <1>1, <2>5, <3>1
    <3>2. CASE answer.reach # "answered"
      BY <1>1, <2>5, <2>8, <3>2
    <3> QED BY <3>1, <3>2
  <2>10. v \in DOMAIN cands /\ Admissible(cands[v], at)
    BY <1>1, <2>4, <2>9 DEF Admissible, Baked
  <2>11. /\ \E w \in DOMAIN cands : Exceeds(cands[w].vulns, AdmissionMaxSeverity)
         /\ \E w \in decided'.alternatives :
              w \in DOMAIN cands /\ Admissible(cands[w], at) /\ Rank[w] # Rank[r.version]
    BY <1>1, <2>1, <2>6, <2>7, <2>10, OverFloorOffersWhatPasses
  <2>12. answer.reach = "answered"
    BY <2>4, <2>5, <2>8, <2>11
  <2>13. PICK w \in decided'.alternatives :
           w \in DOMAIN cands /\ Admissible(cands[w], at) /\ Rank[w] # Rank[r.version]
    BY <2>11
  <2>14. w \in baked(r)
    BY <2>4, <2>13 DEF Admissible, Baked
  <2>15. cands[w].vulns \in under(r, w)
    BY <2>4, <2>5, <2>12, <2>13 DEF Admissible
  <2> QED BY <2>13, <2>14, <2>15
<1>2. TypeOK /\ OnceInv /\ AnsweringInv /\ UpstreamInv /\ AskedIn(LineOrVersion) /\ [Next]_vars
        => [\A r \in pending :
              Refused(r) =>
                ((\E v \in baked(r) : under(r, v) = VulnsRead(r.pkg, v))
                   => \E v \in baked(r) \cap decided'.alternatives : under(r, v) # {})]_vars
  BY <1>1
<1> QED
  BY <1>2, TypeCorrect, OnceInvariant, AnsweringInvariant, UpstreamInvariant,
     AskedForLineOrVersion, PTL DEF Spec, RejectionsAreCorrectable

-----------------------------------------------------------------------------
(* A run leaves no request behind.                                         *)

\* A request filed before the day of the run is answered, waits, or is the one
\* being answered.
QueueInv ==
  /\ at <= now
  /\ pc \in {"process", "record"} =>
       \A k \in Key : requests[k] # None /\ k.at < at =>
         \/ verdicts[k] # None
         \/ \E r \in pending : RequestKey(r) = k
         \/ pc = "record" /\ RequestKey(answering) = k

\* Nothing filed today bears an earlier date.
LEMMA FileQueues ==
  ASSUME TypeOK, QueueInv, NEW r \in RequestSet, File(r)
  PROVE  QueueInv'
<1> DEFINE request == [pkg |-> r.pkg, type |-> r.type, track |-> r.track,
                       version |-> r.version, at |-> now]
           q       == RequestKey(request)
<1>1. /\ requests' = [requests EXCEPT ![q] = request]
      /\ UNCHANGED <<now, at, verdicts, pc, pending, answering>>
  BY DEF File, run, progress, world, upstream
<1>2. q.at = now
  BY DEF RequestKey
<1> HIDE DEF q, request
<1>3. ASSUME NEW k \in Key, requests'[k] # None, k.at < at
      PROVE  requests[k] # None
  <2>1. at \in Nat /\ now \in Nat /\ k.at \in Nat
    BY DEF TypeOK, Day, Key
  <2>2. k # q
    BY <1>2, <1>3, <2>1 DEF QueueInv
  <2> QED BY <1>1, <1>3, <2>2 DEF TypeOK
<1> QED BY <1>1, <1>3 DEF QueueInv, RequestKey

LEMMA NextQueues ==
  ASSUME TypeOK, OnceInv, QueueInv, [Next]_vars
  PROVE  QueueInv'
<1>0. at \in Nat /\ now \in Nat
  BY DEF TypeOK, Day
<1>1. CASE UNCHANGED <<now, at, requests, verdicts, pc, pending, answering>>
  BY <1>1 DEF QueueInv, RequestKey
<1>2. ASSUME NEW r \in RequestSet, File(r)
      PROVE  QueueInv'
  BY <1>2, FileQueues
<1>3. CASE pc' \notin {"process", "record"} /\ UNCHANGED <<now, at>>
  BY <1>3 DEF QueueInv
<1>4. ASSUME NEW v \in {"process", "apply"}, StartProcess(v)
      PROVE  QueueInv'
  <2>1. /\ pending' = PendingRequests /\ pc' = "process" /\ at' = now
        /\ UNCHANGED <<now, requests, verdicts>>
    BY <1>4 DEF StartProcess, store, world, upstream
  <2>2. ASSUME NEW k \in Key, requests[k] # None, verdicts[k] = None
        PROVE  \E r \in pending' : RequestKey(r) = k
    <3>1. requests[k] \in PendingRequests
      BY <2>2 DEF PendingRequests
    <3>2. RequestKey(requests[k]) = k
      BY <2>2 DEF OnceInv
    <3> QED BY <2>1, <3>1, <3>2
  <2> QED BY <1>0, <2>1, <2>2 DEF QueueInv, RequestKey
<1>5. CASE StartEvaluate
  BY <1>0, <1>5 DEF StartEvaluate, QueueInv, store, world, upstream
<1>6. ASSUME NEW r \in pending, Answer(r)
      PROVE  QueueInv'
  <2>1. /\ pc = "process" /\ pc' = "record" /\ answering' = r /\ pending' = pending \ {r}
        /\ UNCHANGED <<now, at, requests, verdicts>>
    BY <1>6 DEF Answer, Answerable, IsNext, store, world, upstream
  <2> QED BY <2>1 DEF QueueInv, RequestKey
<1>7. CASE RecordVerdict
  <2> DEFINE q == RequestKey(answering)
  <2>1. /\ pc = "record" /\ pc' = "process" /\ q \in Key
        /\ verdicts' = [verdicts EXCEPT ![q] = decided]
        /\ UNCHANGED <<now, at, requests, pending>>
    BY <1>7, RequestKeyIsKey DEF RecordVerdict, OnceInv, world, upstream
  <2>2. decided # None
    BY <2>1, NoneAssumption DEF OnceInv
  <2> HIDE DEF q
  <2>3. \A k \in Key : verdicts'[k] = IF k = q THEN decided ELSE verdicts[k]
    BY <2>1 DEF TypeOK
  <2> QED BY <2>1, <2>2, <2>3 DEF QueueInv, RequestKey, q
<1>8. CASE FinishProcess
  BY <1>3, <1>8 DEF FinishProcess, world, upstream
<1>9. CASE FinishEvaluate \/ Abort
  BY <1>3, <1>9 DEF FinishEvaluate, Abort, world, upstream
<1>10. ASSUME NEW k \in TrackKey, EvaluateTrack(k) \/ EvaluateFails(k)
       PROVE  QueueInv'
  BY <1>1, <1>10 DEF EvaluateTrack, EvaluateFails, store, world, upstream
<1>11. CASE Tick
  BY <1>0, <1>11 DEF Tick, QueueInv, RequestKey, store, run, progress
<1>12. CASE World /\ ~ Tick
  BY <1>1, <1>12 DEF World, Release, Yank, Disclose, store, run, progress
<1>13. CASE ProofDoor
  BY <1>1, <1>13 DEF ProofDoor, StartPublish, Publish, PublishFails, store, run, progress, world, upstream
<1>14. CASE UNCHANGED vars
  BY <1>1, <1>14 DEF vars, store, run, progress, world, upstream
<1> QED BY <1>2, <1>4, <1>5, <1>6, <1>7, <1>8, <1>9, <1>10, <1>11, <1>12, <1>13,
           <1>14 DEF Next, Pipeline

\* A run that gets past the requests has answered every one filed before its
\* day (RunsLeaveNoRequestBehind): "the pipeline answers it on its next run"
\* needs nothing but that the run gets there.
THEOREM RunsAnswerAll == Spec => RunsLeaveNoRequestBehind
<1>1. Init => QueueInv
  BY DEF Init, QueueInv
<1>2. TypeOK /\ OnceInv /\ QueueInv /\ [Next]_vars => QueueInv'
  BY NextQueues
<1>3. QueueInv /\ [Next]_vars =>
        [FinishProcess =>
           \A k \in Key : requests[k] # None /\ k.at < at => verdicts[k] # None]_vars
  BY DEF QueueInv, FinishProcess
<1> QED BY <1>1, <1>2, <1>3, TypeCorrect, OnceInvariant, PTL DEF Spec, RunsLeaveNoRequestBehind

-----------------------------------------------------------------------------
(* A run takes finitely many steps.                                        *)

Unseen == {k \in TrackKey : snapshot[k] # None}

\* What a run has ahead of it: requests, then tracks.  A request takes two
\* steps, its answer and its record.
Phase ==
  CASE pc \in {"process", "record"} -> 2
    [] pc = "evaluate"              -> 1
    [] OTHER                        -> 0

Left ==
  CASE pc = "process"  -> 2 * Cardinality(pending)
    [] pc = "record"   -> 2 * Cardinality(pending) + 1
    [] pc = "evaluate" -> Cardinality(Unseen)
    [] OTHER           -> 0

Ahead == <<Phase, Left>>

AheadInv == Ahead \in Nat \X Nat

Closer == Phase' < Phase \/ (Phase' = Phase /\ Left' < Left)

\* A step of a run under way.
RunStep ==
  \/ \E r \in pending : Answer(r)
  \/ RecordVerdict
  \/ FinishProcess
  \/ \E k \in TrackKey : EvaluateTrack(k) \/ EvaluateFails(k)
  \/ FinishEvaluate
  \/ Abort

LEMMA KeysAreFinite ==
  ASSUME IsFiniteSet(Package)
  PROVE  IsFiniteSet(Key)
<1> DEFINE S == (Package \X Day) \X RequestType
           f == [x \in S |-> [pkg |-> x[1][1], at |-> x[1][2], type |-> x[2]]]
<1>1. IsFiniteSet(Day)
  BY FS_Interval, RegisterAssumption DEF Day
<1>2. IsFiniteSet(RequestType)
  <2>1. /\ IsFiniteSet({"admission"}) /\ IsFiniteSet({"open-track"})
        /\ IsFiniteSet({"upgrade"})
    BY FS_Singleton
  <2>2. RequestType = {"admission"} \cup {"open-track"} \cup {"upgrade"}
    BY DEF RequestType
  <2> QED BY <2>1, <2>2, FS_Union
<1>3. IsFiniteSet(Package \X Day)
  BY <1>1, FS_Product
<1>4. IsFiniteSet(S)
  BY <1>2, <1>3, FS_Product
<1>5. ASSUME NEW k \in Key
      PROVE  \E x \in S : k = f[x]
  <2>1. <<<<k.pkg, k.at>>, k.type>> \in S
    BY DEF Key
  <2>2. f[<<<<k.pkg, k.at>>, k.type>>] = [pkg |-> k.pkg, at |-> k.at, type |-> k.type]
    BY <2>1
  <2> QED BY <2>1, <2>2 DEF Key
<1>6. IsFiniteSet({f[x] : x \in S})
  <2> HIDE DEF S
  <2>1. f \in Surjection(S, {f[x] : x \in S})
    BY DEF Surjection
  <2> QED BY <1>4, <2>1, FS_Surjection
<1>7. Key \subseteq {f[x] : x \in S}
  BY <1>5
<1> QED BY <1>6, <1>7, FS_Subset

\* A run reads finitely many requests.
PendingFinite == IsFiniteSet(pending)

LEMMA PendingStayFinite ==
  ASSUME IsFiniteSet(Package), PendingFinite, [Next]_vars
  PROVE  PendingFinite'
<1>1. CASE pending' = pending \/ pending' = {} \/ \E r \in pending : pending' = pending \ {r}
  BY <1>1, FS_EmptySet, FS_Subset DEF PendingFinite
<1>2. ASSUME NEW v \in {"process", "apply"}, StartProcess(v)
      PROVE  PendingFinite'
  <2> DEFINE D == {j \in Key : requests[j] # None /\ verdicts[j] = None}
             f == [k \in D |-> requests[k]]
  <2>1. IsFiniteSet(D)
    BY KeysAreFinite, FS_Subset
  <2>2. {f[k] : k \in D} = PendingRequests
    BY DEF PendingRequests
  <2> HIDE DEF D
  <2>3. f \in Surjection(D, {f[k] : k \in D})
    BY DEF Surjection
  <2>4. IsFiniteSet({f[k] : k \in D})
    BY <2>1, <2>3, FS_Surjection
  <2> QED BY <1>2, <2>2, <2>4 DEF StartProcess, PendingFinite
<1>3. ASSUME NEW r \in pending, Answer(r)
      PROVE  PendingFinite'
  BY <1>1, <1>3 DEF Answer
<1>4. CASE RecordVerdict \/ FinishProcess \/ FinishEvaluate \/ Abort \/ StartEvaluate
  BY <1>1, <1>4 DEF RecordVerdict, FinishProcess, FinishEvaluate, Abort, StartEvaluate
<1>5. ASSUME NEW k \in TrackKey, EvaluateTrack(k) \/ EvaluateFails(k)
      PROVE  PendingFinite'
  BY <1>1, <1>5 DEF EvaluateTrack, EvaluateFails
<1>6. CASE World \/ ProofDoor \/ (\E r \in RequestSet : File(r)) \/ UNCHANGED vars
  BY <1>1, <1>6 DEF World, Tick, Release, Yank, Disclose, ProofDoor, StartPublish, Publish,
     PublishFails, File, vars, run, progress
<1> QED BY <1>2, <1>3, <1>4, <1>5, <1>6 DEF Next, Pipeline

LEMMA AheadIsNatural ==
  ASSUME IsFiniteSet(Package), IsFiniteSet(Prefix), TypeOK, PendingFinite
  PROVE  /\ Cardinality(pending) \in Nat
         /\ IsFiniteSet(Unseen)
         /\ Cardinality(Unseen) \in Nat
         /\ AheadInv
<1>1. IsFiniteSet(TrackKey)
  BY FS_Product DEF TrackKey
<1>2. IsFiniteSet(Unseen)
  BY <1>1, FS_Subset DEF Unseen
<1>3. Cardinality(pending) \in Nat /\ Cardinality(Unseen) \in Nat
  BY <1>2, FS_CardinalityType DEF PendingFinite
<1>4. Phase \in Nat
  BY DEF Phase
<1>5. Left \in Nat
  BY <1>3 DEF Left
<1> QED BY <1>2, <1>3, <1>4, <1>5 DEF AheadInv, Ahead

LEMMA RunComesCloser ==
  ASSUME IsFiniteSet(Package), IsFiniteSet(Prefix), TypeOK, PendingFinite, RunStep
  PROVE  Closer
<1>1. ASSUME NEW r \in pending, Answer(r)
      PROVE  Closer
  <2>1. pc = "process" /\ pc' = "record" /\ pending' = pending \ {r}
    BY <1>1 DEF Answer, Answerable, IsNext
  <2>2. Cardinality(pending') = Cardinality(pending) - 1
    BY <2>1, FS_RemoveElement DEF PendingFinite
  <2>3. Phase' = Phase /\ Left = 2 * Cardinality(pending) /\ Left' = 2 * Cardinality(pending') + 1
    BY <2>1 DEF Phase, Left
  <2> QED BY <2>2, <2>3, AheadIsNatural DEF Closer
<1>2. CASE RecordVerdict
  <2>1. pc = "record" /\ pc' = "process" /\ pending' = pending
    BY <1>2 DEF RecordVerdict
  <2>2. Phase' = Phase /\ Left = 2 * Cardinality(pending) + 1 /\ Left' = 2 * Cardinality(pending)
    BY <2>1 DEF Phase, Left
  <2> QED BY <2>2, AheadIsNatural DEF Closer
<1>3. CASE FinishProcess \/ FinishEvaluate \/ Abort
  <2>1. \/ pc = "process" /\ pc' \in {"evaluate", "idle"}
        \/ pc # "idle" /\ pc' = "idle"
    BY <1>3 DEF FinishProcess, FinishEvaluate, Abort
  <2>2. pc \in {"idle", "process", "record", "evaluate"}
    BY DEF TypeOK
  <2> QED BY <2>1, <2>2 DEF Closer, Phase
<1>4. ASSUME NEW k \in TrackKey, EvaluateTrack(k) \/ EvaluateFails(k)
      PROVE  Closer
  <2>1. /\ pc = "evaluate" /\ pc' = "evaluate" /\ snapshot[k] # None
        /\ snapshot' = [snapshot EXCEPT ![k] = None]
    BY <1>4 DEF EvaluateTrack, EvaluateFails, Leave
  <2>2. k \in Unseen /\ Unseen' = Unseen \ {k}
    BY <2>1 DEF Unseen, TypeOK
  <2>3. Cardinality(Unseen') = Cardinality(Unseen) - 1
    BY <2>2, AheadIsNatural, FS_RemoveElement
  <2>4. Phase' = Phase /\ Left = Cardinality(Unseen) /\ Left' = Cardinality(Unseen')
    BY <2>1 DEF Phase, Left, Unseen
  <2> QED BY <2>3, <2>4, AheadIsNatural DEF Closer
<1> QED BY <1>1, <1>2, <1>3, <1>4 DEF RunStep

\* Every step of a run brings it closer to its end, by a measure that cannot
\* fall for ever, and no request filed, version released or track published
\* meanwhile adds to what it has ahead of it.
THEOREM RunsComeCloser ==
  ASSUME IsFiniteSet(Package), IsFiniteSet(Prefix)
  PROVE  Spec => /\ []AheadInv
                 /\ [][/\ RunStep => Closer
                       /\ ~ RunStep /\ pc # "idle" => Ahead' = Ahead]_vars
<1>1. Init => PendingFinite
  BY FS_EmptySet DEF Init, PendingFinite
<1>2. PendingFinite /\ [Next]_vars => PendingFinite'
  BY PendingStayFinite
<1>3. TypeOK /\ PendingFinite => AheadInv
  BY AheadIsNatural
<1>4. TypeOK /\ PendingFinite /\ [Next]_vars =>
        [/\ RunStep => Closer
         /\ ~ RunStep /\ pc # "idle" => Ahead' = Ahead]_vars
  <2>1. TypeOK /\ PendingFinite /\ RunStep => Closer
    BY RunComesCloser
  <2>2. ASSUME Next, ~ RunStep, pc # "idle"
        PROVE  Ahead' = Ahead
    <3>1. World \/ ProofDoor \/ \E r \in RequestSet : File(r)
      BY <2>2 DEF Next, Pipeline, RunStep, StartProcess, StartEvaluate
    <3>2. run' = run
      BY <3>1 DEF World, Tick, Release, Yank, Disclose, ProofDoor, StartPublish, Publish,
         PublishFails, File
    <3> QED BY <3>2 DEF run, progress, Ahead, Phase, Left, Unseen
  <2> QED BY <2>1, <2>2
<1> QED BY <1>1, <1>2, <1>3, <1>4, TypeCorrect, PTL DEF Spec

=============================================================================
