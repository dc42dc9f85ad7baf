------------------------------ MODULE Register ------------------------------
(***************************************************************************)
(* The register: the index of tracks, the requests filed against it and    *)
(* the verdicts that answer them, together with the pipeline that moves    *)
(* them (registercontroller.go), the verbs that start it (clidriver.go),   *)
(* the store (storeadapter.go) and the world it watches: registries that   *)
(* release and yank, a vulnerability feed that learns, forgets and fails.  *)
(*                                                                         *)
(* Three actors interleave.  A requester files.  The pipeline answers the  *)
(* pending requests one by one and then evaluates every track; each answer *)
(* is two writes, and a run may die between any two.  A proof pipeline     *)
(* publishes internal packages, each by a read and a write.  Time is       *)
(* counted in days.                                                        *)
(***************************************************************************)
EXTENDS Policy

CONSTANTS
  Package,           \* <<ecosystem, package>> pairs
  PackageRank,       \* their order as strings
  Nested,            \* [package -> the packages whose path lies below its own]
  Internal,          \* those of the internal ecosystem: no registry lists them
  Missing,           \* those whose registry answers an error
  Publishable,       \* those a proof pipeline publishes, and
  PublishedVersion,  \* the versions it publishes
  RequestSet,        \* what requesters ask: requests without their date
  Reach,             \* how the feed may answer: "answered" and/or "unreachable"
  Finding,           \* what the world may learn about a version
  Disclosable,       \* the versions it may learn it about
  Yankable,          \* the versions upstream may take back
  InitialRelease,    \* [package -> [version -> day or None]]: upstream at the start
  LaterRelease,      \* the versions upstream may still release
  Horizon,           \* bound: the last day
  MaxDisclosures,    \* bound: how often the feed's knowledge changes
  MaxSharedKeys      \* bound: how many keys are those of different requests

Day == 0..Horizon

RequestType == {"admission", "open-track", "upgrade"}

ASSUME RegisterAssumption ==
  /\ Horizon \in Nat
  /\ MaxDisclosures \in Nat
  /\ MaxSharedKeys \in Nat
  /\ PackageRank \in [Package -> Int]
  /\ \A p, q \in Package : PackageRank[p] = PackageRank[q] => p = q
  /\ Nested \in [Package -> SUBSET Package]
  /\ \A p \in Package : \A q \in Nested[p] : PackageRank[p] < PackageRank[q]
  /\ Internal \subseteq Missing
  /\ Missing \subseteq Package
  /\ Publishable \subseteq Package
  /\ PublishedVersion \subseteq Version
  /\ RequestSet \subseteq [pkg : Package, type : RequestType,
                           track : Prefix \cup {None}, version : Version \cup {None}]
  /\ \A r \in RequestSet : r.type = "open-track" => r.track # None
  /\ Reach \subseteq {"answered", "unreachable"}
  /\ Finding \subseteq [vulns : Vector, classified : BOOLEAN,
                        publishedAt : Day \cup {None}, borrowed : BOOLEAN]
  /\ Disclosable \subseteq Version
  /\ Yankable \subseteq Version
  /\ LaterRelease \subseteq Version
  /\ InitialRelease \in [Package -> [Version -> {0, None}]]
  /\ \A p \in Missing, v \in Version : InitialRelease[p][v] = None

-----------------------------------------------------------------------------
(* Records.                                                                *)

Severities == Severity \cup {"unknown"}

Advisory == [severity : Severities, since : Day]

Deprecation == [reason : {"no-fix", "stale"}, since : Day]

Track == [current : Version, releasedAt : Day, vulns : Vector,
          outcome : Outcome \cup {None}, advisory : Advisory \cup {None},
          deprecated : Deprecation \cup {None}, quietSince : Day \cup {None}]

TrackKey == Package \X Prefix

\* An open-track request names its track.
Request == {r \in [pkg : Package, type : RequestType, track : Prefix \cup {None},
                   version : Version \cup {None}, at : Day] :
              r.type = "open-track" => r.track # None}

\* What names a request record and the verdict that mirrors it.
Key == [pkg : Package, at : Day, type : RequestType]

RequestKey(r) == [pkg |-> r.pkg, at |-> r.at, type |-> r.type]

\* What a publish has read and is about to write.
Publication == [key : Publishable \X Prefix, version : Version,
                track : Track \cup {None}, at : Day]

ASSUME NoneAssumption ==
  /\ None \notin Track
  /\ None \notin Request
  /\ None \notin Verdict
  /\ None \notin Advisory
  /\ None \notin Deprecation
  /\ None \notin Publication
  /\ None \notin Nat
  /\ None \notin Outcome

\* borrowed: the severities are those of records the findings are aliases of.
NoFinding == [vulns |-> Clean, classified |-> FALSE, publishedAt |-> None,
              borrowed |-> FALSE]

\* The same findings when those records do not load: none has a severity, and
\* one without counts as high.
Untold(f) ==
  [f EXCEPT !.vulns = [Clean EXCEPT !.high = f.vulns.critical + f.vulns.high
                                             + f.vulns.medium + f.vulns.low],
            !.classified = FALSE]

-----------------------------------------------------------------------------
VARIABLES
  now,          \* the clock
  released,     \* [package -> [version -> day or None]]
  yanked,       \* [package -> versions taken back]
  findings,     \* [package -> [version -> what the feed knows]]
  disclosures,  \* how often findings changed
  publishing,   \* the publish that has read its track and not written it
  index,        \* the store: [track key -> track or None]
  requests,     \*            [key -> request or None]
  verdicts,     \*            [key -> verdict or None]
  filed,        \* history: [key -> the requests ever written there]
  pc,           \* the pipeline: "idle", "process", "record" or "evaluate"
  verb,         \* the verb it runs: "process", "apply" or "evaluate"
  at,           \* the day it took for its whole run
  pending,      \* the requests it read and has not answered
  answering,    \* the request it has decided and not recorded, and
  decided,      \* the verdict on it
  snapshot,     \* the tracks it read and has not evaluated
  unmeasured    \* Report.Unmeasured: the tracks it says were not checked

upstream == <<now, released, yanked, findings, disclosures>>
world    == <<upstream, publishing>>
store    == <<index, requests, verdicts, filed>>
progress == <<pending, answering, decided, snapshot, unmeasured>>
run      == <<pc, verb, at, progress>>
vars     == <<world, store, run>>

NoTracks == [k \in TrackKey |-> None]

-----------------------------------------------------------------------------
(* Discovery: the versions a registry lists, annotated by the feed.        *)

Listed(p) == {v \in Version : released[p][v] # None} \ yanked[p]

\* How the feed may answer about a package as a whole: it carries no record of
\* it, which it cannot if it knows of a finding, or does not answer, or answers
\* and then fails to tell the borrowed severities of some versions.
FeedAnswers(p) ==
  LET borrowed == {v \in Version : findings[p][v].borrowed}
      absent   == IF \A v \in Version : findings[p][v] = NoFinding
                  THEN {"not-found"} ELSE {}
  IN  [reach : Reach \cap {"answered"}, untold : SUBSET borrowed]
        \cup [reach : (Reach \ {"answered"}) \cup absent, untold : {{}}]

\* What an answer of the feed tells of a version.
Told(p, v, answer) ==
  IF answer.reach # "answered" THEN NoFinding
  ELSE IF v \in answer.untold THEN Untold(findings[p][v])
  ELSE findings[p][v]

\* Mutant of Annotate: a feed that does not answer reads as clean.
AnnotateSilenceAsClean(p, releasedAt, answer) ==
  [v \in DOMAIN releasedAt |->
     LET f == Told(p, v, answer)
     IN  [releasedAt  |-> releasedAt[v],
          vulns       |-> f.vulns,
          outcome     |-> IF f.vulns = Clean THEN "clean" ELSE "findings",
          classified  |-> f.classified,
          publishedAt |-> f.publishedAt]]

Annotate(p, releasedAt, answer) ==
  [v \in DOMAIN releasedAt |->
     LET f == Told(p, v, answer)
     IN  [releasedAt  |-> releasedAt[v],
          vulns       |-> f.vulns,
          outcome     |-> IF answer.reach # "answered" THEN answer.reach
                          ELSE IF f.vulns = Clean THEN "clean" ELSE "findings",
          classified  |-> f.classified,
          publishedAt |-> f.publishedAt]]

Discover(p, answer) == Annotate(p, [v \in Listed(p) |-> released[p][v]], answer)

\* An internal track is weighed against its own current version alone.
Refresh(p, track, answer) ==
  Annotate(p, [v \in {track.current} |-> track.releasedAt], answer)

CandidatesFor(p, track, answer) ==
  IF p \in Internal THEN Refresh(p, track, answer) ELSE Discover(p, answer)

-----------------------------------------------------------------------------
(* What the controller writes into a track.                                *)

\* A track that does not exist yet.  It is only ever written once advanced.
NewTrack ==
  [current |-> None, releasedAt |-> 0, vulns |-> Clean, outcome |-> None,
   advisory |-> None, deprecated |-> None, quietSince |-> None]

\* Mutant of Advance: moves the facts and leaves the pointer.
AdvanceFactsAlone(track, v, cands) ==
  [track EXCEPT !.releasedAt = cands[v].releasedAt,
                !.vulns = cands[v].vulns, !.outcome = cands[v].outcome]

\* The policy only adopts versions on offer, so the facts are always there.
Advance(track, v, cands) ==
  [track EXCEPT !.current = v, !.releasedAt = cands[v].releasedAt,
                !.vulns = cands[v].vulns, !.outcome = cands[v].outcome]

HasSuccessor(prefix, cands) ==
  \E v \in DOMAIN cands : /\ v \notin Line[prefix]
                          /\ Rank[v] > Rank[prefix]
                          /\ v \notin Prerelease

LastRelease(prefix, cands) ==
  LET days == {cands[v].releasedAt : v \in DOMAIN cands \cap Line[prefix]}
  IN  IF days = {} THEN None ELSE Max(days)

FixExists(track, prefix, cands) ==
  \E v \in DOMAIN cands : /\ v \in Line[prefix]
                          /\ Rank[v] > Rank[track.current]
                          /\ Safer(cands[v].vulns, cands[track.current].vulns)

Ceiling(facts) == IF facts.classified THEN Worst(facts.vulns) ELSE "unknown"

\* Mutants of AdvisoryOn: only what is over the floor deserves one; the date
\* is that of the release.
AdvisoryOverTheFloor(track, prefix, cands, t) ==
  LET facts == cands[track.current]
  IN  IF ~ Exceeds(facts.vulns, AdmissionMaxSeverity) \/ FixExists(track, prefix, cands)
      THEN None
      ELSE [severity |-> Ceiling(facts),
            since    |-> IF facts.publishedAt = None THEN t ELSE facts.publishedAt]
AdvisorySinceRelease(track, prefix, cands, t) ==
  LET facts == cands[track.current]
  IN  IF facts.vulns = Clean \/ FixExists(track, prefix, cands) THEN None
      ELSE [severity |-> Ceiling(facts), since |-> facts.releasedAt]

\* The advisory the measured facts of the current version call for.
AdvisoryOn(track, prefix, cands, t) ==
  LET facts == cands[track.current]
  IN  IF facts.vulns = Clean \/ FixExists(track, prefix, cands) THEN None
      ELSE [severity |-> Ceiling(facts),
            since    |-> IF facts.publishedAt = None THEN t ELSE facts.publishedAt]

\* Mutant of MaintainAdvisory: an advisory that stands is left as it is.
MaintainAdvisoryOnce(track, prefix, cands, t) ==
  IF track.current \notin DOMAIN cands THEN track
  ELSE LET facts == cands[track.current]
           due   == AdvisoryOn(track, prefix, cands, t)
       IN  [track EXCEPT !.vulns    = facts.vulns,
                         !.outcome  = facts.outcome,
                         !.advisory = IF Measured(facts.outcome) /\ (@ = None \/ due = None)
                                      THEN due ELSE @]

MaintainAdvisory(track, prefix, cands, t) ==
  IF track.current \notin DOMAIN cands THEN track
  ELSE LET facts == cands[track.current]
       IN  [track EXCEPT !.vulns    = facts.vulns,
                         !.outcome  = facts.outcome,
                         !.advisory = IF Measured(facts.outcome)
                                      THEN AdvisoryOn(track, prefix, cands, t)
                                      ELSE @]

\* Mutant of MaintainWindows: quiet does not see the fresh deprecation.
MaintainWindowsApart(track, prefix, cands, t) ==
  LET successor == HasSuccessor(prefix, cands)
      last      == LastRelease(prefix, cands)
  IN  [track EXCEPT !.deprecated = EvaluateDeprecation(track, successor, last, t),
                    !.quietSince = EvaluateQuiet(track, successor, last, t)]

MaintainWindows(track, prefix, cands, t) ==
  LET successor == HasSuccessor(prefix, cands)
      last      == LastRelease(prefix, cands)
      aged      == [track EXCEPT !.deprecated =
                      EvaluateDeprecation(track, successor, last, t)]
  IN  [aged EXCEPT !.quietSince = EvaluateQuiet(aged, successor, last, t)]

Maintain(track, prefix, cands, t) ==
  MaintainWindows(MaintainAdvisory(track, prefix, cands, t), prefix, cands, t)

\* Mutant of Admit: writes existing tracks only.
AdmitExisting(p, verdict, cands) ==
  LET k     == <<p, verdict.track>>
      moved == Maintain(Advance(index[k], verdict.adopted, cands), verdict.track, cands, at)
  IN  IF index[k] = None THEN index
      ELSE IF Rank[verdict.adopted] <= Rank[index[k].current] THEN index
      ELSE [index EXCEPT ![k] = moved]

\* admit: the index after an adopted verdict on package p.
Admit(p, verdict, cands) ==
  LET k     == <<p, verdict.track>>
      moved == Maintain(Advance(IF index[k] = None THEN NewTrack ELSE index[k],
                                verdict.adopted, cands),
                        verdict.track, cands, at)
  IN  IF index[k] # None /\ Rank[verdict.adopted] <= Rank[index[k].current]
      THEN index
      ELSE [index EXCEPT ![k] = moved]

-----------------------------------------------------------------------------
Init ==
  /\ now = 0
  /\ released = InitialRelease
  /\ yanked = [p \in Package |-> {}]
  /\ findings = [p \in Package |-> [v \in Version |-> NoFinding]]
  /\ disclosures = 0
  /\ publishing = None
  /\ index = NoTracks
  /\ requests = [k \in Key |-> None]
  /\ verdicts = [k \in Key |-> None]
  /\ filed = [k \in Key |-> {}]
  /\ pc = "idle"
  /\ verb = "apply"
  /\ at = 0
  /\ pending = {}
  /\ answering = None
  /\ decided = None
  /\ snapshot = NoTracks
  /\ unmeasured = {}

-----------------------------------------------------------------------------
(* The world.                                                              *)

Tick ==
  /\ now < Horizon
  /\ now' = now + 1
  /\ UNCHANGED <<released, yanked, findings, disclosures, publishing, store, run>>

Release(p, v) ==
  /\ p \notin Missing
  /\ released[p][v] = None
  /\ released' = [released EXCEPT ![p][v] = now]
  /\ UNCHANGED <<now, yanked, findings, disclosures, publishing, store, run>>

Yank(p, v) ==
  /\ v \in Listed(p)
  /\ yanked' = [yanked EXCEPT ![p] = @ \cup {v}]
  /\ UNCHANGED <<now, released, findings, disclosures, publishing, store, run>>

\* The feed learns of a finding, revises it or withdraws it.
Disclose(p, v, f) ==
  /\ disclosures < MaxDisclosures
  /\ findings[p][v] # f
  /\ f.publishedAt # None => f.publishedAt <= now
  /\ findings' = [findings EXCEPT ![p][v] = f]
  /\ disclosures' = disclosures + 1
  /\ UNCHANGED <<now, released, yanked, publishing, store, run>>

-----------------------------------------------------------------------------
(* A requester.                                                            *)

\* add: the record is written at a key made of package, second and type, over
\* another request if one has the same key.
File(r) ==
  LET request == [pkg |-> r.pkg, type |-> r.type, track |-> r.track,
                  version |-> r.version, at |-> now]
      k == RequestKey(request)
  IN  /\ requests' = [requests EXCEPT ![k] = request]
      /\ filed' = [filed EXCEPT ![k] = @ \cup {request}]
      /\ Cardinality({j \in Key : Cardinality(filed'[j]) > 1}) <= MaxSharedKeys
      /\ UNCHANGED <<world, index, verdicts, run>>

-----------------------------------------------------------------------------
(* The pipeline.                                                           *)

\* Mutants of PendingRequests: answered requests again, today's alone.
EveryRequest == {requests[k] : k \in {j \in Key : requests[j] # None}}
TodaysRequests ==
  {requests[k] : k \in {j \in Key : /\ j.at = now
                                     /\ requests[j] # None
                                     /\ verdicts[j] = None}}

PendingRequests ==
  {requests[k] : k \in {j \in Key : requests[j] # None /\ verdicts[j] = None}}

StartProcess(v) ==
  /\ pc = "idle"
  /\ verb' = v
  /\ at' = now
  /\ pc' = "process"
  /\ pending' = PendingRequests
  /\ UNCHANGED <<world, store, answering, decided, snapshot, unmeasured>>

StartEvaluate ==
  /\ pc = "idle"
  /\ verb' = "evaluate"
  /\ at' = now
  /\ pc' = "evaluate"
  /\ snapshot' = index
  /\ UNCHANGED <<world, store, pending, answering, decided, unmeasured>>

\* The types in the order of their names.
TypeRank(type) == CASE type = "admission" -> 1 [] type = "open-track" -> 2 [] OTHER -> 3

\* Requests are answered in the order of their keys, as strings.
Before(r, s) ==
  \/ PackageRank[r.pkg] < PackageRank[s.pkg]
  \/ /\ r.pkg = s.pkg
     /\ \/ r.at < s.at
        \/ r.at = s.at /\ TypeRank(r.type) < TypeRank(s.type)

\* The keys listed under a package's path: its own tracks and, below them,
\* those of the packages nested in it.
TracksOf(p) == {k \in ({p} \cup Nested[p]) \X Prefix : index[k] # None}

FinerTracks(p) == {k \in TracksOf(p) : k[2] \in Finer}

\* The default track is the first of the highest majors listed.
DefaultCurrent(p, cands) ==
  LET majors  == TracksOf(p) \ FinerTracks(p)
      first(k) == \A l \in majors : \/ Rank[l[2]] < Rank[k[2]]
                                   \/ /\ Rank[l[2]] = Rank[k[2]]
                                      /\ PackageRank[k[1]] <= PackageRank[l[1]]
      current == {index[k].current : k \in {l \in majors : first(l)}} \cap DOMAIN cands
  IN  IF current = {} THEN None ELSE CHOOSE v \in current : TRUE

VerdictOn(r, cands) ==
  IF r.type = "open-track"
  THEN EvaluateTrackOpen(r, cands, DefaultCurrent(r.pkg, cands),
                         Cardinality(FinerTracks(r.pkg)), at)
  ELSE EvaluateAdmission(r, cands, at)

IsNext(r) == pc = "process" /\ \A s \in pending \ {r} : Before(r, s)

\* The next request is r and its registry answers.
Answerable(r) == IsNext(r) /\ r.pkg \notin Missing

\* An adoption writes the index before its verdict is recorded.
Answer(r) ==
  /\ Answerable(r)
  /\ \E cands \in {Discover(r.pkg, feed) : feed \in FeedAnswers(r.pkg)} :
       /\ decided' = VerdictOn(r, cands)
       /\ index' = IF decided'.code = "adopted"
                   THEN Admit(r.pkg, decided', cands) ELSE index
  /\ answering' = r
  /\ pending' = pending \ {r}
  /\ pc' = "record"
  /\ UNCHANGED <<world, requests, verdicts, filed, verb, at, snapshot, unmeasured>>

\* Mutant of RecordVerdict: the key carries the date of the run.
RecordVerdictOfToday ==
  /\ pc = "record"
  /\ verdicts' = [verdicts EXCEPT ![[RequestKey(answering) EXCEPT !.at = at]] = decided]
  /\ answering' = None
  /\ decided' = None
  /\ pc' = "process"
  /\ UNCHANGED <<world, index, requests, filed, verb, at, pending, snapshot,
                 unmeasured>>

RecordVerdict ==
  /\ pc = "record"
  /\ verdicts' = [verdicts EXCEPT ![RequestKey(answering)] = decided]
  /\ answering' = None
  /\ decided' = None
  /\ pc' = "process"
  /\ UNCHANGED <<world, index, requests, filed, verb, at, pending, snapshot,
                 unmeasured>>

\* Mutant of FinishProcess: apply stops once it has processed.
FinishProcessAndStop ==
  /\ pc = "process"
  /\ pending = {}
  /\ pc' = "idle"
  /\ UNCHANGED <<world, store, verb, at, progress>>

\* apply goes on to evaluate once every request is answered.
FinishProcess ==
  /\ pc = "process"
  /\ pending = {}
  /\ pc' = IF verb = "apply" THEN "evaluate" ELSE "idle"
  /\ snapshot' = IF verb = "apply" THEN index ELSE snapshot
  /\ UNCHANGED <<world, store, verb, at, pending, answering, decided, unmeasured>>

\* Mutant of OwesNote: a record that is not there is an answer.
OwesNoteOfOutages(track, cands) ==
  /\ track.current \in DOMAIN cands
  /\ cands[track.current].outcome = "unreachable"

\* unmeasuredNote: the version the track stood on was on offer, unchecked.  (Its
\* other half is for a track on which nothing landed: no track of the store is.)
OwesNote(track, cands) ==
  /\ track.current \in DOMAIN cands
  /\ ~ Measured(cands[track.current].outcome)

\* An internal track's facts came with its proof, only the pointer moves.
Upgraded(p, track, verdict, cands) ==
  CASE verdict.code # "adopted" -> track
    [] verdict.code = "adopted" /\ p \in Internal ->
         [track EXCEPT !.current = verdict.adopted]
    [] OTHER -> Advance(track, verdict.adopted, cands)

\* The run is done with one of the tracks it read.  Any order will do: an
\* evaluation reads and writes nothing of the other tracks.
Leave(k) ==
  /\ pc = "evaluate"
  /\ snapshot[k] # None
  /\ snapshot' = [snapshot EXCEPT ![k] = None]

\* The track is written back from the copy read when the run started.
EvaluateTrack(k) ==
  /\ Leave(k)
  /\ k[1] \in Missing => k[1] \in Internal
  /\ \E cands \in {CandidatesFor(k[1], snapshot[k], feed) : feed \in FeedAnswers(k[1])} :
       LET track   == snapshot[k]
           verdict == EvaluateUpgrade(track, k[2], cands, k[1] \in Internal, at)
       IN  /\ index' = [index EXCEPT ![k] =
                          Maintain(Upgraded(k[1], track, verdict, cands),
                                   k[2], cands, at)]
           /\ unmeasured' = IF OwesNote(track, cands)
                            THEN unmeasured \cup {k} ELSE unmeasured
  /\ UNCHANGED <<world, requests, verdicts, filed, pc, verb, at, pending, answering,
                 decided>>

\* A registry that answers an error costs its track this run, not the others.
EvaluateFails(k) ==
  /\ Leave(k)
  /\ k[1] \notin Internal
  /\ UNCHANGED <<world, store, pc, verb, at, pending, answering, decided, unmeasured>>

FinishEvaluate ==
  /\ pc = "evaluate"
  /\ snapshot = NoTracks
  /\ pc' = "idle"
  /\ unmeasured' = {}
  /\ UNCHANGED <<world, store, verb, at, pending, answering, decided, snapshot>>

\* The run dies, or returns the error of a registry or of the store: what it
\* has written stays, what it has not is lost.
Abort ==
  /\ pc # "idle"
  /\ pc' = "idle"
  /\ pending' = {}
  /\ answering' = None
  /\ decided' = None
  /\ snapshot' = NoTracks
  /\ unmeasured' = {}
  /\ UNCHANGED <<world, store, verb, at>>

-----------------------------------------------------------------------------
(* The proof pipeline.                                                     *)

\* Mutant of StartPublish: goes on whatever the version.
StartPublishAny(p, v) ==
  /\ publishing = None
  /\ publishing' = [key |-> <<p, Major[v]>>, version |-> v,
                    track |-> index[<<p, Major[v]>>], at |-> now]
  /\ UNCHANGED <<upstream, store, run>>

\* Publish reads the track and goes on if the version is newer.  One publish at
\* a time is under way (a bound).
StartPublish(p, v) ==
  LET k == <<p, Major[v]>>
  IN  /\ publishing = None
      /\ index[k] # None => Rank[v] > Rank[index[k].current]
      /\ publishing' = [key |-> k, version |-> v, track |-> index[k], at |-> now]
      /\ UNCHANGED <<upstream, store, run>>

\* The track is written back from the copy: nothing but the version and its
\* dates changes in it.
Publish ==
  LET track == IF publishing.track = None THEN NewTrack ELSE publishing.track
  IN  /\ publishing # None
      /\ index' = [index EXCEPT ![publishing.key] =
                     [track EXCEPT !.current = publishing.version,
                                   !.releasedAt = publishing.at]]
      /\ publishing' = None
      /\ UNCHANGED <<upstream, requests, verdicts, filed, run>>

\* The publish dies, or the store answers an error.
PublishFails ==
  /\ publishing # None
  /\ publishing' = None
  /\ UNCHANGED <<upstream, store, run>>

-----------------------------------------------------------------------------
World ==
  \/ Tick
  \/ \E p \in Package :
       \/ \E v \in LaterRelease : Release(p, v)
       \/ \E v \in Yankable : Yank(p, v)
       \/ \E v \in Disclosable, f \in Finding : Disclose(p, v, f)

Pipeline ==
  \/ \E v \in {"process", "apply"} : StartProcess(v)
  \/ StartEvaluate
  \/ \E r \in pending : Answer(r)
  \/ RecordVerdict
  \/ FinishProcess
  \/ \E k \in TrackKey : EvaluateTrack(k) \/ EvaluateFails(k)
  \/ FinishEvaluate
  \/ Abort

ProofDoor ==
  \/ \E p \in Publishable, v \in PublishedVersion : StartPublish(p, v)
  \/ Publish
  \/ PublishFails

Next ==
  \/ World
  \/ \E r \in RequestSet : File(r)
  \/ Pipeline
  \/ ProofDoor

Spec == Init /\ [][Next]_vars

=============================================================================
