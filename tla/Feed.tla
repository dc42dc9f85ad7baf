-------------------------------- MODULE Feed --------------------------------
(***************************************************************************)
(* How the register asks a vulnerability feed (osvadapter.go): one process *)
(* makes calls about packages, one at a time.  A call sends the feed a     *)
(* query for the package as a whole and one for each version, in batches   *)
(* the feed accepts, and follows each query's pages; reads every record    *)
(* the package-wide query named; decides version by version which of them  *)
(* cover it; and reports where the feed's own filter says otherwise.  The  *)
(* feed may fail at any request, and change between two.                   *)
(*                                                                         *)
(* The query at slot 0 is the package-wide one, the query at slot i > 0    *)
(* that of the i-th version.  What a record covers and the severity it     *)
(* publishes are computed by module Advisories.                            *)
(***************************************************************************)
EXTENDS SeverityVector, Sequences, FiniteSets

CONSTANTS
  Record,      \* the feed's records
  Package,
  Version,
  Feedless,    \* packages of an ecosystem the feed does not carry
  About,       \* [record -> the packages whose listing names it]
  Covers,      \* [record -> [package -> versions]]: match and coversVersion
  Filter,      \* [package -> [version -> records]]: the feed's own filter
  Graded,      \* [record -> the severity it publishes or None]
  Aliases,     \* [record -> sequence of records]
  BatchCap,    \* maxQueriesPerBatch
  FeedCap,     \* how many queries of one request the feed accepts
  MaxPages,    \* how many rounds of pages a batch is given
  Asks,        \* the calls a process makes
  Later,       \* the records the feed publishes only later, and
  Revocable,   \* those it may withdraw
  None

ASSUME FeedAssumption ==
  /\ Feedless \subseteq Package
  /\ Later \subseteq Record
  /\ Revocable \subseteq Record
  /\ About \in [Record -> SUBSET (Package \ Feedless)]
  /\ Covers \in [Record -> [Package -> SUBSET Version]]
  /\ Filter \in [Package -> [Version -> SUBSET Record]]
  /\ Graded \in [Record -> Severity \cup {None}]
  /\ Aliases \in [Record -> Seq(Record)]
  /\ BatchCap \in Nat \ {0}
  /\ FeedCap \in Nat
  /\ BatchCap <= FeedCap
  /\ MaxPages \in Nat \ {0}
  /\ Asks \subseteq [pkg : Package, versions : Seq(Version)]
  \* A registry lists a version once.
  /\ \A a \in Asks : \A i, j \in 1..Len(a.versions) :
       a.versions[i] = a.versions[j] => i = j

Finding == [id : Record, severity : Severity \cup {None}]

Answer == [outcome : {"findings", "clean", "not-found", "unreachable"},
           findings : SUBSET Finding]

Copy == {"active", "withdrawn"}

ASSUME NoneAssumption ==
  /\ None \notin Severity
  /\ None \notin Copy
  /\ None \notin [pkg : Package, versions : Seq(Version), known : SUBSET Record]
  /\ None \notin [pkg : Package, versions : SUBSET Version, known : SUBSET Record]
  /\ \A V \in SUBSET Version : None \notin [V -> Answer]

VARIABLES
  published,  \* the feed: the records it holds, and
  withdrawn,  \* those it took back
  past,       \* those it had taken back when the process began
  cache,      \* the process: [record -> what it read of it or None]
  answers,    \* [package -> the last answer about it or None]
  pc,         \* "idle", "query", "read" or "match"
  call,       \* the call being made or made last: what it asks, and what the
              \* feed held when it began
  chunk,      \* the first slot of the batch being asked
  pending,    \* its slots with pages to come
  round,      \* how many pages were asked for
  merged,     \* [slot -> records the feed named]
  unread,     \* records named and not read
  records,    \* records read and not withdrawn
  turn,       \* the version being matched, and
  unmatched,  \* the records covering it and not yet graded
  tally,      \* [version -> findings]
  warned,     \* <<turn, record>>: the disagreements reported
  excused     \* whether the feed failed the call

feed    == <<published, withdrawn>>
process == <<past, cache, answers>>
asking  == <<chunk, pending, round, merged>>
reading == <<unread, records>>
matching == <<turn, unmatched, tally, warned>>
vars == <<feed, process, pc, call, asking, reading, matching, excused>>

Slots == 0..Len(call.versions)
Asked == {call.versions[i] : i \in 1..Len(call.versions)}

-----------------------------------------------------------------------------
Init ==
  /\ published = Record \ Later
  /\ withdrawn = {}
  /\ past = {}
  /\ cache = [r \in Record |-> None]
  /\ answers = [p \in Package |-> None]
  /\ pc = "idle"
  /\ call = None
  /\ chunk = 0
  /\ pending = {}
  /\ round = 0
  /\ merged = <<>>
  /\ unread = {}
  /\ records = {}
  /\ turn = 0
  /\ unmatched = {}
  /\ tally = [v \in Version |-> {}]
  /\ warned = {}
  /\ excused = FALSE

-----------------------------------------------------------------------------
(* The feed.                                                               *)

Publish(r) ==
  /\ r \notin published
  /\ published' = published \cup {r}
  /\ UNCHANGED <<withdrawn, process, pc, call, asking, reading, matching, excused>>

Withdraw(r) ==
  /\ r \in published \ withdrawn
  /\ withdrawn' = withdrawn \cup {r}
  /\ UNCHANGED <<published, process, pc, call, asking, reading, matching, excused>>

\* What a query is about: everything on the package, or what the feed's
\* filter makes of a version.
Matches(s) ==
  {r \in published : /\ call.pkg \in About[r]
                     /\ s > 0 => r \in Filter[call.pkg][call.versions[s]]}

\* The feed answers a query with a page and may say that there is more.  Once
\* it does not, everything it has held throughout the call was on some page.
Pages(s) ==
  {page \in [ids : SUBSET Matches(s), more : BOOLEAN] :
     ~ page.more => (call.known \cap Matches(s)) \ withdrawn \subseteq merged[s] \cup page.ids}

-----------------------------------------------------------------------------
(* A call.                                                                 *)

\* What a call keeps while it runs goes when it returns.
Forget ==
  /\ pc' = "idle"
  /\ chunk' = 0
  /\ pending' = {}
  /\ round' = 0
  /\ merged' = <<>>
  /\ unread' = {}
  /\ records' = {}
  /\ turn' = 0
  /\ unmatched' = {}
  /\ tally' = [v \in Version |-> {}]
  /\ warned' = {}

\* The call ends with an answer on every version.
Conclude(answer) ==
  /\ answers' = [answers EXCEPT ![call.pkg] = answer]
  /\ Forget
  /\ UNCHANGED <<feed, past, cache, call>>

Silence(outcome) == [v \in Asked |-> [outcome |-> outcome, findings |-> {}]]

\* Mutant of ChunkFrom: counts the versions of a batch, not its queries.
ChunkOfVersions(from, last) == {s \in 0..last : from <= s /\ s <= from + BatchCap}

\* The slots of the batch that begins at a slot.
ChunkFrom(from, last) == {s \in 0..last : from <= s /\ s < from + BatchCap}

Call(a) ==
  /\ pc = "idle"
  /\ pc' = "query"
  /\ call' = [pkg |-> a.pkg, versions |-> a.versions, known |-> published]
  /\ chunk' = 0
  /\ pending' = ChunkFrom(0, Len(a.versions))
  /\ round' = 0
  /\ merged' = [s \in 0..Len(a.versions) |-> {}]
  /\ excused' = FALSE
  /\ UNCHANGED <<feed, process, reading, matching>>

\* The ecosystem has no feed.
NoFeed ==
  /\ pc = "query"
  /\ call.pkg \in Feedless
  /\ Conclude(Silence("not-found"))
  /\ UNCHANGED excused

\* Mutant of Merge: a page replaces the one before.
MergeLastPage(reply) == [s \in Slots |-> IF s \in pending THEN reply[s].ids ELSE merged[s]]

Merge(reply) ==
  [s \in Slots |-> IF s \in pending THEN merged[s] \cup reply[s].ids ELSE merged[s]]

\* Mutant of Exhausted: one round too many.
ExhaustedLate == round > MaxPages

Exhausted == round >= MaxPages

\* One request: the next page of every query of the batch that has one.
Post ==
  /\ pc = "query"
  /\ call.pkg \notin Feedless
  /\ pending # {}
  /\ ~ Exhausted
  /\ Cardinality(pending) <= FeedCap
  /\ \E reply \in {f \in [pending -> UNION {Pages(s) : s \in pending}] :
                     \A s \in pending : f[s] \in Pages(s)} :
       /\ merged' = Merge(reply)
       /\ pending' = {s \in pending : reply[s].more}
  /\ round' = round + 1
  /\ UNCHANGED <<feed, process, pc, call, chunk, reading, matching, excused>>

BatchDone == pc = "query" /\ call.pkg \notin Feedless /\ pending = {}

LastBatch == chunk + BatchCap > Len(call.versions)

NextBatch ==
  /\ BatchDone
  /\ ~ LastBatch
  /\ chunk' = chunk + BatchCap
  /\ pending' = ChunkFrom(chunk', Len(call.versions))
  /\ round' = 0
  /\ UNCHANGED <<feed, process, pc, call, merged, reading, matching, excused>>

\* The feed was asked and names no record of the package.
Unlisted ==
  /\ BatchDone
  /\ LastBatch
  /\ merged[0] = {}
  /\ Conclude(Silence("not-found"))
  /\ UNCHANGED excused

StartReading ==
  /\ BatchDone
  /\ LastBatch
  /\ merged[0] # {}
  /\ pc' = "read"
  /\ unread' = merged[0]
  /\ UNCHANGED <<feed, process, call, asking, records, matching, excused>>

\* What the feed says of a record at this moment.
ReadOf(r) == IF r \in withdrawn THEN "withdrawn" ELSE "active"

\* A record read before is not read again.
CopyOf(r) == IF cache[r] = None THEN ReadOf(r) ELSE cache[r]

Read(r) ==
  /\ pc = "read"
  /\ r \in unread
  /\ cache' = [cache EXCEPT ![r] = CopyOf(r)]
  /\ unread' = unread \ {r}
  /\ records' = IF CopyOf(r) = "active" THEN records \cup {r} ELSE records
  /\ UNCHANGED <<feed, past, answers, pc, call, asking, matching, excused>>

\* A request to the feed fails, it answers fewer queries than it was asked or
\* refuses a batch, a record does not load, or the pages do not end: nothing
\* was measured.
Waits == (pc = "query" /\ pending # {}) \/ (pc = "read" /\ \E r \in unread : cache[r] = None)

\* Mutant of Fail: asks again.
FailAndRetry ==
  /\ Waits
  /\ call.pkg \notin Feedless
  /\ pc' = "query"
  /\ chunk' = 0
  /\ pending' = ChunkFrom(0, Len(call.versions))
  /\ round' = 0
  /\ excused' = TRUE
  /\ UNCHANGED <<feed, process, call, merged, reading, matching>>

Fail ==
  /\ Waits
  /\ call.pkg \notin Feedless
  /\ Conclude(Silence("unreachable"))
  /\ excused' = (Cardinality(pending) <= FeedCap)

-----------------------------------------------------------------------------
(* Matching, one version after the other.                                  *)

Hits(i) == IF i \in 1..Len(call.versions)
           THEN {r \in records : call.versions[i] \in Covers[r][call.pkg]}
           ELSE {}

StartMatching ==
  /\ pc = "read"
  /\ unread = {}
  /\ pc' = "match"
  /\ turn' = 1
  /\ unmatched' = Hits(1)
  /\ UNCHANGED <<feed, process, call, asking, reading, tally, warned, excused>>

\* The aliases a record asks for its severity, in order: none if it has one.
Hop(r) == IF Graded[r] = None THEN Aliases[r] ELSE <<>>

\* Mutant of Told: asks the feed, not the records read before.
ToldByFeed(r, reached) ==
  {i \in DOMAIN Hop(r) : Hop(r)[i] \in reached /\ Graded[Hop(r)[i]] # None}

\* Those that tell: read before or reached now, and graded.
Told(r, reached) ==
  {i \in DOMAIN Hop(r) : /\ cache[Hop(r)[i]] # None \/ Hop(r)[i] \in reached
                         /\ Graded[Hop(r)[i]] # None}

\* The first of them decides.
FirstTold(r, reached) ==
  CHOOSE i \in Told(r, reached) : \A j \in Told(r, reached) : i <= j

Resolved(r, reached) ==
  CASE Graded[r] # None -> Graded[r]
    [] Graded[r] = None /\ Told(r, reached) # {} -> Graded[Hop(r)[FirstTold(r, reached)]]
    [] OTHER -> None

\* The aliases asked: those before the one that tells, and that one.
Tried(r, reached) ==
  {Hop(r)[i] : i \in {j \in DOMAIN Hop(r) :
                        Told(r, reached) = {} \/ j <= FirstTold(r, reached)}}

\* An alias that does not load is passed over.
Grade(r) ==
  /\ pc = "match"
  /\ r \in unmatched
  /\ \E reached \in SUBSET {a \in published : \E i \in DOMAIN Hop(r) : Hop(r)[i] = a} :
       /\ tally' = [tally EXCEPT ![call.versions[turn]] =
                      @ \cup {[id |-> r, severity |-> Resolved(r, reached)]}]
       /\ cache' = [a \in Record |-> IF a \in Tried(r, reached) \cap reached
                                     THEN CopyOf(a) ELSE cache[a]]
  /\ unmatched' = unmatched \ {r}
  /\ UNCHANGED <<feed, past, answers, pc, call, asking, reading, turn, warned, excused>>

Ids(findings) == {f.id : f \in findings}

\* Mutant of Theirs: the results without the package-wide one.
TheirsFromZero(i) == merged[i - 1]

\* What the feed's own filter named for the i-th version.
Theirs(i) == merged[i]

\* The version is done: what only one side named is reported.
Report ==
  /\ pc = "match"
  /\ turn <= Len(call.versions)
  /\ unmatched = {}
  /\ LET ours == Ids(tally[call.versions[turn]])
     IN  warned' = warned \cup
           ({turn} \X ((Theirs(turn) \ ours) \cup (ours \ Theirs(turn))))
  /\ turn' = turn + 1
  /\ unmatched' = Hits(turn + 1)
  /\ UNCHANGED <<feed, process, pc, call, asking, reading, tally, excused>>

Measured(findings) ==
  [outcome |-> IF findings = {} THEN "clean" ELSE "findings", findings |-> findings]

Finish ==
  /\ pc = "match"
  /\ turn > Len(call.versions)
  /\ Conclude([v \in Asked |-> Measured(tally[v])])
  /\ UNCHANGED excused

-----------------------------------------------------------------------------
\* The process ends, or is killed, and another begins.
Restart ==
  /\ past' = withdrawn
  /\ cache' = [r \in Record |-> None]
  /\ answers' = [p \in Package |-> None]
  /\ Forget
  /\ call' = None
  /\ excused' = FALSE
  /\ UNCHANGED feed

\* What a call does by itself, the feed answering or failing.
Adapter ==
  \/ NoFeed
  \/ Post
  \/ NextBatch
  \/ Unlisted
  \/ StartReading
  \/ \E r \in unread : Read(r)
  \/ Fail
  \/ StartMatching
  \/ \E r \in unmatched : Grade(r)
  \/ Report
  \/ Finish

Next ==
  \/ \E r \in Later : Publish(r)
  \/ \E r \in Revocable : Withdraw(r)
  \/ \E a \in Asks : Call(a)
  \/ Adapter
  \/ Restart

Spec == Init /\ [][Next]_vars

\* A call goes on: the feed answers a request or the request fails.
FairSpec == Spec /\ WF_vars(Adapter)

-----------------------------------------------------------------------------
(* Properties.                                                             *)

FeedTypeOK ==
  /\ published \in SUBSET Record
  /\ withdrawn \in SUBSET published
  /\ past \in SUBSET withdrawn

ProcessTypeOK ==
  /\ cache \in [Record -> Copy \cup {None}]
  /\ DOMAIN answers = Package
  /\ \A p \in Package : answers[p] = None \/ \E V \in SUBSET Version : answers[p] \in [V -> Answer]

QueryTypeOK ==
  /\ pc \in {"idle", "query", "read", "match"}
  /\ call \in {None} \cup [pkg : Package, versions : Seq(Version), known : SUBSET Record]
  /\ pc # "idle" => call # None /\ merged \in [Slots -> SUBSET Record]
  /\ call # None => \A i, j \in 1..Len(call.versions) :
                      call.versions[i] = call.versions[j] => i = j
  /\ chunk \in Nat
  /\ pending = {} \/ (call # None /\ pending \subseteq Slots)
  /\ round \in 0..MaxPages

MatchTypeOK ==
  /\ unread \in SUBSET Record
  /\ records \in SUBSET Record
  /\ turn \in Nat
  /\ pc = "match" => turn > 0
  /\ unmatched = {} \/ (pc = "match" /\ unmatched \subseteq Hits(turn))
  /\ tally \in [Version -> SUBSET Finding]
  /\ warned \subseteq Nat \X Record
  /\ excused \in BOOLEAN

\* The state of the adapter, between and during calls.  A call is about
\* different versions, and counts its pages.
TypeOK == FeedTypeOK /\ ProcessTypeOK /\ QueryTypeOK /\ MatchTypeOK

CallInProgress ==
  IF pc = "idle" THEN None
  ELSE [pkg |-> call.pkg, versions |-> Asked, known |-> call.known]

\* What an answer says, severities aside.
Said(answer) ==
  [v \in DOMAIN answer |->
     [outcome |-> answer[v].outcome, ids |-> Ids(answer[v].findings)]]

LastAnswers ==
  [p \in Package |-> IF answers[p] = None THEN None ELSE Said(answers[p])]

Promise == INSTANCE Measurement WITH asked <- CallInProgress, answers <- LastAnswers

\* A call measures the package or says that it did not: no finding on a page,
\* in a batch or in a record is lost on the way to the answer, none is made
\* up, and no version's silence is another version's measurement.
ImplementsMeasurement == Promise!Spec

WasMeasured(answer) ==
  answer # None /\ \A v \in DOMAIN answer : answer[v].outcome \in {"findings", "clean"}

\* "Every package above it was not" measured: a call comes back empty-handed
\* only if the feed failed it, not because of how many versions a package has.
SilenceHasAnExcuse ==
  (pc = "idle" /\ call # None /\ answers[call.pkg] # None) =>
    \/ \A v \in DOMAIN answers[call.pkg] : answers[call.pkg][v].outcome # "unreachable"
    \/ excused

\* Within one process findings stand: a later answer about the package has
\* every finding of an earlier one that was not withdrawn, and the severity of
\* one, once known, is not lost to an alias that does not load.
FindingsStand ==
  [][\A p \in Package :
       (WasMeasured(answers[p]) /\ WasMeasured(answers'[p])) =>
         \A v \in DOMAIN answers[p] \cap DOMAIN answers'[p] :
           \A f \in answers[p][v].findings :
             \/ f.id \in withdrawn
             \/ \E g \in answers'[p][v].findings :
                  g.id = f.id /\ (f.severity # None => g.severity # None)]_vars

\* Neither side of a disagreement is silenced: of the records that stood
\* throughout a measured call, the ones that only the feed's filter or only
\* the published ranges put on a version are those reported for it.
DisagreementsAreReported ==
  (pc = "match" /\ turn > Len(call.versions)) =>
    \A i \in 1..Len(call.versions), r \in call.known \ withdrawn :
      call.pkg \in About[r] =>
        (<<i, r>> \in warned <=>
           (r \in Filter[call.pkg][call.versions[i]])
             # (call.versions[i] \in Covers[r][call.pkg]))

\* A call ends, however the feed pages, fails or changes meanwhile.
CallsEnd == pc # "idle" ~> pc = "idle"

\* VectorOf: what the findings of a version weigh.  One without a severity
\* counts as high.
VectorOf(findings) ==
  LET count(severities) == Cardinality({f \in findings : f.severity \in severities})
  IN  [critical |-> count({"critical"}), high |-> count({"high", None}),
       medium |-> count({"medium"}), low |-> count({"low"})]

\* "Waived for a strictly safer version": versions that carry the very same
\* vulnerabilities are not safer than one another.
SameFindingsWeighTheSame ==
  \A p \in Package :
    WasMeasured(answers[p]) =>
      \A v, w \in DOMAIN answers[p] :
        Ids(answers[p][v].findings) = Ids(answers[p][w].findings)
          => VectorOf(answers[p][v].findings) = VectorOf(answers[p][w].findings)

=============================================================================
