# forge-register in TLA+

forge-register keeps an index of *tracks*: for every maintained line of a package (`npm/left-pad`, line `1`) the one version a consumer should use. Consumers *request* packages, lines or versions; a pipeline answers with *verdicts*, watches the lines for releases and vulnerabilities, and moves, marks and deprecates tracks. Another pipeline proves and *publishes* the internal packages. What is vulnerable it learns from a *feed*, over a protocol of batches, pages and records. This directory models that machine, checks it with TLC and proves parts of it with TLAPS.

## The system

| Component | Source (under `src/internal` unless said) | State | Operations | Interacts with |
|---|---|---|---|---|
| command line | `driver/clidriver` | none; a run is a process | `add`, `process`, `evaluate`, `apply`, `publish`, and the read-only `status`, `validate` | starts the register controller, writes requests |
| register controller | `controller/registercontroller` | copies it read at the start of a run; the report | `Process`, `Evaluate`, `Publish` | reads and writes the store, calls discovery and policy |
| policy | `controller/policycontroller` | none (pure) | `EvaluateUpgrade`, `EvaluateAdmission`, `EvaluateTrackOpen`, `EvaluateDeprecation`, `EvaluateQuiet` | called with candidates and a date |
| version order, vector | `types/regtypes` | none (pure) | `CompareVersions`, `InPrefix`, `MajorOf`, `Vector.Compare`, `Vector.Exceeds` | used by the policy, the controller and the OSV adapter |
| discovery | `controller/discoverycontroller` | none | `Discover`, `Refresh` | asks a registry for versions and the feed about them |
| OSV adapter | `adapter/osvadapter` | what one process has read: records, answers | `Vulns` | HTTP: `querybatch` and `vulns/<id>` of the feed |
| registry adapter | `adapter/registryadapter` | none | `Versions` | HTTP |
| store | `adapter/storeadapter` | the records: tracks, requests, verdicts | get, put, list, each one record, through the wire form of `regwire.go` | an engine subprocess |
| configuration | `src/pkg/config` | the parameters | `Validate` | read once |
| engine, dispatch, git probe | `adapter/...` | none | calls to a subprocess, to a workflow, to a remote | I/O only |

What is hard about it:

* **No transactions.** The answer to a request is two writes, the track and then the verdict. A run may die, or return an error, between any two calls; the next run starts from what is stored.
* **Read once, written back whole.** `Process` reads the pending requests and `Evaluate` all tracks at their start, then make network calls for each. `Publish` reads a track and writes it. Requests are filed and internal versions published in the meantime, and a put replaces the record and every field of it.
* **A feed with three kinds of silence.** "Clean", "no record" and "out of reach" all come with the zero vector. Only the outcome beside it tells them apart, and one of them must neither raise nor withdraw anything.
* **A feed that is asked piecewise.** One measurement is many requests: queries in batches, matched to their results by position, each with pages; a request for each record named; more for the aliases of records that give no severity. The feed changes and fails between any two of them.
* **Dates.** Quarantine, no-fix and stale windows run on days; a date is taken once by a run and its boundaries are strict or not.
* **An order over strings.** Every choice the policy makes depends on versions of semver, PEP 440 and Go being compared transitively.

Correctness, by component: the *version order* is a preorder whose lines are intervals; the *policy* adopts only what is newer, safe and baked; the *adapter* measures all it was asked or says that it did not; the *store* gives back what it was given; the *controller* answers each request once, truthfully, moves tracks only forward, and says of a track only what was measured; the *pipeline* eventually answers requests and makes findings visible. The hazards behind these, line by line, are listed in `PROJECT.json` with the properties that cover each.

## The modules

| Module | Models | From |
|---|---|---|
| `SeverityVector` | vectors, their order, the floor | `regtypes.go` |
| `VersionOrder` | comparison, lines, majors and tails of parsed versions | `regtypes/version.go`, `policycontroller/version.go` |
| `Policy` | every policy function, on opaque versions and their ranks | `policycontroller.go` |
| `Register` | the state machine: store, pipeline, requester, publisher, world | `registercontroller.go`, `clidriver.go`, `storeadapter.go`, `discoverycontroller.go` and the outcomes of the two adapters |
| `Wire` | the whole records and the two mappings between them and their stored form, field by field | `regwire.go`, `regtypes.go` |
| `RegisterProperties` | the register's type invariant, safety, action and liveness properties, fairness | |
| `Catalog` | the abstract specification of the register: what its readers rely on | |
| `Advisories` | what one record of the feed says: which versions it covers, how severe it is | `osvadapter.go`, `cvss.go` |
| `Feed` | the state machine of the adapter: a call as a protocol with the feed; its properties | `osvadapter.go` |
| `Measurement` | the abstract specification of the adapter: what discovery takes it for | |
| `MCVersionOrder`, `MCRegister`, `MCFeed` | instances for TLC | |
| `VersionOrderProofs` | theorems about the version order | |
| `PolicyProofs` | theorems about the policy | |
| `RegisterProofs`, `RecordProofs`, `AnswerProofs`, `EntryProofs`, `LineProofs` | theorems about the register | |
| `FeedProofs` | theorems about the adapter | |

How they fit together. `Register` extends `Policy`, which takes what it reads off a version string as constants: `Rank`, `TotalRank`, `Line`, `Major`, `Finer`, `Prerelease`, with `VersionAssumption` as the contract. `VersionOrder` is what keeps that contract, checked on real spellings and proved for all parsed versions, and `MCRegister` computes the constants with it, so that no table is invented. In the same way `Feed` takes `Covers` and `Graded` as constants and `MCFeed` computes them from published records with `Advisories`. `Register` and `Feed` meet in `Measurement`: a step of the register that discovers candidates assumes that a call either measures every version it asks about or none, and that the findings it measures are those the feed publishes. `Feed` is shown to implement that, so that the register need not carry the protocol. Severities are left out of `Measurement`: a finding that borrows its severity from an alias loses it when the alias does not load, for one version of a call and not for the next (`AliasOutage`). The register has that, too: `FeedAnswers` lets an answer leave the borrowed severities of any versions untold, which then count as high (`Untold`), and the properties about what is safe quantify over what the feed may say of a version (`Readings`).

The proof modules build on one another: `RegisterProofs` extends `RegisterProperties` and `PolicyProofs`; `EntryProofs` and `LineProofs` extend `RegisterProofs`; `RecordProofs` extends `EntryProofs`; `AnswerProofs` extends `EntryProofs` and `LineProofs`. `VersionOrderProofs` extends `MCVersionOrder`, and `FeedProofs` extends `Feed`.

### State and actions of `Register`

| Variables | In the code |
|---|---|
| `index`, `requests`, `verdicts` | the three kinds of stored records, keyed as `TrackKey` and `RequestKey` key them |
| `pc`, `verb`, `at` | where a run is, the verb it runs, `deps.Now()` at its start |
| `pending`, `snapshot` | the request list and the track list a run read and has not worked off |
| `answering`, `decided` | the request and the verdict between the two writes of an answer |
| `unmeasured` | `Report.Unmeasured` |
| `publishing` | what a publish has read and is about to write |
| `released`, `yanked`, `findings`, `now` | the registries, the feed, the clock (the world) |

| Action | In the code |
|---|---|
| `File(r)` | `add` writes the request at its key |
| `StartProcess(v)`, `StartEvaluate` | `Run` dispatches the verb; `PendingRequests` or `Tracks` is read |
| `Answer(r)` | one turn of `Process` up to the verdict: discover, decide and, if adopted, `admit` (which advances and maintains the track and puts it) |
| `RecordVerdict` | `PutVerdict` |
| `FinishProcess` | `Process` returns; `apply` goes on to `Evaluate`, which reads the tracks |
| `EvaluateTrack(k)` | one turn of `Evaluate`: candidates, `EvaluateUpgrade`, `advance`, `maintain`, the note of an unmeasured track, `PutTrack` |
| `EvaluateFails(k)` | discovery failed: the note, and the next track |
| `FinishEvaluate` | the report is returned |
| `Abort` | the process dies, or a registry or the store answers an error and the run returns it |
| `StartPublish(p, v)` | `Publish` reads the track and goes on if the version is newer |
| `Publish`, `PublishFails` | it writes the copy with the new version; or it dies, or the store answers an error |
| `Tick`, `Release`, `Yank`, `Disclose` | the world: time, upstream, the feed (external) |

`filed` is a history variable, the requests ever written at a key: two requests of one package, type and second share a key.

What is abstracted: messages and provenance, but for `Wire`, which has every field of the three records; the findings of a version are one record of a vector, whether the feed classified any of them, the earliest date, and whether its severities are borrowed from aliases. A sorted slice of candidates is a set of them, and "the first that" is the greatest element in the sort's order, since npm and PyPI list versions in the order of a Go map and the result must not depend on it. Dates are days. A store call is atomic: each is one call to the engine. An `Answer` is one step although it makes several calls: the only concurrent writer of tracks is the publisher, whose packages are internal, and no request for one of those gets past discovery; what the world does in between is the same as its doing it before or after. The reads at the start of a run, the write of each track, and the read and the write of a publish are all apart, which is what publishes and evaluations race with. An evaluation reads all its tracks in one step where the code lists the keys and reads them one by one; what becomes of a track depends on the copy of that track alone, so that reading it earlier is a case of its being evaluated later. Tracks are evaluated in any order for the same reason.

### State and actions of `Feed`

| Variables | In the code |
|---|---|
| `published`, `withdrawn` | the feed's records (the world) |
| `past` | those withdrawn before the process began (a history variable, for `Measurement`) |
| `cache`, `answers` | the records a process has read, and its last answer about each package |
| `pc`, `call` | where a call is, what it asks, and what the feed held when it began (a history variable) |
| `chunk`, `pending`, `round`, `merged` | `queryBatch` and `queryOneBatch`: the batch, its queries with pages to come, the page count, the ids by position |
| `unread`, `records` | the records named by the package-wide query and not read yet; those read and not withdrawn |
| `turn`, `unmatched`, `tally` | the version being matched, the records that cover it and are not graded, the findings |
| `warned` | the disagreements between the feed's filter and the published ranges that were logged |
| `excused` | whether the feed failed the call (a history variable) |

| Action | In the code |
|---|---|
| `Call(a)` | `Vulns` is called: one query for the package, one for each version |
| `NoFeed` | the ecosystem has no feed: every version is not found |
| `Post` | one `querybatch` request: the next page of every query that has one |
| `NextBatch` | the next chunk of at most `maxQueriesPerBatch` |
| `Unlisted` | the package-wide query named nothing: every version is not found |
| `StartReading`, `Read(r)` | the records are loaded, from the cache if they were read before; a withdrawn one is dropped |
| `StartMatching`, `Grade(r)` | a version's records in turn: does it cover the version, what is its severity, if need be by its aliases |
| `Report` | the version is done, and what only one side named is logged |
| `Finish` | the answer, `findings` or `clean` for each version |
| `Fail` | a request fails or is refused, answers fewer queries than it was asked, a record does not load, or the pages do not end: every version is unreachable |
| `Restart` | the process ends and another begins with empty caches |
| `Publish(r)`, `Withdraw(r)` | the world |

The feed's side of it (`Matches`, `Pages`) is external: a query is answered by pages that together name every record it matches, and a page may be followed by another for as long as the feed likes. An id is a record; a record's text, ranges and vectors are what `Advisories` computes from.

## What is checked

Passing runs:

| Run | Instance | States | Shows |
|---|---|---|---|
| `VersionOrder` | all triples of 16 spellings, 4 prefixes; all sequences of up to 4 of 13 range events | 202 k | the comparison is a preorder, `compareTotal` a linear order compatible with it, tails stay between the releases around them, a line is an interval, majors follow the order; a range covers what the OSV schema says, in whatever order its events come |
| `Feed` | a package with 2 versions (3 queries, batches of 2, 2 pages), 2 records about it and 2 aliases, one published late, one withdrawn; a package without a feed; with fairness | 71 k | a call implements `Measurement`; no version is lost to a batch or page limit; disagreements are reported, both ways; findings stand within a process; calls end |
| `RequestDoor` | 1 package, versions `1.0`, `1.0.0`, `1.1.0`, `2.0.0`, 2 kinds of request, a release, a yank of a version tracks stand on, a finding of borrowed severity that comes and goes, outages, 2 days | 902 k | adoptions are backed; the register implements `Catalog`; a refusal for what a version carries offers one that passes; what enters is baked and safe by what the feed may say; a track left unmeasured is named |
| `Maintenance` | 1 package, a line with a pre-release and a successor that may be taken back; a finding dated, or undated and of borrowed severity; outages, 3 days | 0.86 M | deprecated is not quiet; advisories appear where a finding is measured, and disappear on evidence; a deprecation for want of a fix is not early, and no deprecation is dated anew |
| `OpenTrack` | 1 package, 2 finer lines beside the default one, one of them asked for by a version of another line, a finding, budget 1 | 734 k | a track leaves its line, and a package exceeds its budget, only by a request that names as much, across crashes and repeated answers; no track opens less safe than the default track |
| `ProofDoor` | 1 internal package, 2 versions, each publish a read and a write amid evaluations; findings that change twice, outages | 118 k | the advisory an evaluation leaves speaks of the version the track then stands on; while the copies of a track are true nothing is lost by writing one back |
| `Progress` | 1 package, 2 versions, 2 requests that may share a key, a disclosure, crashes and outages; with fairness | 27 k | requests are answered, and a run that gets past them leaves none behind; a verdict answers a request of its key; findings become visible; records survive the wire |

The bounds are `Horizon` (days), `MaxDisclosures` (changes of the feed's knowledge), `BatchCap`, `FeedCap` and `MaxPages` (the code's 1000, 1000 and 64), one publish under way at a time, and the small sets in each `.cfg`. They are chosen so that each window can close with a day to spare (windows are 0 to 2 days, so that "strictly longer" and "at least" differ inside the horizon), each line has a version to move to, one version is spelled in two ways, a run can die and be repeated, a call needs a second batch that is not full and may run out of pages. One package is enough for what concerns a track, since an answer and an evaluation read and write one package; `PoisonedQueue`, which is about the order of requests, and `NestedTracks`, about packages below one another, have two. `MaxSharedKeys` bounds how many keys are those of different requests: one in `Progress`, where `VerdictsAnswerTheirRequests` is about that, none elsewhere.

Every property of a passing run is violated by a mutant: the definitions commented `Mutant of` in the modules are plausible bugs, listed in `PROJECT.json`.

Runs that end in a violation, each a disagreement between the code and its own words:

| Run | The code | says |
|---|---|---|
| `AliasOutage` | an alias that does not load for one version and loads for the next gives two versions with the very same finding different weights | quarantine is "waived for a strictly safer version" (`docs/concepts.md:60`) |
| `NestedTracks` | the tracks of a package nested below another's path stand in for its default track, and a finer track opens less safe than it | "The track would open less safe than the default track's current" is denied (`docs/concepts.md:46`) |
| `PoisonedQueue` | the first request whose registry errs ends the run, every run, without a verdict | "the pipeline answers it on its next run" (`clidriver.go:341`) |
| `YankedSilent` | a finding on a current version that was taken back never becomes an advisory | "an advisory appears when current carries vulnerabilities" (`registercontroller.go:413-416`) |
| `StaleWriteBack` | an evaluation writes back a track that was published to meanwhile | "Publish only ever moves current forward, so nothing behind it was ever adoptable" (`registercontroller.go:131-132`) |

Disagreements met on the way that have no run of their own. The models have them all; where a property would be about one, it says what holds beside it and names the exception.

* An upgrade is weighed against the current version and never against the floor, so that an evaluation may move a track from one version at or above the floor to another; "nothing at or above it enters the index" (`docs/concepts.md:61`). `EntryIsSafe` says that requests adopt nothing that was measured over the floor and that no evaluation takes a track over it from below.
* "Living with one is an explicit re-request" (`docs/concepts.md:42`), and the message of the refusal asks to "re-request an explicit version to choose one" (`policycontroller.go:166`). The code refuses every exact request for a version over the floor (`evaluateExact`), so that no request ever chooses one, which is what the first half of `EntryIsSafe` says.
* A rejection offers the newest version whether it passes or not (`docs/concepts.md:49-51`: "alternatives the policy itself would accept"), and none whose order equals the rejected one's, although another spelling of it may pass. `RejectionsAreCorrectable` asks for one that passes among the others.
* A version that one range names both as introduced and as fixed "is affected" (`osvadapter.go:696-697`), the range "covers it" (`internals_test.go:336-337`, a test of the sort alone). The sort puts the introduction first and the walk then closes the range at the fix, so that the version is not affected; the OSV schema says the same. `RangesFollowTheSchema` follows the schema and the code.
* Two requests of one package, type and second share a key (`registercontroller.go:550`). Written before the first is answered, the second replaces it; written after, it is taken for answered by a verdict on another request ("the pipeline answers it on its next run", `clidriver.go:341`). `VerdictsAnswerTheirRequests` says that the verdict answers one of the requests filed at its key.
* A request for track `1` and version `2.0.0` makes `2.0.0` current in track `1`, where it stays (`docs/concepts.md:13`: a track is a line named by a prefix). `LinesAreLeftByName` says that nothing else takes a track out of its line.
* Admission requests that name finer lines open any number of them (`docs/concepts.md:65`). `BudgetHeld` says that nothing else exceeds the budget.
* An open-track request whose run dies between the write of its track and that of its verdict is answered again; its own track counts by now, and if that fills the budget the verdict recorded is `denied-over-budget`, about a track that is open. `AdoptedVerdictsAreBacked` is one way only: a refusal does not say that there is no track.
* When the current version was taken back and the feed is out of reach, every candidate looks strictly safer than the recorded vector and the quarantine is waived. `EntryIsBaked` is checked with yanks and outages and excepts the two at once.
* A current version that was taken back is not measured and `Report.Unmeasured` does not name its track; an advisory on it ages although nobody looks the finding up, until the track deprecates. `UnmeasuredTracksAreNamed` and `NoFixIsNotEarly` are about versions on offer.
* `fixExists` counts a pre-release that `EvaluateUpgrade` refuses, so that a track may neither move nor be advised (`registercontroller.go:413-416` promises an advisory where no newer *release* exists). `VulnerableTracksAreAdvised` excepts tracks a pre-release would fix; `Maintenance` lists one.
* An undated finding dates its advisory anew at every run, so that its no-fix window never closes. `NoFixIsNotEarly` bounds the window from below only.
* A publish leaves the track the advisory and the facts of the version before, until the next evaluation (`regtypes.go:202`: an advisory "marks a current version"). `AdvisoriesFollowCurrent` is about the track an evaluation leaves.
* A publish, like an evaluation, writes its copy back whole, and undoes an advisory or a deprecation written since it was read. `AdvisoriesAreWithdrawnOnEvidence`, `DeprecationsStand` and `Catalog` are about the packages nobody publishes; of the others `TrueCopiesLoseNothing` says that it takes a copy that someone else has made stale.

### Fairness

`Fairness` in `RegisterProperties` says that `apply` is run again and again (it is a scheduled pipeline) and takes its steps. Crashes and outages may happen for ever but not at the same step for ever: strong fairness of `StartProcess("apply")`, of an answer, of recording it, of reaching the evaluation, and of evaluating each track while its feed answers. The code retries nothing by itself, so that without these `RequestsAreAnswered` and `FindingsBecomeLoud` cannot hold: a run that always dies before its first write makes no progress. A run whose next request meets a registry that only answers errors returns that error (weak fairness of that `Abort`), which is what `PoisonedQueue` turns on.

`FairSpec` in `Feed` is weak fairness of the adapter's own steps: a call goes on, and a request it makes is answered or fails. The second half is an assumption on the network: the client is `http.DefaultClient` (main.go:67), which sets no deadline of its own, so a connection that hangs holds the call until the job that runs the program is killed. `CallsEnd` says what the adapter adds: given answers, it ends. Nothing is assumed of what the feed answers: it may always name another page, and `CallsEnd` holds because the pages are counted.

## What is proved

All theorems hold for every value of the constants that meets the named assumptions of the modules, which TLC evaluates on every instance. Where a proof needs more, the theorem assumes it, and it is listed here with what it costs. No theorem but `OnlyARaceGoesBack` restricts what publishers, upstream or crashes may do and when. Every property of a passing run has a theorem but the three of liveness, named at the end of this chapter.

### The version order

`VersionOrderProofs`, for all parsed versions with any number of parts and any tail. `CompareVersions` is three comparisons in a row: the numeric parts, padded by zeros; the class of the tail; the tail's identifiers, padded by something lower than any. The first and the last are lexicographic, over functions on the positions, and one theory of lexicographic orders (irreflexive, transitive, transparent to equals) serves both. `CompareVersionsIff` and `CompareTotalIff` say that the functions, written with a first difference as the code has them, compute these orders; from there:

| Theorem | Property |
|---|---|
| `VersionsArePreordered` | `IsPreorder` |
| `TotalOrderIsLinear` | `IsLinear` |
| `TailsStay` | `TailsStayBetweenReleases` |
| `LinesHaveNoHoles` | `LinesAreIntervals` |
| `MajorsFollow` | `MajorsFollowTheOrder` |
| `RanksAreWhatPolicyAssumes`, `MajorsAreWhatPolicyAssumes` | the contract `VersionAssumption`, and what the proofs below assume of majors, for opaque versions whose ranks count the lower ones |
| `RangesFollow` | `RangesFollowTheSchema` |

The first five and the last quantify over the module's samples only through `SampleAssumption`, which any set of parsed versions meets whose spellings differ, and `EventAssumption`, that events are events; they hold for every such set.

`RangesFollow` is about the walk over a range: the code sorts the events of a record by version, `"0"` first and an `introduced` before the others of its version, and switches inside and outside as it passes them. The theorem says, for event lists of every length and order, that a version is inside at the end exactly when some event introduces it, at or below it, and every event that closes it is strictly below that one; which is the schema's definition, and does not depend on the order the feed lists them in. The sort is stable, and its order is one of events with ties, so that the first part of the proof is that the places it gives (the number of events before one) are a bijection onto the positions. The second is that the walk, a recursive function, has a closed form (`Behind`: behind an opening event with no closing one since). The library's induction over the naturals takes an operator and cannot be used here; the proof shows that the closed form solves the recursive equation, so that there is a function to choose, and takes the least position at which a solution could differ from it, by the well-foundedness of the naturals.

### The policy

`PolicyProofs`, for every version order that meets `VersionAssumption` and every set of candidates:

* `SaferIrreflexive`, `SaferTransitive`, `SaferTotal`, `PrecedesIsStrictOrder`: the vector order and the admission sort are strict total orders. With `MinimalElement` (a finite set has a minimal element, by well-founded induction on subsets) this gives `NewestIsGreatest`, `FirstComesFirst` and `MaxIsGreatest`: the choices of the policy exist and do not depend on the order candidates come in.
* `UpgradeMovesForwardAndSafely`, `AdmissionIsAdmissible`, `OpenedTracksAreWithinBudget`: what an adopting verdict guarantees.
* `UpgradesLeaveNoFixBehind`: beyond the version an upgrade leaves a track on, nothing it may move to is strictly safer; the track was not moved to half a fix.
* `RejectionsOfferWhatPasses`: a refusal offers a version that would be granted, if there is one of another rank.
* `SaferStaysUnderTheFloor`: why a security upgrade, which is not compared with the floor, cannot cross it from below.

### The register

| Theorem | Property | Inductive invariant, and why the property alone is not enough | Assumes |
|---|---|---|---|
| `RegisterProofs!TypeCorrect` | `TypeOK` | itself; the work is that a policy choice is a candidate and that `advance`, `maintain` and a publish keep a track a track | |
| `RegisterProofs!AdoptionsAreBacked` | `AdoptedVerdictsAreBacked` | `BackedInv`: the verdict that is decided and not recorded is backed, too, and until it is evaluated a registry track in the index is the one the run read | `Publishable ⊆ Internal` |
| `RecordProofs!MarksExcludeEachOther` | `QuietIsNotDeprecated` | `MarksInv`: also of the copy a publish is about to write | |
| `RegisterProofs!UnpublishedTracksAreSettled` | | `Settled(k)`: what an evaluation or a publish has read of track `k`, and not written, is what the index holds, for every track of a package that is not published | |
| `RecordProofs!TrueCopiesSuffice` | `TrueCopiesLoseNothing` | `CopiesInv`: what a publish writes is newer than its copy, and only an evaluation holds copies | |
| `RecordProofs!DeprecationsAreFinal` | `DeprecationsStand` | `CopiesInv`, and `Settled(k)` for the tracks of packages that are not published | |
| `RecordProofs!RecordsSurvive` | `RecordsSurviveTheWire` | `TypeOK`: what a pointer is nil for is what reading a nil pointer gives, for every record of the right type | |
| `RecordProofs!AdvisoriesSpeakOfCurrent` | `AdvisoriesFollowCurrent` | `TypeOK`; the work is in the step | |
| `RecordProofs!VulnerableAreAdvised` | `VulnerableTracksAreAdvised` | the same | |
| `RecordProofs!UnmeasuredAreNamed` | `UnmeasuredTracksAreNamed` | `BackedInv`: the copy that is evaluated is what the index holds, so that a version on offer is measured with the candidates | `Publishable ⊆ Internal` |
| `RecordProofs!WithdrawalsNeedEvidence` | `AdvisoriesAreWithdrawnOnEvidence` | `CopiesInv` and `Settled(k)`: an advisory the index holds is on the copy that is maintained | |
| `RecordProofs!NoFixTakesItsTime` | `NoFixIsNotEarly` | `CopiesInv`; the work is in the step: the advisory whose age is counted is about a version that is measured with the others | |
| `RecordProofs!OnlyARaceGoesBack` | `CurrentOnlyMovesForward` (the run `StaleWriteBack`) | `CopiesInv`, and `Settled(k)` for every track | `Publishable ⊆ Internal`, publishes keep apart |
| `AnswerProofs!RegisterIsACatalog` | `ImplementsCatalog` | `OnceInv`: the request being answered has no verdict and is not pending again; with `BackedInv`, and `Settled(k)` for the packages nobody publishes, every step is one of the catalog or a stutter | `Publishable ⊆ Internal` |
| `AnswerProofs!VerdictsFitTheirRequests` | `VerdictsAnswerTheirRequests` | `FitsInv`: the copies of requests a run works from were filed at their keys | |
| `AnswerProofs!RejectionsOfferAWayOut` | `RejectionsAreCorrectable` | `UpstreamInv`: the registries list only what upstream releases | upstream spells a version in one way; an open-track request names no version |
| `AnswerProofs!RunsAnswerAll` | `RunsLeaveNoRequestBehind` | `QueueInv`: a request filed before the day of the run is answered, waits, or is the one being answered; with `OnceInv`, for the keys | |
| `AnswerProofs!RunsComeCloser` | | `PendingFinite` | finitely many packages and prefixes |
| `EntryProofs!EntriesAreBaked`, `EntriesAreSafe` | `EntryIsBaked`, `EntryIsSafe` | `BackedInv`: what a candidate is weighed against is what the index holds, and is measured with the others if it is on offer | `Publishable ⊆ Internal` |
| `EntryProofs!OpenedTracksDoNotRegress` | `LoneTracksAreNoRegression` | `AnsweringInv`: in `process` nothing is being answered, so that the request at hand is the one just taken | majors have different ranks |
| `LineProofs!OnlyNamesLeaveALine` | `LinesAreLeftByName` | `InternalInv`: the tracks of an internal package, the copies an evaluation has of them and the version of a publish are in their lines | a version is in its major's line; `Publishable ⊆ Internal` |
| `LineProofs!BudgetIsHeld` | `BudgetHeld` | `OpeningInv`: an evaluation writes back tracks that are there, and a publish goes to a major | a version's major is not a finer line; finitely many packages and prefixes |

What the assumptions cost:

* *`Publishable ⊆ Internal`.* Only internal packages have a publish pipeline. A publish of another package would come between an answer's read and its write, and break `BackedInv` and `Settled` alike.
* *A version is in its major's line, majors have different ranks, a major is not a finer line, versions of one spelling.* Facts of the version order: `MajorsAreWhatPolicyAssumes` proves the first two of `MajorOf` and `InPrefix`, and a finer line has more than one part where a major has one. Upstream may spell a version in two ways; then the feed may fault the one and not the other, and `passingAlternatives` offers none whose order equals the rejected version's.
* *An open-track request names no version.* With one, `EvaluateTrackOpen` ignores it, and the refusal is about the line.
* *Publishes keep apart* (`[]Apart`, a hypothesis on the behaviour): no publish is under way while an evaluation holds copies. The code does nothing to see to it, and `StaleWriteBack` is what becomes of `CurrentOnlyMovesForward` without. One theorem has it, to say that the violation takes both at once; what holds without is `TrueCopiesSuffice`, of each track and step, and for the packages nobody publishes everything, however many others are. The invariant is `Settled`, kept track by track, because one publish disturbs one track.

The last two theorems on answers are the safety half of `RequestsAreAnswered`: a run takes finitely many steps, by a measure of requests and tracks that every step lowers and no publish, request or release raises, and if it gets past its requests it has answered them all. What is left to fairness is that runs start and are not always killed.

### The adapter

`FeedProofs`, for every feed:

* `TypeCorrect`: `TypeOK`. That a call counts its pages up to the limit is part of it.
* `FeedMeasures`: `Spec => ImplementsMeasurement`, the refinement of `Measurement`. The invariant has a part for each phase. `CacheInv`: what was cached as withdrawn is withdrawn, and what was read as active was not withdrawn before the process began. `QueryInv`: once the package-wide query has no page to come, every record that is about the package and has stood since the call began is among its ids. `ReadInv`: each of those is unread or read, and dropped only if withdrawn. `MatchInv`: the versions before the current turn have exactly the findings that cover them, the current one those not waiting to be graded.
* `NoCallIsTooLarge`: `SilenceHasAnExcuse`, since a batch never holds more queries than the feed accepts.
* `BothSidesAreHeard`: `DisagreementsAreReported`. `NamedInv` is `QueryInv` for each query, over its batches and pages: nothing is named but what was asked for, and once its pages have ended everything due was. `WarnedInv`: for the versions done, the reports are the difference of the two sides.
* `FindingsAreKept`: `FindingsStand`. `AnswersInv`: a finding once answered is a record that every later call must measure, and a known severity stays within reach, since the alias that told it was read and is cached. `TallyInv`: so it is for the answer in the making.
* `CallsComeCloser`: every step of a call lowers a measure of phase, batches, pages, records and versions, and the world does not raise it; for finitely many records. This is `CallsEnd` but for the fairness that steps are taken at all.

### Only model-checked

* Liveness, `RequestsAreAnswered`, `FindingsBecomeLoud` and `CallsEnd`: fairness and ENABLED are out of the prover's reach.
* The values of the tables: what `MCRegister` and `MCFeed` compute with `VersionOrder` and `Advisories` for their samples.

## What is not modelled

* The CVSS base score is taken as computed, in hundredths of a point: its arithmetic is that of floating point. Rounding and bands are modelled.
* A version that does not parse as one (`osvadapter.go:184-189`), and splitting a string into parts and a tail: the samples are parsed by hand.
* The registry adapters' parsing of four registries' answers, JSON, the engine subprocess, dispatch, the git probe, configuration files and `main`: input and output without state of their own. Where they fail, the caller's `Abort`, `EvaluateFails`, `Fail` or `PublishFails` stands for it.
* The verbs that only read, `status` and `validate`, and the report of stale internal packages.
* Two pipelines at once. The register is run by one scheduled pipeline; nothing in the code enforces it.

## Plan

1. (done) `SeverityVector`, `VersionOrder`, `Policy`, `Register`, `Catalog`: the core, its runs, type correctness and backed adoptions.
2. (done) `Feed`, `Advisories`, `Measurement`: the OSV protocol and the refinement that joins it to the register.
3. (done) `Wire`; keys of nested packages; publishes as a read and a write; alternatives offered.
4. (done) Proofs of the answers, the marks, the entries, the lines, the budget, both refinements; of the version order and the ranges; of the advisories and their windows; of the adapter's reports and severities; that runs and calls are finite; of what holds with publishes and with versions taken back.
5. `StatusReport`: `status` and the stale-internal report over the same records.
6. Two pipelines at once.
