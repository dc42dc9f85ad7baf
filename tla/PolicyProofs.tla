---------------------------- MODULE PolicyProofs ----------------------------
(***************************************************************************)
(* Facts about the policy functions that hold for every value of their     *)
(* parameters: the orders they choose by are orders, a choice among the    *)
(* versions on offer is a version on offer, and a verdict is one.          *)
(***************************************************************************)
EXTENDS Policy, TLAPS, FiniteSetTheorems, WellFoundedInduction

\* What discovery hands to the policy.
IsOffer(cands) ==
  /\ DOMAIN cands \subseteq Version
  /\ cands \in [DOMAIN cands -> Facts]

-----------------------------------------------------------------------------
(* Vectors (Vector.Compare).                                               *)

\* Vector.Compare is a strict order: nothing is safer than itself.
LEMMA SaferIrreflexive ==
  ASSUME NEW v \in Vector
  PROVE  ~ Safer(v, v)
  BY DEF Safer, Vector

\* Vector.Compare is transitive.
LEMMA SaferTransitive ==
  ASSUME NEW u \in Vector, NEW v \in Vector, NEW w \in Vector,
         Safer(u, v), Safer(v, w)
  PROVE  Safer(u, w)
  BY DEF Safer, Vector

\* Vector.Compare is total: it answers 0 for equal vectors alone.
LEMMA SaferTotal ==
  ASSUME NEW v \in Vector, NEW w \in Vector
  PROVE  Safer(v, w) \/ v = w \/ Safer(w, v)
  BY DEF Safer, Vector

\* Whatever is safer than a vector under the floor is under the floor: the
\* security upgrade of a version that met the floor meets it, too.
THEOREM SaferStaysUnderTheFloor ==
  ASSUME NEW v \in Vector, NEW w \in Vector, NEW floor \in Severity,
         Safer(v, w), ~ Exceeds(w, floor)
  PROVE  ~ Exceeds(v, floor)
  BY DEF Safer, Vector, Exceeds, Severity

-----------------------------------------------------------------------------
(* Choices.                                                                *)

\* A finite set has a minimal element of every strict order on it.
LEMMA MinimalElement ==
  ASSUME NEW S, IsFiniteSet(S), S # {},
         NEW R,
         \A x \in S : <<x, x>> \notin R,
         \A x, y, z \in S : <<x, y>> \in R /\ <<y, z>> \in R => <<x, z>> \in R
  PROVE  \E x \in S : \A y \in S : <<y, x>> \notin R
<1> DEFINE Below(x) == {y \in S : <<y, x>> \in R}
           T == {Below(x) : x \in S}
<1>1. IsWellFoundedOn(StrictSubsetOrdering(S), FiniteSubsetsOf(S))
  BY FS_StrictSubsetOrderingWellFounded
<1>2. \A U \in SUBSET S : IsFiniteSet(U)
  BY FS_Subset
<1>3. T \subseteq FiniteSubsetsOf(S) /\ T # {}
  <2>1. \A x \in S : Below(x) \in SUBSET S
    OBVIOUS
  <2> HIDE DEF Below
  <2>2. \A x \in S : Below(x) \in FiniteSubsetsOf(S)
    BY <1>2, <2>1 DEF FiniteSubsetsOf
  <2> QED BY <2>2
<1>4. PICK U \in T : \A W \in T : <<W, U>> \notin StrictSubsetOrdering(S)
  <2> HIDE DEF T
  <2> QED BY <1>1, <1>3, WFMin
<1>5. PICK x \in S : U = Below(x)
  OBVIOUS
<1>6. ASSUME NEW y \in S, <<y, x>> \in R
      PROVE  FALSE
  <2>1. Below(y) \subseteq Below(x) /\ Below(x) \subseteq S
    BY <1>6
  <2>2. y \in Below(x) /\ y \notin Below(y)
    BY <1>6
  <2> HIDE DEF Below
  <2>3. Below(y) \in T
    OBVIOUS
  <2>4. <<Below(y), U>> \in StrictSubsetOrdering(S)
    BY <2>1, <2>2, <1>5 DEF StrictSubsetOrdering
  <2> QED BY <1>4, <2>3, <2>4
<1> QED BY <1>6

\* A finite set of integers has a greatest element, and Max is it.
LEMMA MaxIsGreatest ==
  ASSUME NEW S, IsFiniteSet(S), S # {}, S \subseteq Int
  PROVE  Max(S) \in S /\ \A n \in S : n <= Max(S)
<1> DEFINE R == {e \in S \X S : e[1] > e[2]}
<1>1. \A x, y \in S : <<x, y>> \in R <=> x > y
  OBVIOUS
<1>2. \E x \in S : \A y \in S : <<y, x>> \notin R
  <2> HIDE DEF R
  <2>1. \A x \in S : <<x, x>> \notin R
    BY <1>1
  <2>2. \A x, y, z \in S : <<x, y>> \in R /\ <<y, z>> \in R => <<x, z>> \in R
    BY <1>1
  <2> QED BY <2>1, <2>2, MinimalElement
<1> HIDE DEF R
<1>3. PICK x \in S : \A y \in S : <<y, x>> \notin R
  BY <1>2
<1>4. \A y \in S : ~ (y > x)
  BY <1>1, <1>3
<1>5. \A y \in S : x >= y
  BY <1>4
<1> QED BY <1>5 DEF Max

\* newest: the pool has a newest version, and Newest is it.
LEMMA NewestIsGreatest ==
  ASSUME NEW pool, pool \subseteq Version, pool # {}
  PROVE  /\ Newest(pool) \in pool
         /\ \A v \in pool : TotalRank[v] <= TotalRank[Newest(pool)]
<1> USE VersionAssumption
<1> DEFINE R == {e \in pool \X pool : TotalRank[e[1]] > TotalRank[e[2]]}
<1>1. \A v, w \in pool : <<v, w>> \in R <=> TotalRank[v] > TotalRank[w]
  OBVIOUS
<1>2. \A v \in pool : TotalRank[v] \in Int
  OBVIOUS
<1>3. IsFiniteSet(pool)
  BY FS_Subset
<1>4. \E v \in pool : \A w \in pool : <<w, v>> \notin R
  <2> HIDE DEF R
  <2>1. \A v \in pool : <<v, v>> \notin R
    BY <1>1, <1>2
  <2>2. \A u, v, w \in pool : <<u, v>> \in R /\ <<v, w>> \in R => <<u, w>> \in R
    BY <1>1, <1>2
  <2> QED BY <1>3, <2>1, <2>2, MinimalElement
<1> HIDE DEF R
<1>5. PICK v \in pool : \A w \in pool : <<w, v>> \notin R
  BY <1>4
<1>6. \A w \in pool : ~ (TotalRank[w] > TotalRank[v])
  BY <1>1, <1>5
<1>7. \A w \in pool : TotalRank[w] <= TotalRank[v]
  BY <1>2, <1>6
<1> QED BY <1>7 DEF Newest

\* Candidates are made of facts.
LEMMA OfferFacts ==
  ASSUME NEW cands, IsOffer(cands), NEW v \in DOMAIN cands
  PROVE  /\ v \in Version
         /\ cands[v] \in Facts
         /\ cands[v].releasedAt \in Nat
         /\ cands[v].vulns \in Vector
         /\ TotalRank[v] \in Int
  BY VersionAssumption DEF IsOffer, Facts

\* sortForAdmission: its order is irreflexive, transitive and total.
LEMMA PrecedesIsStrictOrder ==
  ASSUME NEW cands, IsOffer(cands)
  PROVE  /\ \A v \in DOMAIN cands : ~ Precedes(v, v, cands)
         /\ \A u, v, w \in DOMAIN cands :
              Precedes(u, v, cands) /\ Precedes(v, w, cands) => Precedes(u, w, cands)
         /\ \A v, w \in DOMAIN cands :
              v # w => Precedes(v, w, cands) \/ Precedes(w, v, cands)
<1>1. \A v \in DOMAIN cands : ~ Precedes(v, v, cands)
  BY OfferFacts, SaferIrreflexive DEF Precedes
<1>2. ASSUME NEW u \in DOMAIN cands, NEW v \in DOMAIN cands, NEW w \in DOMAIN cands,
             Precedes(u, v, cands), Precedes(v, w, cands)
      PROVE  Precedes(u, w, cands)
  <2>1. /\ Safer(cands[u].vulns, cands[v].vulns) /\ Safer(cands[v].vulns, cands[w].vulns)
          => Safer(cands[u].vulns, cands[w].vulns)
    BY OfferFacts, SaferTransitive
  <2>2. CASE Safer(cands[u].vulns, cands[v].vulns) \/ Safer(cands[v].vulns, cands[w].vulns)
    BY <1>2, <2>1, <2>2 DEF Precedes
  <2>3. CASE cands[u].vulns = cands[v].vulns /\ cands[v].vulns = cands[w].vulns
    BY <1>2, <2>3, OfferFacts DEF Precedes
  <2> QED BY <1>2, <2>2, <2>3 DEF Precedes
<1>3. ASSUME NEW v \in DOMAIN cands, NEW w \in DOMAIN cands, v # w
      PROVE  Precedes(v, w, cands) \/ Precedes(w, v, cands)
  <2>1. TotalRank[v] # TotalRank[w]
    BY <1>3, OfferFacts, VersionAssumption
  <2>2. \/ Safer(cands[v].vulns, cands[w].vulns)
        \/ cands[v].vulns = cands[w].vulns
        \/ Safer(cands[w].vulns, cands[v].vulns)
    BY OfferFacts, SaferTotal
  <2> QED BY <2>1, <2>2, OfferFacts DEF Precedes
<1> QED BY <1>1, <1>2, <1>3

\* firstPassing, firstAdmissible: the pool has a first version, and First is
\* it, whatever the order of the pool.
LEMMA FirstComesFirst ==
  ASSUME NEW cands, IsOffer(cands),
         NEW pool, pool \subseteq DOMAIN cands, pool # {}
  PROVE  /\ First(pool, cands) \in pool
         /\ \A w \in pool \ {First(pool, cands)} : Precedes(First(pool, cands), w, cands)
<1> DEFINE R == {e \in pool \X pool : Precedes(e[1], e[2], cands)}
<1>1. \A v, w \in pool : <<v, w>> \in R <=> Precedes(v, w, cands)
  OBVIOUS
<1>2. IsFiniteSet(pool)
  BY VersionAssumption, FS_Subset DEF IsOffer
<1> HIDE DEF R
<1>3. PICK v \in pool : \A w \in pool : <<w, v>> \notin R
  <2>1. \A x \in pool : <<x, x>> \notin R
    BY <1>1, PrecedesIsStrictOrder
  <2>2. \A x, y, z \in pool : <<x, y>> \in R /\ <<y, z>> \in R => <<x, z>> \in R
    BY <1>1, PrecedesIsStrictOrder
  <2> QED BY <1>2, <2>1, <2>2, MinimalElement
<1>4. \A w \in pool \ {v} : Precedes(v, w, cands)
  BY <1>1, <1>3, PrecedesIsStrictOrder
<1> QED BY <1>4 DEF First

-----------------------------------------------------------------------------
(* Verdicts.                                                               *)

\* EvaluateUpgrade adopts a newer version of the line, on offer, that is
\* strictly safer than what the track holds, or as safe and out of quarantine.
THEOREM UpgradeMovesForwardAndSafely ==
  ASSUME NEW track, NEW prefix \in Prefix, NEW cands, IsOffer(cands),
         NEW internal, NEW t,
         EvaluateUpgrade(track, prefix, cands, internal, t).code = "adopted"
  PROVE  LET v    == EvaluateUpgrade(track, prefix, cands, internal, t).adopted
             held == CurrentVector(track, cands)
         IN  /\ v \in DOMAIN cands \cap Line[prefix]
             /\ Rank[v] > Rank[track.current]
             /\ v \in Prerelease => internal
             /\ \/ Safer(cands[v].vulns, held)
                \/ cands[v].vulns = held /\ Baked(cands[v], t)
<1> DEFINE newer     == Newer(track, prefix, cands, internal)
           held      == CurrentVector(track, cands)
           adoptable == Adoptable(newer, held, cands, t)
<1>1. newer \subseteq Version /\ adoptable \subseteq newer
  BY DEF Newer, Adoptable, IsOffer
<1>2. /\ adoptable # {}
      /\ EvaluateUpgrade(track, prefix, cands, internal, t).adopted = Newest(adoptable)
  <2>1. CASE newer = {}
    BY <2>1 DEF EvaluateUpgrade
  <2>2. CASE newer # {} /\ adoptable # {}
    BY <2>2 DEF EvaluateUpgrade
  <2>3. CASE newer # {} /\ adoptable = {}
    BY <2>3 DEF EvaluateUpgrade
  <2> QED BY <2>1, <2>2, <2>3
<1>3. Newest(adoptable) \in adoptable
  BY <1>1, <1>2, NewestIsGreatest
<1> QED BY <1>2, <1>3 DEF Newer, Adoptable

\* EvaluateUpgrade leaves no fix behind: nothing it may move to beyond the
\* version it leaves the track on, be it the one it adopts or the current one,
\* is strictly safer than what that version was weighed with.
THEOREM UpgradesLeaveNoFixBehind ==
  ASSUME NEW track, track.vulns \in Vector, NEW prefix \in Prefix,
         NEW cands, IsOffer(cands), NEW internal, NEW t
  PROVE  LET verdict == EvaluateUpgrade(track, prefix, cands, internal, t)
             adopts  == verdict.code = "adopted"
             after   == IF adopts THEN verdict.adopted ELSE track.current
             weight  == IF adopts THEN cands[verdict.adopted].vulns
                        ELSE CurrentVector(track, cands)
         IN  \A v \in Newer(track, prefix, cands, internal) :
               Rank[v] > Rank[after] => ~ Safer(cands[v].vulns, weight)
<1> DEFINE newer     == Newer(track, prefix, cands, internal)
           held      == CurrentVector(track, cands)
           adoptable == Adoptable(newer, held, cands, t)
           verdict   == EvaluateUpgrade(track, prefix, cands, internal, t)
           adopts    == verdict.code = "adopted"
           after     == IF adopts THEN verdict.adopted ELSE track.current
           weight    == IF adopts THEN cands[verdict.adopted].vulns ELSE held
<1>1. /\ newer \subseteq DOMAIN cands /\ newer \subseteq Version
      /\ adoptable = {v \in newer : \/ Safer(cands[v].vulns, held)
                                    \/ cands[v].vulns = held /\ Baked(cands[v], t)}
  BY DEF Newer, Adoptable, IsOffer
<1>2. \A v \in DOMAIN cands : v \in Version /\ cands[v].vulns \in Vector
  BY DEF IsOffer, Facts
<1>3. held \in Vector
  BY <1>2 DEF CurrentVector
<1>4. IF adoptable # {} THEN adopts /\ verdict.adopted = Newest(adoptable) ELSE ~ adopts
  <2>1. CASE newer = {}
    <3>1. adoptable = {}
      BY <1>1, <2>1
    <3>2. verdict.code = "up-to-date"
      BY <2>1, <3>1 DEF EvaluateUpgrade
    <3> HIDE DEF adoptable, verdict
    <3> QED BY <3>1, <3>2
  <2>2. CASE newer # {} /\ adoptable # {}
    BY <2>2 DEF EvaluateUpgrade
  <2>3. CASE newer # {} /\ adoptable = {}
    BY <2>3 DEF EvaluateUpgrade
  <2> QED BY <2>1, <2>2, <2>3
<1> HIDE DEF newer, held, adoptable, verdict
<1> SUFFICES ASSUME NEW v \in newer, Rank[v] > Rank[after], Safer(cands[v].vulns, weight)
             PROVE  FALSE
  BY DEF newer, held, verdict
<1>5. CASE adoptable = {}
  <2>1. weight = held
    BY <1>4, <1>5
  <2> QED BY <1>1, <1>5, <2>1
<1>6. CASE adoptable # {}
  <2>1. after = Newest(adoptable) /\ weight = cands[after].vulns
    BY <1>4, <1>6
  <2>2. /\ adoptable \subseteq Version
        /\ after \in adoptable
        /\ \A w \in adoptable : TotalRank[w] <= TotalRank[after]
    BY <1>1, <1>6, <2>1, NewestIsGreatest
  <2>3. Safer(weight, held) \/ weight = held
    BY <1>1, <2>1, <2>2
  <2>4. /\ cands[v].vulns \in Vector /\ weight \in Vector
        /\ v \in Version /\ after \in Version
    BY <1>1, <1>2, <2>1, <2>2
  <2>5. Safer(cands[v].vulns, held)
    BY <1>3, <2>3, <2>4, SaferTransitive
  <2>6. TotalRank[v] <= TotalRank[after]
    BY <1>1, <2>2, <2>5
  <2>7. TotalRank[after] < TotalRank[v] /\ TotalRank[after] \in Int /\ TotalRank[v] \in Int
    BY <2>4, VersionAssumption
  <2> QED BY <2>6, <2>7
<1> QED BY <1>5, <1>6

\* What a request for one version of those on offer is told.
LEMMA AlternativesAreVersions ==
  ASSUME NEW cands, IsOffer(cands), DOMAIN cands # {}, NEW rejected, NEW t
  PROVE  PassingAlternatives(cands, rejected, t) \subseteq Version
<1> DEFINE passing == {v \in DOMAIN cands : Admissible(cands[v], t)}
<1>1. passing \subseteq Version /\ DOMAIN cands \subseteq Version
  BY DEF IsOffer
<1>2. passing # {} => Newest(passing) \in Version
  BY <1>1, NewestIsGreatest
<1>3. Newest(DOMAIN cands) \in Version
  BY <1>1, NewestIsGreatest
<1> QED BY <1>2, <1>3 DEF PassingAlternatives

\* passingAlternatives: who asks for one version and is refused is offered one
\* that would be granted, if there is one, unless an equal version would be.
THEOREM RejectionsOfferWhatPasses ==
  ASSUME NEW cands, IsOffer(cands), NEW rejected, NEW t,
         \A w \in DOMAIN cands : Rank[w] = Rank[rejected] => ~ Admissible(cands[w], t),
         \E v \in DOMAIN cands : Admissible(cands[v], t)
  PROVE  \E v \in PassingAlternatives(cands, rejected, t) :
           /\ v \in DOMAIN cands
           /\ Admissible(cands[v], t)
           /\ Rank[v] # Rank[rejected]
<1> DEFINE passing == {v \in DOMAIN cands : Admissible(cands[v], t)}
<1>1. passing \subseteq Version /\ passing # {}
  BY DEF IsOffer
<1>2. Newest(passing) \in passing
  BY <1>1, NewestIsGreatest
<1>3. Rank[Newest(passing)] # Rank[rejected]
  BY <1>2
<1>4. Newest(passing) \in PassingAlternatives(cands, rejected, t)
  BY <1>1, <1>3 DEF PassingAlternatives
<1> QED BY <1>2, <1>3, <1>4

\* An exact request is answered by a verdict, and adopts the version on offer
\* it means, under the floor and out of quarantine.
LEMMA ExactVerdict ==
  ASSUME NEW request, request.track \in Prefix \cup {None}, request.version \in Version,
         NEW cands, IsOffer(cands), DOMAIN cands # {}, NEW t
  PROVE  LET verdict == EvaluateExact(request, cands, t)
         IN  /\ verdict \in Verdict
             /\ verdict.requested = request.version
             /\ request.track # None => verdict.track = request.track
             /\ verdict.code = "adopted" =>
                  /\ verdict.adopted \in DOMAIN cands
                  /\ verdict.track = TrackFor(request, verdict.adopted)
                  /\ Admissible(cands[verdict.adopted], t)
<1> DEFINE found == ExactMatch(cands, request.version)
           equal == {v \in DOMAIN cands : Rank[v] = Rank[request.version]}
<1>1. found = None \/ found \in DOMAIN cands
  <2>1. equal # {} => Newest(equal) \in equal
    BY NewestIsGreatest DEF IsOffer
  <2> QED BY <2>1 DEF ExactMatch
<1>2. PassingAlternatives(cands, found, t) \subseteq Version
  BY AlternativesAreVersions
<1>3. DOMAIN cands \subseteq Version /\ None \notin Version
  BY VersionAssumption DEF IsOffer
<1>4. found # None => TrackFor(request, found) \in Prefix
  BY <1>1, <1>3, VersionAssumption DEF TrackFor
<1> HIDE DEF found
<1>5. CASE found = None
  BY <1>5 DEF EvaluateExact, Verdict, Code, found
<1>6. CASE found # None /\ ~ Admissible(cands[found], t)
  BY <1>2, <1>6 DEF EvaluateExact, Verdict, Code, Admissible, TrackFor, found
<1>7. CASE found # None /\ Admissible(cands[found], t)
  BY <1>1, <1>3, <1>4, <1>7 DEF EvaluateExact, Verdict, Code, Admissible, TrackFor, found
<1> QED BY <1>5, <1>6, <1>7

\* A request for a package or a line of it, likewise.
LEMMA AnyVerdict ==
  ASSUME NEW request, request.track \in Prefix \cup {None},
         NEW cands, IsOffer(cands), NEW t
  PROVE  LET verdict == EvaluateAny(request, cands, t)
         IN  /\ verdict \in Verdict
             /\ request.track # None => verdict.track = request.track
             /\ verdict.code = "adopted" =>
                  /\ verdict.adopted \in PoolFor(request, cands)
                  /\ verdict.track = TrackFor(request, verdict.adopted)
                  /\ Admissible(cands[verdict.adopted], t)
<1> DEFINE pool       == PoolFor(request, cands)
           passing    == {v \in pool : ~ Exceeds(cands[v].vulns, AdmissionMaxSeverity)}
           admissible == {v \in pool : Admissible(cands[v], t)}
<1>1. pool \subseteq DOMAIN cands /\ pool \subseteq Version
  BY DEF PoolFor, IsOffer
<1>2. pool # {} => Newest(pool) \in Version
  BY <1>1, NewestIsGreatest
<1>3. passing # {} => First(passing, cands) \in Version
  BY <1>1, FirstComesFirst
<1>4. admissible # {} => First(admissible, cands) \in admissible
  BY <1>1, FirstComesFirst
<1>5. admissible # {} => TrackFor(request, First(admissible, cands)) \in Prefix
  BY <1>1, <1>4, VersionAssumption DEF TrackFor
<1> HIDE DEF pool
<1>6. CASE pool = {}
  BY <1>6 DEF EvaluateAny, Verdict, Code, TrackFor, pool
<1>7. CASE pool # {} /\ admissible # {}
  BY <1>1, <1>4, <1>5, <1>7 DEF EvaluateAny, Verdict, Code, TrackFor, pool
<1>8. CASE pool # {} /\ admissible = {} /\ passing # {}
  BY <1>3, <1>8 DEF EvaluateAny, Verdict, Code, TrackFor, pool
<1>9. CASE pool # {} /\ admissible = {} /\ passing = {}
  BY <1>2, <1>9 DEF EvaluateAny, Verdict, Code, TrackFor, pool
<1> QED BY <1>6, <1>7, <1>8, <1>9

\* EvaluateAdmission, whatever is asked and whatever is on offer, grants a
\* version on offer that is under the floor and out of quarantine.
THEOREM AdmissionIsAdmissible ==
  ASSUME NEW request, request.track \in Prefix \cup {None},
         request.version \in Version \cup {None},
         NEW cands, IsOffer(cands), NEW t
  PROVE  LET verdict == EvaluateAdmission(request, cands, t)
         IN  /\ verdict \in Verdict
             /\ verdict.requested = request.version
             /\ request.track # None => verdict.track = request.track
             /\ verdict.code = "adopted" =>
                  /\ verdict.adopted \in DOMAIN cands
                  /\ verdict.track = TrackFor(request, verdict.adopted)
                  /\ Admissible(cands[verdict.adopted], t)
<1>1. CASE request.version # None /\ DOMAIN cands # {}
  BY <1>1, ExactVerdict DEF EvaluateAdmission
<1>2. CASE ~ (request.version # None /\ DOMAIN cands # {})
  <2>1. EvaluateAdmission(request, cands, t)
          = [EvaluateAny(request, cands, t) EXCEPT !.requested = request.version]
    BY <1>2 DEF EvaluateAdmission
  <2>2. PoolFor(request, cands) \subseteq DOMAIN cands
    BY DEF PoolFor
  <2> QED BY <2>1, <2>2, AnyVerdict DEF Verdict
<1> QED BY <1>1, <1>2

\* EvaluateTrackOpen opens a finer track only within the budget, with an
\* admissible version of the line it names that does not regress from the
\* default track.
THEOREM OpenedTracksAreWithinBudget ==
  ASSUME NEW request, request.track \in Prefix, NEW cands, IsOffer(cands),
         NEW defaultCurrent, NEW finerTracks, NEW t
  PROVE  LET verdict == EvaluateTrackOpen(request, cands, defaultCurrent, finerTracks, t)
         IN  /\ verdict \in Verdict
             /\ verdict.track = request.track
             /\ verdict.code = "adopted" =>
                  /\ ~ BudgetSpent(finerTracks)
                  /\ ~ Regresses(verdict.adopted, defaultCurrent, cands)
                  /\ verdict.adopted \in DOMAIN cands \cap Line[request.track]
                  /\ Admissible(cands[verdict.adopted], t)
<1> DEFINE inLine     == (DOMAIN cands \ Prerelease) \cap Line[request.track]
           admissible == {v \in inLine : Admissible(cands[v], t)}
<1>1. inLine \subseteq DOMAIN cands /\ inLine \subseteq Version /\ admissible \subseteq Version
  BY DEF IsOffer
<1>2. inLine # {} => Newest(inLine) \in Version
  BY <1>1, NewestIsGreatest
<1>3. admissible # {} => Newest(admissible) \in admissible
  BY <1>1, NewestIsGreatest
<1>4. CASE inLine = {} \/ ~ Maintained(request.track, cands, t) \/ BudgetSpent(finerTracks)
  BY <1>4 DEF EvaluateTrackOpen, Verdict, Code
<1>5. CASE /\ inLine # {} /\ Maintained(request.track, cands, t)
           /\ ~ BudgetSpent(finerTracks) /\ admissible = {}
  BY <1>2, <1>5 DEF EvaluateTrackOpen, Verdict, Code
<1>6. CASE /\ inLine # {} /\ Maintained(request.track, cands, t)
           /\ ~ BudgetSpent(finerTracks) /\ admissible # {}
  BY <1>1, <1>3, <1>6 DEF EvaluateTrackOpen, Verdict, Code
<1> QED BY <1>4, <1>5, <1>6

=============================================================================
