----------------------------- MODULE Advisories -----------------------------
(***************************************************************************)
(* What one published record says (osvadapter.go, cvss.go): how severe it  *)
(* is, and which versions of a package it covers.                          *)
(*                                                                         *)
(* A record has affected blocks, each for one package of one ecosystem     *)
(* (pkg stands for both), with versions listed one by one and with ranges. *)
(* A range is a sequence of events in the order they were published.       *)
(***************************************************************************)
EXTENDS VersionOrder, SequencesExt

CONSTANT None

\* introduced: "0".
Origin == [parts |-> <<0>>, tail |-> <<>>, spelling |-> 0]

\* limit: "*".
Unlimited == [parts |-> <<>>, tail |-> <<>>, spelling |-> 0]

Event == [kind : {"introduced", "fixed", "last-affected", "limit"}, version : ParsedVersion]

VersionRange == [git : BOOLEAN, events : Seq(Event)]

-----------------------------------------------------------------------------
(* Coverage.                                                               *)

\* No limit, or below one of them.
BeforeLimits(events, v) ==
  LET limits == {e.version : e \in {x \in ToSet(events) : x.kind = "limit"}}
  IN  \/ limits = {}
      \/ Unlimited \in limits
      \/ \E l \in limits : CompareVersions(v, l) < 0

\* "0" first, then by version; at one version an introduction comes first.
\* (The code's reason, that "a version named by both is affected", is not what Walk
\* makes of it.)
Earlier(e, f) ==
  \/ e.version = Origin /\ f.version # Origin
  \/ /\ e.version = Origin \/ f.version # Origin
     /\ \/ CompareVersions(e.version, f.version) < 0
        \/ /\ CompareVersions(e.version, f.version) = 0
           /\ e.kind = "introduced" /\ f.kind # "introduced"

\* The sort is stable: of two events that tie the one published first.
Precedes(events, i, j) ==
  \/ i < j /\ ~ Earlier(events[j], events[i])
  \/ j < i /\ Earlier(events[i], events[j])

\* Mutant of SortedEvents: the order they were published in.
PublishedEvents(events) == SelectSeq(events, LAMBDA e : e.kind # "limit")

SortedEvents(events) ==
  LET kept  == {i \in DOMAIN events : events[i].kind # "limit"}
      place == [i \in kept |-> 1 + Cardinality({j \in kept : Precedes(events, j, i)})]
  IN  [n \in 1..Cardinality(kept) |-> events[CHOOSE i \in kept : place[i] = n]]

\* Whether v is inside after event e, if it was or was not before.
Walk(v, inside, e) ==
  CASE e.kind = "introduced" ->
         inside \/ e.version = Origin \/ CompareVersions(v, e.version) >= 0
    [] e.kind = "fixed" -> inside /\ CompareVersions(v, e.version) < 0
    [] OTHER -> inside /\ CompareVersions(v, e.version) <= 0

\* Whether v is inside once all of the events have been walked.
EndsInside(sorted, v) ==
  LET inside[n \in 0..Len(sorted)] ==
        IF n = 0 THEN FALSE ELSE Walk(v, inside[n - 1], sorted[n])
  IN  inside[Len(sorted)]

InRange(range, v) ==
  /\ ~ range.git
  /\ BeforeLimits(range.events, v)
  /\ EndsInside(SortedEvents(range.events), v)

CoversVersion(block, v) ==
  \/ \E listed \in block.versions : CompareVersions(listed, v) = 0
  \/ \E range \in block.ranges : InRange(range, v)

\* match: some block of the record is about the package and covers v.
Matches(blocks, pkg, v) == \E b \in blocks : b.pkg = pkg /\ CoversVersion(b, v)

-----------------------------------------------------------------------------
(* Severity.                                                               *)

\* CVSS rounds a score up to the next tenth.  Scores are hundredths here.
RoundUp(score) == 10 * ((score + 9) \div 10)

BandOf(score) ==
  CASE score >= 900 -> "critical"
    [] score \in 700..899 -> "high"
    [] score \in 400..699 -> "medium"
    [] OTHER -> "low"

\* The word the database publishes, else the band of the first vector that is
\* a complete CVSS v3 one.  A score is None if its vector is not.
SeverityOf(word, scores) ==
  LET complete == SelectSeq(scores, LAMBDA s : s # None)
  IN  CASE word # None -> word
        [] word = None /\ complete # <<>> -> BandOf(RoundUp(complete[1]))
        [] OTHER -> None

=============================================================================
