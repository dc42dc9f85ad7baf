--------------------------- MODULE MCVersionOrder ---------------------------
(***************************************************************************)
(* Three sample versions and a track prefix, drawn again at every step:    *)
(* the order is checked on every triple of the sample.  Beside that, an    *)
(* advisory publishes the events of a range one after the other, in every  *)
(* order, and is asked whether it covers a version.                        *)
(***************************************************************************)
EXTENDS Advisories

CONSTANTS
  Sample,        \* the versions drawn
  PrefixSample,  \* the prefixes drawn
  Judged,        \* the versions a range is asked about
  EventSample,   \* the events it may publish, and
  MaxEvents      \* bound: how many

\* What policy gets to see has been parsed, and parseVersion is a function:
\* one string has one result.
ASSUME SampleAssumption ==
  /\ Sample \cup PrefixSample \subseteq ParsedVersion
  /\ \A v \in Sample \cup PrefixSample : IsVersion(v)
  /\ \A v, w \in Sample : v.spelling = w.spelling => v = w

ASSUME EventAssumption == EventSample \subseteq Event

VARIABLES a, b, c, prefix, events

vars == <<a, b, c, prefix, events>>

Init == /\ a \in Sample /\ b \in Sample /\ c \in Sample
        /\ prefix \in PrefixSample
        /\ events = <<>>

Draw == /\ events = <<>>
        /\ a' \in Sample
        /\ b' = a
        /\ c' = b
        /\ prefix' \in PrefixSample
        /\ UNCHANGED events

PublishEvent(e) ==
  /\ a \in Judged /\ a = b /\ b = c
  /\ prefix = CHOOSE p \in PrefixSample : TRUE
  /\ Len(events) < MaxEvents
  /\ events' = Append(events, e)
  /\ UNCHANGED <<a, b, c, prefix>>

Retract ==
  /\ Len(events) = MaxEvents
  /\ events' = <<>>
  /\ UNCHANGED <<a, b, c, prefix>>

Next == Draw \/ (\E e \in EventSample : PublishEvent(e)) \/ Retract

Spec == Init /\ [][Next]_vars

-----------------------------------------------------------------------------
\* CompareVersions is a total preorder: the policy sorts by it and takes
\* maxima, which means nothing for a relation with a cycle.
IsPreorder ==
  /\ CompareVersions(a, b) = - CompareVersions(b, a)
  /\ CompareVersions(a, b) <= 0 /\ CompareVersions(b, c) <= 0
       => CompareVersions(a, c) <= 0

\* compareTotal leaves no ties and refines CompareVersions, so that the
\* newest of a pool does not depend on the order a registry listed it in.
IsLinear ==
  /\ CompareTotal(a, b) = 0 => a = b
  /\ CompareTotal(a, b) < 0 /\ CompareTotal(b, c) < 0 => CompareTotal(a, c) < 0
  /\ CompareVersions(a, b) < 0 => CompareTotal(a, b) < 0

\* A pre-release sorts below the release it precedes, a post-release above
\* it, and neither leaves the place the release has among other releases.
TailsStayBetweenReleases ==
  (a.tail = <<>> /\ b.tail = <<>> /\ FirstDifference(c.parts, a.parts, 0) = <<>>)
    => /\ IsPrerelease(c) => CompareVersions(c, a) < 0
       /\ IsPostRelease(c.tail) => CompareVersions(c, a) > 0
       /\ CompareVersions(a, b) # 0 => CompareVersions(c, b) = CompareVersions(a, b)

\* Whatever lies outside a line and above its prefix lies above the whole
\* line, which is how the controller recognises a successor, and a line has
\* no holes.  A version with fewer parts than the prefix is in no line at all.
LinesAreIntervals ==
  /\ InPrefix(a, prefix) /\ ~ InPrefix(b, prefix)
     /\ Len(b.parts) >= Len(prefix.parts) /\ CompareVersions(b, prefix) > 0
       => CompareVersions(a, b) < 0
  /\ InPrefix(a, prefix) /\ InPrefix(c, prefix)
     /\ CompareVersions(a, b) <= 0 /\ CompareVersions(b, c) <= 0
     /\ Len(b.parts) >= Len(prefix.parts)
       => InPrefix(b, prefix)

\* Every version is in the line of its major, and a higher version is never
\* in the line of a lower major, so that a track never has to move down.
MajorsFollowTheOrder ==
  LET major(v) == [v EXCEPT !.parts = MajorOf(v), !.tail = <<>>]
  IN  /\ InPrefix(a, major(a))
      /\ CompareVersions(a, b) <= 0 => CompareVersions(major(a), major(b)) <= 0

\* A range covers what the OSV schema says it covers, in whatever order its
\* events were published: a version at or after an introduction, with no fix
\* from there up to it and no last affected version from there to below it,
\* and below one of the limits if there are any.  "0" is below every version.
\* (So a version named both as introduced and as fixed is not covered.  The
\* comment on eventVersion and the test of the sort say that it is; the walk
\* that follows the sort says, with the schema, that it is not.)
RangesFollowTheSchema ==
  LET opens(e)  == e.kind = "introduced" /\ (e.version = Origin \/ CompareVersions(e.version, a) <= 0)
      closes(e) == \/ e.kind = "fixed" /\ CompareVersions(e.version, a) <= 0
                   \/ e.kind = "last-affected" /\ CompareVersions(e.version, a) < 0
      limits    == {e \in ToSet(events) : e.kind = "limit"}
      affected  == /\ \E i \in ToSet(events) :
                        /\ opens(i)
                        /\ \A e \in ToSet(events) :
                             closes(e) => /\ i.version # Origin
                                          /\ \/ e.version = Origin
                                             \/ CompareVersions(e.version, i.version) < 0
                   /\ limits # {} => \E l \in limits :
                        l.version = Unlimited \/ CompareVersions(a, l.version) < 0
  IN  CoversVersion([versions |-> {}, ranges |-> {[git |-> FALSE, events |-> events]}], a)
        <=> affected

-----------------------------------------------------------------------------
\* Words as strings: beta < dev1 < post1 < post2 < r1 < rc1.
MCPostWord == {3, 4, 5}

Num(n)  == [numeric |-> TRUE, value |-> n]
Word(n) == [numeric |-> FALSE, value |-> n]

V(parts, tail, spelling) == [parts |-> parts, tail |-> tail, spelling |-> spelling]

MCSample ==
  { V(<<1>>, <<>>, 1),                       \* 1
    V(<<1, 0>>, <<Word(3)>>, 2),             \* 1.0.post1
    V(<<1, 0>>, <<Word(6)>>, 3),             \* 1.0rc1
    V(<<1, 0, 0>>, <<>>, 4),                 \* 1.0.0
    V(<<1, 0, 0>>, <<Word(1), Num(2)>>, 5),  \* 1.0.0-beta.2
    V(<<1, 0, 0>>, <<Word(1)>>, 6),          \* 1.0.0-beta
    V(<<1, 0, 0>>, <<Num(1)>>, 7),           \* 1.0.0-1
    V(<<1, 0, 0>>, <<Word(4)>>, 8),          \* 1.0.0.post2
    V(<<1, 0, 0>>, <<Word(5)>>, 9),          \* 1.0.0-r1
    V(<<1, 0, 1>>, <<>>, 10),                \* 1.0.1
    V(<<1, 2>>, <<>>, 11),                   \* 1.2
    V(<<1, 10, 0>>, <<>>, 12),               \* 1.10.0
    V(<<1, 10, 0>>, <<Word(2)>>, 13),        \* 1.10.0.dev1
    V(<<2, 0, 0>>, <<Word(6)>>, 14),         \* 2.0.0-rc1
    V(<<2, 0, 0>>, <<>>, 15),                \* 2.0.0
    V(<<2, 0, 0>>, <<>>, 16) }               \* v2.0.0

MCPrefixSample == { V(<<1>>, <<>>, 1), V(<<2>>, <<>>, 17), V(<<1, 0>>, <<>>, 18),
                V(<<1, 10>>, <<>>, 19) }

\* 1, 1.0.0-beta, 1.0.0, 1.0.1, 1.2 and 1.10.0.
MCJudged == {v \in MCSample : v.spelling \in {1, 4, 6, 10, 11, 12}}

MCEventSample ==
  [kind : {"introduced", "fixed", "last-affected"},
   version : {v \in MCSample : v.spelling \in {4, 6, 11}}]
    \cup {[kind |-> "introduced", version |-> Origin],
          [kind |-> "fixed", version |-> Origin],
          [kind |-> "limit", version |-> Unlimited],
          [kind |-> "limit", version |-> V(<<1, 2>>, <<>>, 11)]}

=============================================================================
