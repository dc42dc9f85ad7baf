----------------------------- MODULE MCRegister -----------------------------
(***************************************************************************)
(* Small instances of the register for TLC.  Versions are strings; what    *)
(* the policy reads off them is computed by VersionOrder.                  *)
(***************************************************************************)
EXTENDS RegisterProperties, Sequences, TLC

CONSTANTS Lib, Tool, Sub   \* a registry package, an internal one, and one below Lib

VO == INSTANCE VersionOrder WITH PostWord <- {}

Parsed ==
  LET v(parts, tail, spelling) == [parts |-> parts, tail |-> tail, spelling |-> spelling]
  IN  [ s \in {"1", "1.0", "1.0.0", "1.0.1", "1.1", "1.1.0", "1.1.1",
                "1.2.0", "2", "2.0.0", "1.1.0-rc1"} |->
        CASE s = "1"     -> v(<<1>>, <<>>, 1)
          [] s = "1.0"   -> v(<<1, 0>>, <<>>, 2)
          [] s = "1.0.0" -> v(<<1, 0, 0>>, <<>>, 3)
          [] s = "1.0.1" -> v(<<1, 0, 1>>, <<>>, 4)
          [] s = "1.1"   -> v(<<1, 1>>, <<>>, 5)
          [] s = "1.1.0" -> v(<<1, 1, 0>>, <<>>, 6)
          [] s = "1.1.1" -> v(<<1, 1, 1>>, <<>>, 7)
          [] s = "1.2.0" -> v(<<1, 2, 0>>, <<>>, 8)
          [] s = "2"     -> v(<<2>>, <<>>, 9)
          [] s = "2.0.0" -> v(<<2, 0, 0>>, <<>>, 10)
          [] s = "1.1.0-rc1" -> v(<<1, 1, 0>>, <<[numeric |-> FALSE, value |-> 1]>>, 11) ]

\* TLC evaluates a definition of this module once, but one that a .cfg gives
\* to a constant at every use: the tables are therefore definitions of their
\* own, and @@ makes them explicit functions.
Table(f) == f @@ <<>>

RankTable ==
  LET name == Version \cup Prefix
  IN  Table([s \in name |->
               Cardinality({t \in name : VO!CompareVersions(Parsed[t], Parsed[s]) < 0})])
TotalRankTable ==
  Table([v \in Version |->
           Cardinality({w \in Version : VO!CompareTotal(Parsed[w], Parsed[v]) < 0})])
LineTable ==
  Table([p \in Prefix |-> {v \in Version : VO!InPrefix(Parsed[v], Parsed[p])}])
MajorTable ==
  Table([v \in Version |->
           CHOOSE p \in Prefix : Parsed[p].parts = VO!MajorOf(Parsed[v])])
FinerPrefixes == {p \in Prefix : Len(Parsed[p].parts) > 1}
Prereleases   == {v \in Version : VO!IsPrerelease(Parsed[v])}

MCRank       == RankTable
MCTotalRank  == TotalRankTable
MCLine       == LineTable
MCMajor      == MajorTable
MCFiner      == FinerPrefixes
MCPrerelease == Prereleases

MCPackageRank ==
  [p \in Package |-> CASE p = Tool -> 1 [] p = Lib -> 2 [] p = Sub -> 3]

MCNested == [p \in Package |-> IF p = Lib THEN Package \cap {Sub} ELSE {}]

-----------------------------------------------------------------------------
Some(severity, day) ==
  [vulns |-> [Clean EXCEPT ![severity] = 1], classified |-> TRUE, publishedAt |-> day,
   borrowed |-> FALSE]

\* A finding whose severity is that of the record it is an alias of.
Aliased(severity, day) == [Some(severity, day) EXCEPT !.borrowed = TRUE]

NoFindings    == {}
LowFinding    == {Some("low", 0)}
HighFinding   == {Some("high", 0)}
HighOrLow     == {NoFinding, Some("high", 0), Some("low", 0)}
AliasedOrNone == {NoFinding, Aliased("low", 0)}
DatedFindings == {Some("high", 0), Aliased("low", None)}

\* Upstream at the start.
OutOf(old(_)) ==
  [p \in Package |->
     [v \in Version |-> IF p \notin Missing /\ v \in old(p) THEN 0 ELSE None]]
Out(old)  == LET same(p) == old IN OutOf(same)
FirstOut  == Out({"1.0.0"})
PreOut    == Out({"1.0.0", "1.1.0-rc1", "2.0.0"})
LinesOut  == Out({"1.1.0", "1.2.0"})
BothOut   == Out({"1.0.0", "1.1.0"})
NestedOut == LET old(p) == IF p = Sub THEN {"2.0.0"} ELSE {"1.1.0"} IN OutOf(old)

Ask(type, track, version) ==
  [pkg |-> Lib, type |-> type, track |-> track, version |-> version]

NoRequests   == {}
Upgrades     == {Ask("upgrade", None, None), Ask("upgrade", "1", "1.0.0")}
AnyRequest   == {Ask("admission", None, None)}
LineRequest  == {Ask("admission", "1", None)}
DoorRequests == AnyRequest \cup {Ask("admission", None, "1.0")}

\* A finer track beside the default one, and another that is asked for by a
\* version which is not of its line; then a package below it has one, too.
OpenBesideDefault == {Ask("open-track", "1.0", None), Ask("upgrade", None, None),
                      Ask("upgrade", "1.1", "1.2.0")}
NestedRequests    == {Ask("open-track", "1.0", None)} \cup LineRequest \cup
                     {[Ask("admission", "2", None) EXCEPT !.pkg = Sub]}

\* A request whose registry answers an error, before one that is in order.
PoisonRequests    == {[r EXCEPT !.pkg = p] : r \in AnyRequest, p \in {Lib, Tool}}

=============================================================================
