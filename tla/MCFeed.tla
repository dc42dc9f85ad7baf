------------------------------- MODULE MCFeed -------------------------------
(***************************************************************************)
(* A small feed for TLC: two versions of one package, two records about it *)
(* and two aliases about nothing.  What a record covers and how severe it  *)
(* is are computed by module Advisories from what it publishes.            *)
(***************************************************************************)
EXTENDS Feed

CONSTANTS
  Lib, Odd,                   \* a package, and one the feed does not carry
  early, late, ghost, shade   \* records

Doc == INSTANCE Advisories WITH PostWord <- {}

Parsed ==
  LET v(parts, spelling) == [parts |-> parts, tail |-> <<>>, spelling |-> spelling]
  IN  [ s \in {"1.0.0", "1.1.0", "2.0.0"} |->
        CASE s = "1.0.0" -> v(<<1, 0, 0>>, 1)
          [] s = "1.1.0" -> v(<<1, 1, 0>>, 2)
          [] s = "2.0.0" -> v(<<2, 0, 0>>, 3) ]

\* early has a range, its events out of order, and no severity of its own;
\* late lists its version and has one vector that is incomplete and one that
\* is a 7.45.
Published ==
  LET events == << [kind |-> "fixed", version |-> Parsed["2.0.0"]],
                   [kind |-> "introduced", version |-> Doc!Origin] >>
  IN  [ r \in Record |->
        CASE r = early ->
               [word |-> None, scores |-> <<>>, aliases |-> <<ghost, shade>>,
                blocks |-> {[pkg |-> Lib, versions |-> {},
                             ranges |-> {[git |-> FALSE, events |-> events]}]}]
          [] r = late ->
               [word |-> None, scores |-> <<None, 745>>, aliases |-> <<>>,
                blocks |-> {[pkg |-> Lib, versions |-> {Parsed["1.1.0"]}, ranges |-> {}]}]
          [] r = ghost -> [word |-> "low", scores |-> <<>>, aliases |-> <<>>, blocks |-> {}]
          [] r = shade -> [word |-> "critical", scores |-> <<>>, aliases |-> <<>>, blocks |-> {}] ]

\* Definitions of this module, so that TLC evaluates each once.
AboutTable   == [r \in Record |-> {b.pkg : b \in Published[r].blocks}]
CoversTable  == [r \in Record |-> [p \in Package |->
                   {v \in Version : Doc!Matches(Published[r].blocks, p, Parsed[v])}]]
GradedTable  == [r \in Record |-> Doc!SeverityOf(Published[r].word, Published[r].scores)]
AliasesTable == [r \in Record |-> Published[r].aliases]

MCAbout   == AboutTable
MCCovers  == CoversTable
MCGraded  == GradedTable
MCAliases == AliasesTable

\* The feed's filter sees late on a version it does not cover, and does not
\* see early on one it covers.
MCFilter ==
  [p \in Package |-> [v \in Version |->
     CASE p # Lib -> {} [] p = Lib /\ v = "1.0.0" -> {early, late} [] OTHER -> {late}]]

MCAsks == { [pkg |-> Lib, versions |-> <<"1.0.0", "1.1.0">>],
            [pkg |-> Odd, versions |-> <<"1.0.0">>] }

=============================================================================
