----------------------------- MODULE Measurement -----------------------------
(***************************************************************************)
(* What the register takes a vulnerability feed for: a call about a        *)
(* package measures all the versions it asks about or none of them, and    *)
(* what it measures is what the feed publishes.  This is the answer that   *)
(* Register's Annotate assumes; Feed is the protocol that produces it.     *)
(*                                                                         *)
(* The feed goes on publishing and withdrawing records during a call, and  *)
(* a process may report what it read of a record earlier in its life.  So  *)
(* a measurement has every record that was published before the call and   *)
(* stands at its end, and none that was withdrawn before the process began.*)
(***************************************************************************)
CONSTANTS
  Record,    \* vulnerability records
  Package,
  Version,
  About,     \* [record -> the packages whose listing names it]
  Covers,    \* [record -> [package -> the versions it covers]]
  None

VARIABLES
  published,  \* the records the feed holds
  withdrawn,  \* those it took back
  past,       \* those it had taken back when the process began
  asked,      \* the call in progress, or None
  answers     \* [package -> the last answer about it or None]

vars == <<published, withdrawn, past, asked, answers>>

Call == [pkg : Package, versions : SUBSET Version, known : SUBSET Record]

Init ==
  /\ published \in SUBSET Record
  /\ withdrawn \in SUBSET published
  /\ past = withdrawn
  /\ asked = None
  /\ answers = [p \in Package |-> None]

World ==
  /\ published \subseteq published'
  /\ withdrawn \subseteq withdrawn'
  /\ published' \subseteq Record
  /\ withdrawn' \subseteq published'
  /\ UNCHANGED <<past, asked, answers>>

\* The process ends, and a new one has no memory of its answers.
Restart ==
  /\ past' = withdrawn
  /\ asked' = None
  /\ answers' = [p \in Package |-> None]
  /\ UNCHANGED <<published, withdrawn>>

Ask(p, versions) ==
  /\ asked = None
  /\ asked' = [pkg |-> p, versions |-> versions, known |-> published]
  /\ UNCHANGED <<published, withdrawn, past, answers>>

Conclude(answer) ==
  /\ asked # None
  /\ answers' = [answers EXCEPT ![asked.pkg] = answer]
  /\ asked' = None
  /\ UNCHANGED <<published, withdrawn, past>>

Silence(outcome) == [v \in asked.versions |-> [outcome |-> outcome, ids |-> {}]]

Measured(ids) ==
  [v \in asked.versions |->
     LET found == {r \in ids : v \in Covers[r][asked.pkg]}
     IN  [outcome |-> IF found = {} THEN "clean" ELSE "findings", ids |-> found]]

\* The records a measurement must not miss, and those it may report.
Due == {r \in asked.known \ withdrawn : asked.pkg \in About[r]}
Tellable == {r \in published \ past : asked.pkg \in About[r]}

Unreachable == Conclude(Silence("unreachable"))

NotFound == Due = {} /\ Conclude(Silence("not-found"))

Measure ==
  \E ids \in SUBSET Tellable : Due \subseteq ids /\ Conclude(Measured(ids))

Next ==
  \/ World
  \/ Restart
  \/ \E p \in Package, versions \in SUBSET Version : Ask(p, versions)
  \/ Unreachable
  \/ NotFound
  \/ Measure

Spec == Init /\ [][Next]_vars

=============================================================================
