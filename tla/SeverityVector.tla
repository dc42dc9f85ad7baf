--------------------------- MODULE SeverityVector ---------------------------
(***************************************************************************)
(* The severity vector of regtypes.go: how many known, unfixed             *)
(* vulnerabilities a version carries, by severity.  Vectors are compared   *)
(* lexicographically from critical down, so that one critical outweighs    *)
(* any number of lows, and "safer" means lower in that order.              *)
(***************************************************************************)
EXTENDS Integers

Severity == {"critical", "high", "medium", "low"}

Vector == [critical : Nat, high : Nat, medium : Nat, low : Nat]

\* The zero vector.  It is also what a feed that measured nothing yields.
Clean == [critical |-> 0, high |-> 0, medium |-> 0, low |-> 0]

\* Compare(v, w) < 0.
Safer(v, w) ==
  \/ v.critical < w.critical
  \/ /\ v.critical = w.critical
     /\ \/ v.high < w.high
        \/ /\ v.high = w.high
           /\ \/ v.medium < w.medium
              \/ /\ v.medium = w.medium
                 /\ v.low < w.low

\* Anything at or above the floor severity.
Exceeds(v, floor) ==
  \/ v.critical > 0
  \/ floor # "critical" /\ v.high > 0
  \/ floor \in {"medium", "low"} /\ v.medium > 0
  \/ floor = "low" /\ v.low > 0

\* The name of the worst severity the vector counts.
Worst(v) ==
  CASE v.critical > 0 -> "critical"
    [] v.critical = 0 /\ v.high > 0 -> "high"
    [] v.critical = 0 /\ v.high = 0 /\ v.medium > 0 -> "medium"
    [] OTHER -> "low"

=============================================================================
