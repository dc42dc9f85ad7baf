---------------------------- MODULE VersionOrder ----------------------------
(***************************************************************************)
(* How the register reads versions (regtypes/version.go).  parseVersion    *)
(* turns a string into numeric parts and a tail; this module starts from   *)
(* its result.  A leading v and build metadata are gone by then, and a     *)
(* PEP 440 suffix (1.0rc1, 1.0.post1) and a semver one (1.0-rc.1) are both *)
(* a tail of dot-separated identifiers.  An identifier is a number or a    *)
(* word; the value of a word is its place among all words as strings.      *)
(***************************************************************************)
EXTENDS Integers, Sequences

CONSTANT PostWord   \* the words that open a post-release: post1, rev2, r3

Identifier == [numeric : BOOLEAN, value : Nat]

\* spelling: the place of the original string among all version strings.
ParsedVersion == [parts : Seq(Nat), tail : Seq(Identifier), spelling : Nat]

Sign(n) == IF n < 0 THEN -1 ELSE IF n > 0 THEN 1 ELSE 0

Padded(s, i, pad) == IF i <= Len(s) THEN s[i] ELSE pad

\* Where two sequences first differ, padded to equal length by pad.
FirstDifference(s, t, pad) ==
  LET differ == {i \in DOMAIN s \cup DOMAIN t : Padded(s, i, pad) # Padded(t, i, pad)}
      first  == CHOOSE i \in differ : \A j \in differ : i <= j
  IN  IF differ = {} THEN <<>> ELSE <<Padded(s, first, pad), Padded(t, first, pad)>>

IsPostRelease(tail) == tail # <<>> /\ ~ tail[1].numeric /\ tail[1].value \in PostWord

\* Mutant of ComparePrerelease: forgets that numbers sort before words.
ComparePrereleaseByValue(s, t) ==
  LET shared == IF Len(s) <= Len(t) THEN Len(s) ELSE Len(t)
      first  == FirstDifference(SubSeq(s, 1, shared), SubSeq(t, 1, shared), 0)
  IN  IF first = <<>> THEN Sign(Len(s) - Len(t)) ELSE Sign(first[1].value - first[2].value)

\* A number sorts before a word, and a shorter tail before a longer.
ComparePrerelease(s, t) ==
  LET shared == IF Len(s) <= Len(t) THEN Len(s) ELSE Len(t)
      first  == FirstDifference(SubSeq(s, 1, shared), SubSeq(t, 1, shared), 0)
  IN  CASE first = <<>> -> Sign(Len(s) - Len(t))
        [] first # <<>> /\ first[1].numeric = first[2].numeric ->
             Sign(first[1].value - first[2].value)
        [] OTHER -> IF first[1].numeric THEN -1 ELSE 1

\* Mutant of TailClass: every tail is a pre-release.
TailClassWithoutPosts(tail) == IF tail = <<>> THEN 0 ELSE -1

\* Pre-releases sort below the bare release, post-releases above it.
TailClass(tail) == CASE tail = <<>> -> 0
                     [] tail # <<>> /\ IsPostRelease(tail) -> 1
                     [] OTHER -> -1

CompareTails(s, t) ==
  CASE TailClass(s) # TailClass(t) -> Sign(TailClass(s) - TailClass(t))
    [] TailClass(s) = TailClass(t) /\ s = t -> 0
    [] OTHER -> ComparePrerelease(s, t)

CompareVersions(a, b) ==
  LET first == FirstDifference(a.parts, b.parts, 0)
  IN  IF first = <<>> THEN CompareTails(a.tail, b.tail) ELSE Sign(first[1] - first[2])

\* Mutant of CompareTotal: leaves the ties.
CompareTotalWithTies(a, b) == CompareVersions(a, b)

\* Ties of equal versions are broken by their spelling.
CompareTotal(a, b) ==
  IF CompareVersions(a, b) # 0 THEN CompareVersions(a, b)
  ELSE Sign(a.spelling - b.spelling)

\* Mutant of InPrefix: compares the last part of the prefix alone.
InPrefixByLastPart(version, prefix) ==
  LET n == Len(prefix.parts)
  IN  n > 0 /\ Len(version.parts) >= n /\ version.parts[n] = prefix.parts[n]

InPrefix(version, prefix) ==
  /\ prefix.parts # <<>>
  /\ Len(version.parts) >= Len(prefix.parts)
  /\ SubSeq(version.parts, 1, Len(prefix.parts)) = prefix.parts

IsPrerelease(version) == version.tail # <<>> /\ ~ IsPostRelease(version.tail)

\* Mutant of MajorOf: takes the last part.
MajorFromTheEnd(version) == SubSeq(version.parts, Len(version.parts), Len(version.parts))

\* The parts of the major-level prefix.
MajorOf(version) == SubSeq(version.parts, 1, 1)

IsVersion(version) == version.parts # <<>>

=============================================================================
