------------------------------ MODULE Catalog -------------------------------
(***************************************************************************)
(* What the register promises its readers, whatever the pipeline's crashes,*)
(* the feed's outages and the order of requests: once a track is opened it *)
(* only moves forward, and a request is answered once and for all.  An     *)
(* answer that names a version is given only when the catalog already      *)
(* holds that version, or a later one, in the track the answer names.      *)
(***************************************************************************)
EXTENDS Integers

CONSTANTS
  TrackKey,   \* the tracks
  Key,        \* the requests
  Version,    \* the versions, and
  Rank,       \* their order
  None

VARIABLES
  held,       \* [track -> version or None]
  answers     \* [request -> answer or None]

vars == <<held, answers>>

Refusal == [track |-> None, version |-> None]

Grant(k, v) == [track |-> k, version |-> v]

Init ==
  /\ held = [k \in TrackKey |-> None]
  /\ answers = [q \in Key |-> None]

\* A track is opened or moves forward.
Advance(k, v) ==
  /\ held[k] # None => Rank[v] > Rank[held[k]]
  /\ held' = [held EXCEPT ![k] = v]
  /\ UNCHANGED answers

Refuse(q) ==
  /\ answers[q] = None
  /\ answers' = [answers EXCEPT ![q] = Refusal]
  /\ UNCHANGED held

Adopt(q, k, v) ==
  /\ answers[q] = None
  /\ held[k] # None
  /\ Rank[held[k]] >= Rank[v]
  /\ answers' = [answers EXCEPT ![q] = Grant(k, v)]
  /\ UNCHANGED held

\* A track moves or a request is answered.  The first conjuncts tell which of
\* the two to look for.
Next ==
  \/ /\ held' # held
     /\ \E k \in TrackKey, v \in Version : Advance(k, v)
  \/ /\ answers' # answers
     /\ \E q \in Key : \/ Refuse(q)
                      \/ \E k \in TrackKey, v \in Version : Adopt(q, k, v)

Spec == Init /\ [][Next]_vars

=============================================================================
