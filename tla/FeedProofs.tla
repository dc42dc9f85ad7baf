----------------------------- MODULE FeedProofs -----------------------------
(***************************************************************************)
(* The feed adapter, proved for every feed, every batch size and every     *)
(* number of versions: its state keeps its shape, a call measures what     *)
(* Measurement promises in finitely many steps, disagreements are reported *)
(* and findings stand.                                                     *)
(***************************************************************************)
EXTENDS Feed, TLAPS, WellFoundedInduction, FiniteSetTheorems

-----------------------------------------------------------------------------
(* The severity of a record.                                               *)

\* Of several aliases that tell a severity one is the first.
LEMMA FirstToldTells ==
  ASSUME NEW r \in Record, NEW reached, Told(r, reached) # {}
  PROVE  FirstTold(r, reached) \in Told(r, reached)
<1> DEFINE T == Told(r, reached)
<1>1. Hop(r) \in Seq(Record)
  BY FeedAssumption DEF Hop
<1>2. T \subseteq Nat /\ T # {}
  BY <1>1 DEF Told
<1> HIDE DEF T
<1>3. \E i \in T : \A j \in T : ~ (<<j, i>> \in OpToRel(<, Nat))
  <2>1. T \subseteq Nat
    BY <1>2
  <2>2. T # {}
    BY <1>2
  <2> QED BY <2>1, <2>2, NatLessThanWellFounded, WFMin, Zenon
<1>4. \E i \in T : \A j \in T : i <= j
  <2>1. PICK i \in T : \A j \in T : ~ (<<j, i>> \in OpToRel(<, Nat))
    BY <1>3
  <2>2. ASSUME NEW j \in T
        PROVE  ~ (j < i)
    BY <1>2, <2>1 DEF OpToRel
  <2> QED BY <1>2, <2>2
<1> QED BY <1>4 DEF FirstTold, T

\* severityFromAliases answers a severity or none.
LEMMA ResolvedIsSeverity ==
  ASSUME NEW r \in Record, NEW reached
  PROVE  Resolved(r, reached) \in Severity \cup {None}
<1> DEFINE i == FirstTold(r, reached)
<1>1. CASE Graded[r] = None /\ Told(r, reached) # {}
  <2>1. i \in DOMAIN Hop(r)
    BY <1>1, FirstToldTells DEF Told
  <2>2. Hop(r)[i] \in Record
    BY <2>1, FeedAssumption DEF Hop
  <2> QED BY <1>1, <2>2, FeedAssumption DEF Resolved
<1> QED BY <1>1, FeedAssumption DEF Resolved

-----------------------------------------------------------------------------
(* Types.                                                                  *)

\* The feed only grows, and the process knows when it began.
LEMMA FeedTypeStep ==
  ASSUME FeedTypeOK, [Next]_vars
  PROVE  FeedTypeOK'
<1> USE DEF FeedTypeOK
<1>1. CASE \E r \in Later : Publish(r)
  BY <1>1, FeedAssumption DEF Publish, process
<1>2. CASE \E r \in Revocable : Withdraw(r)
  BY <1>2, FeedAssumption DEF Withdraw, process
<1>3. CASE \E a \in Asks : Call(a)
  BY <1>3 DEF Call, feed, process
<1>4. CASE Adapter
  <2>1. UNCHANGED <<feed, past>>
    BY <1>4 DEF Adapter, NoFeed, Post, NextBatch, Unlisted, StartReading, Read, Fail,
         StartMatching, Grade, Report, Finish, Conclude, process
  <2> QED BY <2>1 DEF feed
<1>5. CASE Restart
  BY <1>5 DEF Restart, feed
<1>6. CASE UNCHANGED vars
  BY <1>6 DEF vars, feed, process
<1> QED BY <1>1, <1>2, <1>3, <1>4, <1>5, <1>6 DEF Next

\* An answer about every version asked is an answer.
LEMMA ConcludeType ==
  ASSUME ProcessTypeOK, QueryTypeOK, pc # "idle",
         NEW answer \in [Asked -> Answer], Conclude(answer)
  PROVE  ProcessTypeOK'
<1>1. call.pkg \in Package /\ Asked \subseteq Version
  BY DEF QueryTypeOK, Asked
<1>2. answers' = [answers EXCEPT ![call.pkg] = answer] /\ cache' = cache
  BY DEF Conclude
<1> QED BY <1>1, <1>2 DEF ProcessTypeOK

LEMMA SilenceType ==
  ASSUME NEW outcome \in {"not-found", "unreachable"}
  PROVE  Silence(outcome) \in [Asked -> Answer]
  BY DEF Silence, Answer

\* What a process remembers of records and says of packages.
LEMMA ProcessTypeStep ==
  ASSUME ProcessTypeOK, QueryTypeOK, MatchTypeOK, [Next]_vars
  PROVE  ProcessTypeOK'
<1> USE DEF ProcessTypeOK
<1>1. CASE \E r \in Later : Publish(r)
  BY <1>1 DEF Publish, process
<1>2. CASE \E r \in Revocable : Withdraw(r)
  BY <1>2 DEF Withdraw, process
<1>3. CASE \E a \in Asks : Call(a)
  BY <1>3 DEF Call, process
<1>4. CASE NoFeed
  BY <1>4, SilenceType, ConcludeType DEF NoFeed
<1>5. CASE Unlisted
  BY <1>5, SilenceType, ConcludeType DEF Unlisted, BatchDone
<1>6. CASE Fail
  BY <1>6, SilenceType, ConcludeType DEF Fail, Waits
<1>7. CASE Finish
  <2>1. \A v \in Asked : tally[v] \in SUBSET Finding
    BY <1>7 DEF Asked, QueryTypeOK, MatchTypeOK, Finish
  <2>2. [v \in Asked |-> Measured(tally[v])] \in [Asked -> Answer]
    BY <2>1 DEF Measured, Answer
  <2> QED BY <1>7, <2>2, ConcludeType DEF Finish
<1>8. CASE Post \/ NextBatch \/ StartReading \/ StartMatching \/ Report
  BY <1>8 DEF Post, NextBatch, StartReading, StartMatching, Report, process
<1>9. CASE \E r \in unread : Read(r)
  BY <1>9 DEF Read, CopyOf, ReadOf, Copy
<1>10. CASE \E r \in unmatched : Grade(r)
  BY <1>10 DEF Grade, CopyOf, ReadOf, Copy
<1>11. CASE Restart
  BY <1>11 DEF Restart
<1>12. CASE UNCHANGED vars
  BY <1>12 DEF vars, process
<1> QED
  BY <1>1, <1>2, <1>3, <1>4, <1>5, <1>6, <1>7, <1>8, <1>9, <1>10, <1>11, <1>12
     DEF Next, Adapter

\* The queries of a call: slots, batches and pages.
LEMMA QueryTypeStep ==
  ASSUME QueryTypeOK, FeedTypeOK, [Next]_vars
  PROVE  QueryTypeOK'
<1> USE DEF QueryTypeOK
<1>0. UNCHANGED call => Slots' = Slots
  BY DEF Slots
<1>1. CASE \E r \in Later : Publish(r)
  BY <1>0, <1>1 DEF Publish, asking
<1>2. CASE \E r \in Revocable : Withdraw(r)
  BY <1>0, <1>2 DEF Withdraw, asking
<1>3. CASE \E a \in Asks : Call(a)
  <2>1. PICK a \in Asks : Call(a)
    BY <1>3
  <2>2. /\ a.pkg \in Package /\ a.versions \in Seq(Version)
        /\ \A i, j \in 1..Len(a.versions) : a.versions[i] = a.versions[j] => i = j
    BY FeedAssumption
  <2>3. /\ call' = [pkg |-> a.pkg, versions |-> a.versions, known |-> published]
        /\ pc' = "query" /\ chunk' = 0 /\ round' = 0
        /\ merged' = [s \in 0..Len(a.versions) |-> {}]
        /\ pending' = ChunkFrom(0, Len(a.versions))
    BY <2>1 DEF Call
  <2>4. Slots' = 0..Len(a.versions)
    BY <2>3 DEF Slots
  <2>5. call' \in [pkg : Package, versions : Seq(Version), known : SUBSET Record]
    BY <2>2, <2>3 DEF FeedTypeOK
  <2>6. call' # None
    BY <2>5, NoneAssumption
  <2>7. merged' \in [Slots' -> SUBSET Record]
    BY <2>3, <2>4
  <2>8. pending' \subseteq Slots'
    BY <2>2, <2>3, <2>4 DEF ChunkFrom
  <2> QED BY <2>2, <2>3, <2>5, <2>6, <2>7, <2>8, FeedAssumption
<1>4. CASE NoFeed \/ Unlisted \/ Fail \/ Finish
  <2>1. Forget /\ UNCHANGED call
    BY <1>4 DEF NoFeed, Unlisted, Fail, Finish, Conclude
  <2> QED BY <2>1, FeedAssumption DEF Forget
<1>5. CASE Post
  <2>1. PICK reply \in [pending -> UNION {Pages(s) : s \in pending}] :
          /\ \A s \in pending : reply[s] \in Pages(s)
          /\ merged' = Merge(reply)
          /\ pending' = {s \in pending : reply[s].more}
    BY <1>5 DEF Post
  <2>2. merged' \in [Slots -> SUBSET Record]
    <3>1. \A s \in pending : reply[s].ids \in SUBSET Record
      BY <2>1 DEF Pages, Matches, FeedTypeOK
    <3> QED BY <1>5, <2>1, <3>1 DEF Merge, Post
  <2>3. round' \in 0..MaxPages
    BY <1>5, FeedAssumption DEF Post, Exhausted
  <2> QED BY <1>0, <1>5, <2>1, <2>2, <2>3 DEF Post
<1>6. CASE NextBatch
  <2>1. chunk' \in Nat /\ pending' = ChunkFrom(chunk', Len(call.versions)) /\ call # None
    BY <1>6, FeedAssumption DEF NextBatch, BatchDone
  <2>2. pending' \subseteq Slots
    BY <2>1 DEF ChunkFrom, Slots
  <2> QED BY <1>0, <1>6, <2>1, <2>2, FeedAssumption DEF NextBatch
<1>7. CASE StartReading
  BY <1>0, <1>7 DEF StartReading, asking, BatchDone
<1>8. CASE \E r \in unread : Read(r)
  BY <1>0, <1>8 DEF Read, asking
<1>9. CASE StartMatching
  BY <1>0, <1>9 DEF StartMatching, asking
<1>10. CASE \E r \in unmatched : Grade(r)
  BY <1>0, <1>10 DEF Grade, asking
<1>11. CASE Report
  BY <1>0, <1>11 DEF Report, asking
<1>12. CASE Restart
  BY <1>12, FeedAssumption DEF Restart, Forget
<1>13. CASE UNCHANGED vars
  BY <1>0, <1>13 DEF vars, asking
<1> QED
  BY <1>1, <1>2, <1>3, <1>4, <1>5, <1>6, <1>7, <1>8, <1>9, <1>10, <1>11, <1>12,
     <1>13 DEF Next, Adapter

\* Reading and matching.
LEMMA MatchTypeStep ==
  ASSUME MatchTypeOK, QueryTypeOK, [Next]_vars
  PROVE  MatchTypeOK'
<1> USE DEF MatchTypeOK
<1>0. UNCHANGED <<call, records>> => \A i : Hits(i)' = Hits(i)
  BY DEF Hits
<1>1. CASE \E r \in Later : Publish(r)
  BY <1>0, <1>1 DEF Publish, reading, matching
<1>2. CASE \E r \in Revocable : Withdraw(r)
  BY <1>0, <1>2 DEF Withdraw, reading, matching
<1>3. CASE \E a \in Asks : Call(a)
  BY <1>3, Zenon DEF Call, reading, matching
<1>4. CASE NoFeed \/ Unlisted \/ Fail \/ Finish
  <2>1. Forget
    BY <1>4 DEF NoFeed, Unlisted, Fail, Finish, Conclude
  <2>2. excused' \in BOOLEAN
    <3>1. CASE Fail
      <4>1. excused' = (Cardinality(pending) <= FeedCap)
        BY <3>1, Zenon DEF Fail
      <4>2. CASE Cardinality(pending) <= FeedCap
        BY <4>1, <4>2
      <4>3. CASE ~ (Cardinality(pending) <= FeedCap)
        BY <4>1, <4>3
      <4> QED BY <4>2, <4>3
    <3>2. CASE NoFeed \/ Unlisted \/ Finish
      BY <3>2, Zenon DEF NoFeed, Unlisted, Finish
    <3> QED BY <1>4, <3>1, <3>2
  <2> QED BY <2>1, <2>2 DEF Forget
<1>5. CASE Post
  BY <1>0, <1>5 DEF Post, reading, matching
<1>6. CASE NextBatch
  BY <1>0, <1>6 DEF NextBatch, reading, matching
<1>7. CASE StartReading
  <2>1. unread' \in SUBSET Record
    BY <1>7 DEF StartReading, QueryTypeOK, BatchDone, Slots
  <2>2. UNCHANGED <<records, matching, excused>> /\ unmatched = {} /\ pc' = "read"
    BY <1>7 DEF StartReading, BatchDone
  <2> QED BY <2>1, <2>2 DEF matching
<1>8. CASE \E r \in unread : Read(r)
  <2>1. unread' \in SUBSET Record /\ records' \in SUBSET Record
    BY <1>8 DEF Read
  <2>2. UNCHANGED <<matching, excused>> /\ unmatched = {} /\ pc' = "read"
    BY <1>8 DEF Read
  <2> QED BY <2>1, <2>2 DEF matching
<1>9. CASE StartMatching
  <2>1. /\ UNCHANGED <<call, reading, tally, warned, excused>>
        /\ pc' = "match" /\ turn' = 1 /\ unmatched' = Hits(1)
    BY <1>9 DEF StartMatching
  <2>2. Hits(1)' = Hits(1)
    BY <1>0, <2>1 DEF reading
  <2> QED BY <2>1, <2>2 DEF reading, Hits
<1>10. CASE \E r \in unmatched : Grade(r)
  <2>1. PICK r \in unmatched : Grade(r)
    BY <1>10
  <2>2. PICK reached : tally' = [tally EXCEPT ![call.versions[turn]] =
                                   @ \cup {[id |-> r, severity |-> Resolved(r, reached)]}]
    BY <2>1 DEF Grade
  <2>3. r \in Record
    BY DEF Hits
  <2>4. [id |-> r, severity |-> Resolved(r, reached)] \in Finding
    BY <2>3, ResolvedIsSeverity DEF Finding
  <2>5. tally' \in [Version -> SUBSET Finding]
    BY <2>2, <2>4
  <2>6. /\ UNCHANGED <<call, pc, reading, turn, warned, excused>>
        /\ unmatched' \subseteq unmatched
    BY <2>1 DEF Grade
  <2> QED BY <1>0, <2>5, <2>6 DEF reading
<1>11. CASE Report
  <2>1. /\ UNCHANGED <<call, pc, reading, tally, excused>>
        /\ pc = "match" /\ turn' = turn + 1 /\ unmatched' = Hits(turn + 1)
    BY <1>11 DEF Report
  <2>2. warned' \subseteq Nat \X Record
    <3>1. Theirs(turn) \in SUBSET Record
      BY <1>11 DEF Report, Theirs, QueryTypeOK, Slots
    <3>2. Ids(tally[call.versions[turn]]) \in SUBSET Record
      <4>1. call.versions[turn] \in Version
        BY <1>11 DEF Report, QueryTypeOK
      <4> QED BY <4>1 DEF Ids, Finding
    <3> QED BY <1>11, <3>1, <3>2 DEF Report
  <2>3. Hits(turn)' = Hits(turn + 1)
    BY <2>1 DEF reading, Hits
  <2> QED BY <2>1, <2>2, <2>3 DEF reading
<1>12. CASE Restart
  BY <1>12 DEF Restart, Forget
<1>13. CASE UNCHANGED vars
  BY <1>0, <1>13 DEF vars, reading, matching
<1> QED
  BY <1>1, <1>2, <1>3, <1>4, <1>5, <1>6, <1>7, <1>8, <1>9, <1>10, <1>11, <1>12,
     <1>13 DEF Next, Adapter

\* Feed, any number of calls: Spec => []TypeOK.
THEOREM TypeCorrect == Spec => []TypeOK
<1>1. Init => TypeOK
  <2> SUFFICES ASSUME Init PROVE TypeOK
    OBVIOUS
  <2>1. FeedTypeOK /\ ProcessTypeOK
    BY DEF Init, FeedTypeOK, ProcessTypeOK
  <2>2. QueryTypeOK
    BY FeedAssumption DEF Init, QueryTypeOK
  <2>3. MatchTypeOK
    BY DEF Init, MatchTypeOK
  <2> QED BY <2>1, <2>2, <2>3 DEF TypeOK
<1>2. TypeOK /\ [Next]_vars => TypeOK'
  BY FeedTypeStep, ProcessTypeStep, QueryTypeStep, MatchTypeStep DEF TypeOK
<1> QED BY <1>1, <1>2, PTL DEF Spec

-----------------------------------------------------------------------------
(* What a call knows of the feed.                                          *)

Listed == {r \in published : call.pkg \in About[r]}

\* Records the measurement must not miss.
Due == {r \in call.known \ withdrawn : call.pkg \in About[r]}

\* A record read long ago as active was so within the life of the process.
CacheInv ==
  \A r \in Record : /\ cache[r] = "active" => r \notin past
                    /\ cache[r] = "withdrawn" => r \in withdrawn

QueryInv ==
  /\ pc # "idle" => call.known \subseteq published
  /\ pc \in {"idle", "query"} => records = {}
  /\ pc = "query" => /\ merged[0] \subseteq Listed
                     /\ 0 \notin pending => Due \subseteq merged[0]

\* No record due is lost while the records are read.
ReadInv ==
  pc = "read" => /\ unread \cup records \subseteq Listed
                 /\ records \cap past = {}
                 /\ Due \subseteq unread \cup records

\* What the versions done carry is what covers them.
MatchInv ==
  /\ pc # "match" => \A v \in Version : tally[v] = {}
  /\ pc = "match" =>
       /\ records \subseteq Listed \ past
       /\ Due \subseteq records
       /\ \A i \in 1..Len(call.versions) :
            /\ i < turn => Ids(tally[call.versions[i]]) = Hits(i)
            /\ i = turn => Ids(tally[call.versions[i]]) \cup unmatched = Hits(i)
            /\ i > turn => tally[call.versions[i]] = {}

Inv == CacheInv /\ QueryInv /\ ReadInv /\ MatchInv

\* Nothing a process remembers was withdrawn before it began.
LEMMA CacheStep ==
  ASSUME TypeOK, Inv, [Next]_vars
  PROVE  CacheInv'
<1> USE DEF CacheInv
<1>0. CacheInv /\ past \subseteq withdrawn /\ cache \in [Record -> Copy \cup {None}]
  BY DEF Inv, TypeOK, FeedTypeOK, ProcessTypeOK
<1>1. CASE \E r \in Later : Publish(r)
  BY <1>0, <1>1 DEF Publish, process
<1>2. CASE \E r \in Revocable : Withdraw(r)
  BY <1>0, <1>2 DEF Withdraw, process
<1>3. CASE \E a \in Asks : Call(a)
  BY <1>0, <1>3 DEF Call, process, feed
<1>4. CASE NoFeed \/ Unlisted \/ Fail \/ Finish
  BY <1>0, <1>4 DEF NoFeed, Unlisted, Fail, Finish, Conclude, feed
<1>5. CASE Post \/ NextBatch \/ StartReading \/ StartMatching \/ Report
  BY <1>0, <1>5 DEF Post, NextBatch, StartReading, StartMatching, Report, process, feed
<1>6. CASE \E r \in unread : Read(r)
  BY <1>0, <1>6 DEF Read, CopyOf, ReadOf, feed
<1>7. CASE \E r \in unmatched : Grade(r)
  BY <1>0, <1>7 DEF Grade, CopyOf, ReadOf, feed
<1>8. CASE Restart
  BY <1>0, <1>8, NoneAssumption DEF Restart, Copy
<1>9. CASE UNCHANGED vars
  BY <1>0, <1>9 DEF vars, process, feed
<1> QED
  BY <1>1, <1>2, <1>3, <1>4, <1>5, <1>6, <1>7, <1>8, <1>9 DEF Next, Adapter

\* What the world does to the records a call is about: those listed only
\* become more, those due only fewer.
LEMMA WorldKeeps ==
  ASSUME FeedTypeOK, QueryTypeOK, QueryInv, UNCHANGED call,
         published \subseteq published', withdrawn \subseteq withdrawn'
  PROVE  Listed \subseteq Listed' /\ Due' \subseteq Due
  BY DEF Listed, Due

\* The package-wide query loses nothing over its pages, whatever is published
\* or withdrawn between two of them.
LEMMA QueryStep ==
  ASSUME TypeOK, Inv, [Next]_vars
  PROVE  QueryInv'
<1> USE DEF QueryInv
<1>0. QueryInv /\ FeedTypeOK /\ QueryTypeOK /\ MatchTypeOK
  BY DEF Inv, TypeOK
<1>1. CASE (\E r \in Later : Publish(r)) \/ (\E r \in Revocable : Withdraw(r))
  <2>1. /\ UNCHANGED <<pc, call, asking, reading>>
        /\ published \subseteq published' /\ withdrawn \subseteq withdrawn'
    BY <1>1 DEF Publish, Withdraw
  <2> QED BY <1>0, <2>1, WorldKeeps DEF asking, reading
<1>2. CASE \E a \in Asks : Call(a)
  <2>1. PICK a \in Asks : Call(a)
    BY <1>2
  <2>2. a.versions \in Seq(Version)
    BY FeedAssumption
  <2>3. 0 \in ChunkFrom(0, Len(a.versions))
    BY <2>2, FeedAssumption DEF ChunkFrom
  <2> QED BY <1>0, <2>1, <2>2, <2>3 DEF Call, feed, reading
<1>3. CASE NoFeed \/ Unlisted \/ Fail \/ Finish \/ Restart
  BY <1>3 DEF NoFeed, Unlisted, Fail, Finish, Conclude, Restart, Forget
<1>4. CASE Post
  <2>1. PICK reply \in [pending -> UNION {Pages(s) : s \in pending}] :
          /\ \A s \in pending : reply[s] \in Pages(s)
          /\ merged' = Merge(reply)
          /\ pending' = {s \in pending : reply[s].more}
    BY <1>4 DEF Post
  <2>2. UNCHANGED <<feed, pc, call, reading>> /\ pc = "query"
    BY <1>4 DEF Post
  <2>3. 0 \in Slots /\ merged \in [Slots -> SUBSET Record]
    BY <1>0, <2>2 DEF QueryTypeOK, Slots
  <2>4. merged'[0] = IF 0 \in pending THEN merged[0] \cup reply[0].ids ELSE merged[0]
    BY <2>1, <2>3 DEF Merge
  <2>5. CASE 0 \in pending
    <3>1. /\ reply[0].ids \subseteq Listed
          /\ ~ reply[0].more => Due \subseteq merged[0] \cup reply[0].ids
      <4>1. reply[0] \in Pages(0)
        BY <2>1, <2>5
      <4> QED BY <1>0, <2>2, <4>1 DEF Pages, Matches, Listed, Due
    <3> QED BY <1>0, <2>1, <2>2, <2>4, <2>5, <3>1 DEF feed, reading, Listed, Due
  <2>6. CASE 0 \notin pending
    BY <1>0, <2>1, <2>2, <2>4, <2>6 DEF feed, reading, Listed, Due
  <2> QED BY <2>5, <2>6
<1>5. CASE NextBatch
  BY <1>0, <1>5 DEF NextBatch, BatchDone, feed, reading, Listed, Due
<1>6. CASE StartReading \/ StartMatching \/ Report
  <2>1. UNCHANGED <<published, call>> /\ pc # "idle" /\ pc' \in {"read", "match"}
    BY <1>6 DEF StartReading, BatchDone, StartMatching, Report, feed
  <2> QED BY <1>0, <2>1
<1>7. CASE \E r \in unread : Read(r)
  BY <1>0, <1>7 DEF Read, feed
<1>8. CASE \E r \in unmatched : Grade(r)
  BY <1>0, <1>8 DEF Grade, feed, reading
<1>9. CASE UNCHANGED vars
  BY <1>0, <1>9 DEF vars, feed, asking, reading, Listed, Due
<1> QED
  BY <1>1, <1>2, <1>3, <1>4, <1>5, <1>6, <1>7, <1>8, <1>9 DEF Next, Adapter

\* A record is dropped on the way only if it was withdrawn.
LEMMA ReadStep ==
  ASSUME TypeOK, Inv, [Next]_vars
  PROVE  ReadInv'
<1> USE DEF ReadInv
<1>0. ReadInv /\ QueryInv /\ CacheInv /\ FeedTypeOK /\ QueryTypeOK /\ MatchTypeOK
  BY DEF Inv, TypeOK
<1>1. CASE (\E r \in Later : Publish(r)) \/ (\E r \in Revocable : Withdraw(r))
  <2>1. /\ UNCHANGED <<pc, call, reading, process>>
        /\ published \subseteq published' /\ withdrawn \subseteq withdrawn'
    BY <1>1 DEF Publish, Withdraw
  <2> QED BY <1>0, <2>1, WorldKeeps DEF reading, process
<1>2. CASE \E a \in Asks : Call(a)
  BY <1>2 DEF Call
<1>3. CASE NoFeed \/ Unlisted \/ Fail \/ Finish \/ Restart
  BY <1>3 DEF NoFeed, Unlisted, Fail, Finish, Conclude, Restart, Forget
<1>4. CASE Post \/ NextBatch \/ StartMatching \/ Report
  BY <1>4 DEF Post, NextBatch, BatchDone, StartMatching, Report
<1>5. CASE StartReading
  <2>1. /\ UNCHANGED <<feed, process, call, records>> /\ unread' = merged[0]
        /\ pc = "query" /\ 0 \notin pending
    BY <1>5 DEF StartReading, BatchDone
  <2>2. records = {} /\ merged[0] \subseteq Listed /\ Due \subseteq merged[0]
    BY <1>0, <2>1 DEF QueryInv
  <2> QED BY <2>1, <2>2 DEF feed, process, Listed, Due
<1>6. CASE \E r \in unread : Read(r)
  <2>1. PICK r \in unread : Read(r)
    BY <1>6
  <2>2. /\ UNCHANGED <<feed, past, call>> /\ pc = "read"
        /\ unread' = unread \ {r}
        /\ records' = IF CopyOf(r) = "active" THEN records \cup {r} ELSE records
    BY <2>1 DEF Read
  <2>3. r \in Record /\ past \subseteq withdrawn /\ cache \in [Record -> Copy \cup {None}]
    BY <1>0, <2>2, TypeOK DEF MatchTypeOK, FeedTypeOK, TypeOK, ProcessTypeOK
  <2>4. /\ CopyOf(r) = "active" => r \notin past
        /\ CopyOf(r) # "active" => r \in withdrawn
    BY <1>0, <2>3 DEF CopyOf, ReadOf, CacheInv, Copy
  <2> QED BY <1>0, <2>2, <2>4 DEF feed, Listed, Due
<1>7. CASE \E r \in unmatched : Grade(r)
  BY <1>0, <1>7 DEF Grade
<1>8. CASE UNCHANGED vars
  BY <1>0, <1>8 DEF vars, feed, process, reading, Listed, Due
<1> QED
  BY <1>1, <1>2, <1>3, <1>4, <1>5, <1>6, <1>7, <1>8 DEF Next, Adapter

\* The versions are matched one after the other, and what one carries is left
\* alone when the next is matched.
LEMMA MatchStep ==
  ASSUME TypeOK, Inv, [Next]_vars
  PROVE  MatchInv'
<1> USE DEF MatchInv
<1>0. MatchInv /\ ReadInv /\ QueryInv /\ FeedTypeOK /\ QueryTypeOK /\ MatchTypeOK
  BY DEF Inv, TypeOK
<1>1. CASE (\E r \in Later : Publish(r)) \/ (\E r \in Revocable : Withdraw(r))
  <2>1. /\ UNCHANGED <<pc, call, reading, matching, process>>
        /\ published \subseteq published' /\ withdrawn \subseteq withdrawn'
    BY <1>1 DEF Publish, Withdraw
  <2>2. \A i : Hits(i)' = Hits(i)
    BY <2>1 DEF Hits, reading
  <2>3. \A v : Ids(tally[v])' = Ids(tally[v])
    BY <2>1 DEF Ids, matching
  <2>4. pc # "match" => MatchInv'
    BY <1>0, <2>1 DEF matching
  <2>5. ASSUME pc = "match" PROVE MatchInv'
    <3>1. records' \subseteq (Listed \ past)' /\ Due' \subseteq records'
      BY <1>0, <2>1, <2>5, WorldKeeps DEF reading, process
    <3> QED BY <1>0, <2>1, <2>2, <2>3, <2>5, <3>1 DEF matching
  <2> QED BY <2>4, <2>5
<1>2. CASE \E a \in Asks : Call(a)
  BY <1>0, <1>2 DEF Call, matching
<1>3. CASE NoFeed \/ Unlisted \/ Fail \/ Finish \/ Restart
  BY <1>3 DEF NoFeed, Unlisted, Fail, Finish, Conclude, Restart, Forget
<1>4. CASE Post \/ NextBatch \/ StartReading
  BY <1>0, <1>4 DEF Post, NextBatch, BatchDone, StartReading, matching
<1>5. CASE \E r \in unread : Read(r)
  BY <1>0, <1>5 DEF Read, matching
<1>6. CASE StartMatching
  <2>1. /\ UNCHANGED <<feed, process, call, reading, tally>>
        /\ pc = "read" /\ unread = {} /\ turn' = 1 /\ unmatched' = Hits(1)
    BY <1>6 DEF StartMatching
  <2>2. records \subseteq Listed \ past /\ Due \subseteq records
    BY <1>0, <2>1 DEF ReadInv
  <2>3. /\ records' \subseteq (Listed \ past)'
        /\ Due' \subseteq records'
    BY <2>1, <2>2 DEF feed, process, reading, Listed, Due
  <2>4. ASSUME NEW i \in 1..Len(call.versions)
        PROVE  /\ call.versions[i] \in Version
               /\ tally[call.versions[i]] = {}
    BY <1>0, <2>1 DEF QueryTypeOK
  <2>5. \A i : Hits(i)' = Hits(i)
    BY <2>1 DEF Hits, reading
  <2>6. Ids({}) = {}
    BY DEF Ids
  <2>7. Len(call.versions) \in Nat /\ pc' = "match" /\ call' = call /\ tally' = tally
    BY <1>0, <1>6, <2>1 DEF QueryTypeOK, StartMatching
  <2>8. ASSUME NEW i \in 1..Len(call.versions)
        PROVE  /\ ~ (i < turn')
               /\ i = turn' => Ids(tally[call.versions[i]]) \cup unmatched' = Hits(i)'
               /\ tally[call.versions[i]] = {}
    <3>1. tally[call.versions[i]] = {} /\ Ids(tally[call.versions[i]]) = {}
      BY <2>4, <2>6
    <3>2. i \in Nat /\ i >= 1
      BY <2>7
    <3>3. i = turn' => unmatched' = Hits(i)'
      BY <2>1, <2>5
    <3> QED BY <2>1, <3>1, <3>2, <3>3
  <2>9. \A i \in 1..Len(call.versions) : Ids(tally[call.versions[i]])' = Ids(tally[call.versions[i]])
    BY <2>7 DEF Ids
  <2> QED BY <2>3, <2>7, <2>8, <2>9
<1>7. CASE \E r \in unmatched : Grade(r)
  <2>1. PICK r \in unmatched : Grade(r)
    BY <1>7
  <2>2. PICK reached : tally' = [tally EXCEPT ![call.versions[turn]] =
                                   @ \cup {[id |-> r, severity |-> Resolved(r, reached)]}]
    BY <2>1 DEF Grade
  <2>3. /\ UNCHANGED <<feed, past, call, reading, turn>> /\ pc = "match" /\ pc' = "match"
        /\ unmatched' = unmatched \ {r}
    BY <2>1 DEF Grade
  <2>4. /\ records' \subseteq (Listed \ past)'
        /\ Due' \subseteq records'
    BY <1>0, <2>3 DEF feed, reading, Listed, Due
  <2>5. \A i : Hits(i)' = Hits(i)
    BY <2>3 DEF Hits, reading
  <2>6. /\ turn \in 1..Len(call.versions) /\ r \in Hits(turn)
        /\ tally \in [Version -> SUBSET Finding]
        /\ \A i \in 1..Len(call.versions) : call.versions[i] \in Version
        /\ \A i, j \in 1..Len(call.versions) :
             call.versions[i] = call.versions[j] => i = j
    BY <1>0, <2>3 DEF QueryTypeOK, MatchTypeOK, Hits
  <2>7. ASSUME NEW i \in 1..Len(call.versions), i # turn
        PROVE  tally'[call'.versions[i]] = tally[call.versions[i]]
    BY <2>2, <2>3, <2>6, <2>7
  <2>8. Ids(tally'[call'.versions[turn]]) = Ids(tally[call.versions[turn]]) \cup {r}
    <3>1. tally'[call'.versions[turn]] =
            tally[call.versions[turn]] \cup {[id |-> r, severity |-> Resolved(r, reached)]}
      BY <2>2, <2>3, <2>6
    <3>2. PICK F, f : F = tally[call.versions[turn]]
                      /\ f = [id |-> r, severity |-> Resolved(r, reached)]
      OBVIOUS
    <3>3. f.id = r
      BY <3>2
    <3>4. Ids(F \cup {f}) = Ids(F) \cup {r}
      BY <3>3 DEF Ids
    <3> QED BY <3>1, <3>2, <3>4
  <2>9. ASSUME NEW i \in 1..Len(call.versions)
        PROVE  /\ i < turn' => Ids(tally'[call'.versions[i]]) = Hits(i)'
               /\ i = turn' => Ids(tally'[call'.versions[i]]) \cup unmatched' = Hits(i)'
               /\ i > turn' => tally'[call'.versions[i]] = {}
    <3>1. turn' = turn /\ turn \in Nat /\ i \in Nat
      BY <2>3, <2>6
    <3>2. CASE i = turn
      BY <1>0, <2>1, <2>3, <2>5, <2>8, <3>1, <3>2
    <3>3. CASE i # turn
      BY <1>0, <2>3, <2>5, <2>7, <3>1, <3>3
    <3> QED BY <3>2, <3>3
  <2>10. \A i : Ids(tally[call.versions[i]])' = Ids(tally'[call'.versions[i]])
    BY DEF Ids
  <2> QED BY <2>3, <2>4, <2>9, <2>10
<1>8. CASE Report
  <2>1. /\ UNCHANGED <<feed, process, call, reading, tally>>
        /\ pc = "match" /\ pc' = "match" /\ turn' = turn + 1
        /\ unmatched = {} /\ unmatched' = Hits(turn + 1)
        /\ turn \in Nat
    BY <1>0, <1>8 DEF Report, MatchTypeOK
  <2>2. /\ records' \subseteq (Listed \ past)'
        /\ Due' \subseteq records'
    BY <1>0, <2>1 DEF feed, process, reading, Listed, Due
  <2>3. \A i : Hits(i)' = Hits(i)
    BY <2>1 DEF Hits, reading
  <2>4. \A v : Ids(tally[v])' = Ids(tally[v])
    BY <2>1 DEF Ids
  <2>5. Ids({}) = {}
    BY DEF Ids
  <2>6. ASSUME NEW i \in 1..Len(call.versions)
        PROVE  /\ i < turn' => Ids(tally[call.versions[i]]) = Hits(i)
               /\ i = turn' => Ids(tally[call.versions[i]]) \cup unmatched' = Hits(i)
               /\ i > turn' => tally[call.versions[i]] = {}
    <3>1. i \in Nat
      OBVIOUS
    <3>2. CASE i < turn
      BY <1>0, <2>1, <3>1, <3>2
    <3>3. CASE i = turn
      BY <1>0, <2>1, <3>1, <3>3
    <3>4. CASE i > turn
      <4>1. tally[call.versions[i]] = {}
        BY <1>0, <2>1, <3>4
      <4>2. Ids(tally[call.versions[i]]) = {}
        BY <2>5, <4>1
      <4>3. i = turn' => unmatched' = Hits(i)
        BY <2>1
      <4> QED BY <2>1, <3>1, <3>4, <4>1, <4>2, <4>3
    <3> QED BY <2>1, <3>1, <3>2, <3>3, <3>4
  <2> QED BY <2>1, <2>2, <2>3, <2>4, <2>6
<1>9. CASE UNCHANGED vars
  <2>1. UNCHANGED <<feed, process, pc, call, reading, matching>>
    BY <1>9 DEF vars
  <2>2. \A i : Hits(i)' = Hits(i)
    BY <2>1 DEF Hits, reading
  <2>3. \A v : Ids(tally[v])' = Ids(tally[v])
    BY <2>1 DEF Ids, matching
  <2> QED BY <1>0, <2>1, <2>2, <2>3 DEF feed, process, reading, matching, Listed, Due
<1> QED
  BY <1>1, <1>2, <1>3, <1>4, <1>5, <1>6, <1>7, <1>8, <1>9 DEF Next, Adapter

\* The inductive invariant of the adapter.
LEMMA Invariance == Spec => []Inv
<1>1. Init => Inv
  BY NoneAssumption DEF Init, Inv, CacheInv, QueryInv, ReadInv, MatchInv, Copy
<1>2. TypeOK /\ Inv /\ [Next]_vars => Inv'
  BY CacheStep, QueryStep, ReadStep, MatchStep DEF Inv
<1> QED BY <1>1, <1>2, TypeCorrect, PTL DEF Spec

-----------------------------------------------------------------------------
(* A call measures what Measurement promises.                              *)

\* Measurement sees a call begin and end, and the feed change.
LEMMA StutterMaps ==
  ASSUME UNCHANGED <<feed, past, answers, call>>, (pc = "idle") <=> (pc' = "idle")
  PROVE  UNCHANGED Promise!vars
<1>1. UNCHANGED CallInProgress
  BY DEF CallInProgress, Asked
<1>2. UNCHANGED LastAnswers
  BY DEF LastAnswers, Said, Ids
<1> QED BY <1>1, <1>2 DEF feed, Promise!vars

\* During a call there is one, and its answer is the package's last.
LEMMA ConcludeMaps ==
  ASSUME TypeOK, pc # "idle", NEW answer \in [Asked -> Answer], Conclude(answer)
  PROVE  Promise!Conclude(Said(answer))
<1>1. /\ call \in [pkg : Package, versions : Seq(Version), known : SUBSET Record]
      /\ Asked \subseteq Version
  BY DEF TypeOK, QueryTypeOK, Asked
<1>2. /\ CallInProgress = [pkg |-> call.pkg, versions |-> Asked, known |-> call.known]
      /\ CallInProgress # None
  BY <1>1, NoneAssumption DEF CallInProgress
<1>3. CallInProgress' = None
  BY DEF Conclude, Forget, CallInProgress
<1>4. /\ answers' = [answers EXCEPT ![call.pkg] = answer]
      /\ DOMAIN answers = Package
      /\ answer # None
  BY <1>1, NoneAssumption DEF Conclude, TypeOK, ProcessTypeOK
<1>5. LastAnswers' = [LastAnswers EXCEPT ![CallInProgress.pkg] = Said(answer)]
  <2>1. ASSUME NEW p \in Package
        PROVE  LastAnswers'[p] =
                 IF p = call.pkg THEN Said(answer) ELSE LastAnswers[p]
    <3>1. LastAnswers'[p] = IF answers'[p] = None THEN None ELSE Said(answers'[p])
      BY DEF LastAnswers, Said, Ids
    <3>2. LastAnswers[p] = IF answers[p] = None THEN None ELSE Said(answers[p])
      BY DEF LastAnswers
    <3>3. answers'[p] = IF p = call.pkg THEN answer ELSE answers[p]
      BY <1>4
    <3> QED BY <1>4, <3>1, <3>2, <3>3
  <2>2. /\ LastAnswers' = [p \in Package |-> LastAnswers'[p]]
        /\ LastAnswers = [p \in Package |-> LastAnswers[p]]
    BY DEF LastAnswers
  <2> QED BY <1>2, <2>1, <2>2
<1> QED BY <1>2, <1>3, <1>5 DEF Conclude, feed, Promise!Conclude

\* Silence says nothing but that there is none.
LEMMA SilenceMaps ==
  ASSUME pc # "idle", NEW outcome
  PROVE  Said(Silence(outcome)) = Promise!Silence(outcome)
  BY DEF Said, Silence, Ids, CallInProgress, Promise!Silence

\* What is due to the call is what is due to the measurement.
LEMMA DueMaps ==
  ASSUME pc # "idle"
  PROVE  Promise!Due = Due /\ Promise!Tellable = Listed \ past
  BY DEF Promise!Due, Promise!Tellable, Due, Listed, CallInProgress

\* Every step of a call is a step of Measurement or none.
LEMMA StepMaps ==
  ASSUME TypeOK, Inv, [Next]_vars
  PROVE  [Promise!Next]_(Promise!vars)
<1>1. CASE (\E r \in Later : Publish(r)) \/ (\E r \in Revocable : Withdraw(r))
  <2>1. /\ UNCHANGED <<past, answers, pc, call>>
        /\ published \subseteq published' /\ withdrawn \subseteq withdrawn'
        /\ published' \subseteq Record /\ withdrawn' \subseteq published'
    BY <1>1, FeedAssumption DEF Publish, Withdraw, process, TypeOK, FeedTypeOK
  <2>2. UNCHANGED CallInProgress
    BY <2>1 DEF CallInProgress, Asked
  <2>3. UNCHANGED LastAnswers
    BY <2>1 DEF LastAnswers, Said, Ids
  <2>4. Promise!World
    BY <2>1, <2>2, <2>3 DEF Promise!World
  <2> QED BY <2>4 DEF Promise!Next
<1>2. CASE \E a \in Asks : Call(a)
  <2>1. PICK a \in Asks : Call(a)
    BY <1>2
  <2>2. /\ pc = "idle" /\ pc' = "query" /\ UNCHANGED <<feed, past, answers>>
        /\ call' = [pkg |-> a.pkg, versions |-> a.versions, known |-> published]
    BY <2>1 DEF Call, process
  <2>3. a.pkg \in Package /\ a.versions \in Seq(Version)
    BY FeedAssumption
  <2>4. Asked' \in SUBSET Version
    BY <2>2, <2>3 DEF Asked
  <2>5. CallInProgress = None
    BY <2>2 DEF CallInProgress
  <2>6. CallInProgress' = [pkg |-> a.pkg, versions |-> Asked', known |-> published]
    BY <2>2 DEF CallInProgress
  <2>7. UNCHANGED LastAnswers
    BY <2>2 DEF LastAnswers, Said, Ids
  <2>8. Promise!Ask(a.pkg, Asked')
    BY <2>2, <2>5, <2>6, <2>7 DEF Promise!Ask, feed
  <2> QED BY <2>3, <2>4, <2>8 DEF Promise!Next
<1>3. CASE NoFeed
  <2>1. pc # "idle" /\ Conclude(Silence("not-found")) /\ call.pkg \in Feedless
    BY <1>3 DEF NoFeed
  <2>2. Promise!Conclude(Promise!Silence("not-found"))
    BY <2>1, SilenceType, ConcludeMaps, SilenceMaps
  <2>3. Promise!Due = {}
    <3>1. Due \subseteq Record
      BY <2>1 DEF Due, TypeOK, QueryTypeOK
    <3>2. \A r \in Record : call.pkg \notin About[r]
      BY <2>1, FeedAssumption
    <3> QED BY <2>1, <3>1, <3>2, DueMaps DEF Due
  <2> QED BY <2>2, <2>3 DEF Promise!NotFound, Promise!Next
<1>4. CASE Unlisted
  <2>1. /\ pc = "query" /\ pending = {} /\ merged[0] = {}
        /\ Conclude(Silence("not-found"))
    BY <1>4 DEF Unlisted, BatchDone
  <2>2. Promise!Conclude(Promise!Silence("not-found"))
    BY <2>1, SilenceType, ConcludeMaps, SilenceMaps
  <2>3. Promise!Due = {}
    BY <2>1, DueMaps DEF Inv, QueryInv
  <2> QED BY <2>2, <2>3 DEF Promise!NotFound, Promise!Next
<1>5. CASE Fail
  <2>1. pc # "idle" /\ Conclude(Silence("unreachable"))
    BY <1>5 DEF Fail, Waits
  <2>2. Promise!Conclude(Promise!Silence("unreachable"))
    BY <2>1, SilenceType, ConcludeMaps, SilenceMaps
  <2> QED BY <2>2 DEF Promise!Unreachable, Promise!Next
<1>6. CASE Finish
  <2> DEFINE answer == [v \in Asked |-> Measured(tally[v])]
  <2>1. pc = "match" /\ turn > Len(call.versions) /\ Conclude(answer)
    BY <1>6 DEF Finish
  <2>2. /\ call \in [pkg : Package, versions : Seq(Version), known : SUBSET Record]
        /\ tally \in [Version -> SUBSET Finding]
        /\ turn \in Nat
    BY <2>1 DEF TypeOK, QueryTypeOK, MatchTypeOK
  <2>3. answer \in [Asked -> Answer]
    <3>1. \A v \in Asked : tally[v] \in SUBSET Finding
      BY <2>2 DEF Asked
    <3> QED BY <3>1 DEF Measured, Answer
  <2>4. records \subseteq Promise!Tellable /\ Promise!Due \subseteq records
    BY <2>1, DueMaps DEF Inv, MatchInv
  <2>5. ASSUME NEW v \in Asked
        PROVE  Ids(tally[v]) = {r \in records : v \in Covers[r][call.pkg]}
    <3>1. PICK i \in 1..Len(call.versions) : v = call.versions[i]
      BY DEF Asked
    <3>2. i < turn
      BY <2>1, <2>2
    <3>3. Ids(tally[v]) = Hits(i)
      BY <2>1, <3>1, <3>2 DEF Inv, MatchInv
    <3> QED BY <3>1, <3>3 DEF Hits
  <2>6. Said(answer) = Promise!Measured(records)
    <3>1. ASSUME NEW v \in Asked
          PROVE  [outcome |-> answer[v].outcome, ids |-> Ids(answer[v].findings)] =
                 [outcome |-> IF Ids(tally[v]) = {} THEN "clean" ELSE "findings",
                  ids     |-> Ids(tally[v])]
      <4>1. answer[v] = [outcome  |-> IF tally[v] = {} THEN "clean" ELSE "findings",
                         findings |-> tally[v]]
        BY DEF Measured
      <4>2. tally[v] = {} <=> Ids(tally[v]) = {}
        BY DEF Ids
      <4> QED BY <4>1, <4>2
    <3>2. Said(answer) = [v \in Asked |-> [outcome |-> answer[v].outcome,
                                           ids |-> Ids(answer[v].findings)]]
      BY DEF Said
    <3>3. CallInProgress = [pkg |-> call.pkg, versions |-> Asked, known |-> call.known]
      BY <2>1 DEF CallInProgress
    <3> HIDE DEF answer
    <3>4. Promise!Measured(records) =
            [v \in Asked |-> [outcome |-> IF Ids(tally[v]) = {} THEN "clean" ELSE "findings",
                              ids     |-> Ids(tally[v])]]
      BY <2>5, <3>3 DEF Promise!Measured
    <3> QED BY <3>1, <3>2, <3>4
  <2> HIDE DEF answer
  <2>7. Promise!Conclude(Promise!Measured(records))
    BY <2>1, <2>3, <2>6, ConcludeMaps
  <2> QED BY <2>4, <2>7 DEF Promise!Measure, Promise!Next
<1>7. CASE Post \/ NextBatch \/ StartReading \/ StartMatching \/ Report
  <2>1. /\ UNCHANGED <<feed, past, answers, call>>
        /\ pc # "idle" /\ pc' # "idle"
    BY <1>7 DEF Post, NextBatch, StartReading, BatchDone, StartMatching, Report, process
  <2> QED BY <2>1, StutterMaps
<1>8. CASE (\E r \in unread : Read(r)) \/ (\E r \in unmatched : Grade(r))
  BY <1>8, StutterMaps DEF Read, Grade
<1>9. CASE Restart
  <2>1. /\ past' = withdrawn /\ pc' = "idle" /\ UNCHANGED feed
        /\ answers' = [p \in Package |-> None]
    BY <1>9 DEF Restart, Forget
  <2>2. CallInProgress' = None /\ LastAnswers' = [p \in Package |-> None]
    BY <2>1 DEF CallInProgress, LastAnswers
  <2>3. Promise!Restart
    BY <2>1, <2>2 DEF Promise!Restart, feed
  <2> QED BY <2>3 DEF Promise!Next
<1>10. CASE UNCHANGED vars
  BY <1>10, StutterMaps DEF vars, process
<1> QED
  BY <1>1, <1>2, <1>3, <1>4, <1>5, <1>6, <1>7, <1>8, <1>9, <1>10 DEF Next, Adapter

\* Whatever the feed, its pages and failures, a call measures all it was asked
\* or says that it did not (ImplementsMeasurement, for every instance).
THEOREM FeedMeasures == Spec => ImplementsMeasurement
<1>1. Init => Promise!Init
  <2> SUFFICES ASSUME Init PROVE Promise!Init
    OBVIOUS
  <2>1. CallInProgress = None /\ LastAnswers = [p \in Package |-> None]
    BY DEF Init, CallInProgress, LastAnswers
  <2>2. published \in SUBSET Record /\ withdrawn = {} /\ past = withdrawn
    BY DEF Init
  <2> QED BY <2>1, <2>2 DEF Promise!Init
<1>2. TypeOK /\ Inv /\ [Next]_vars => [Promise!Next]_(Promise!vars)
  BY StepMaps
<1> QED BY <1>1, <1>2, TypeCorrect, Invariance, PTL DEF Spec, ImplementsMeasurement, Promise!Spec

-----------------------------------------------------------------------------
(* No call fails for its own size.                                         *)

\* A batch is no larger than its cap.
LEMMA ChunkIsCapped ==
  ASSUME NEW from \in Nat, NEW last \in Nat, NEW S, S \subseteq ChunkFrom(from, last)
  PROVE  Cardinality(S) <= FeedCap
<1> DEFINE I == from..(from + BatchCap - 1)
<1>1. S \subseteq I
  BY FeedAssumption DEF ChunkFrom
<1>2. IsFiniteSet(I) /\ Cardinality(I) <= BatchCap
  BY FS_Interval, FeedAssumption
<1> HIDE DEF I
<1>3. IsFiniteSet(S) /\ Cardinality(S) <= Cardinality(I)
  BY <1>1, <1>2, FS_Subset
<1>4. Cardinality(S) \in Nat /\ Cardinality(I) \in Nat
  BY <1>2, <1>3, FS_CardinalityType
<1> QED BY <1>2, <1>3, <1>4, FeedAssumption

\* The slots asked in one request are of one batch.
BatchInv == pc # "idle" => pending \subseteq ChunkFrom(chunk, Len(call.versions))

LEMMA BatchStep ==
  ASSUME TypeOK, BatchInv, [Next]_vars
  PROVE  BatchInv'
<1> USE DEF BatchInv
<1>1. CASE (\E r \in Later : Publish(r)) \/ (\E r \in Revocable : Withdraw(r)) \/ UNCHANGED vars
  BY <1>1 DEF Publish, Withdraw, vars, asking
<1>2. CASE \E a \in Asks : Call(a)
  BY <1>2 DEF Call
<1>3. CASE NoFeed \/ Unlisted \/ Fail \/ Finish \/ Restart
  BY <1>3 DEF NoFeed, Unlisted, Fail, Finish, Conclude, Restart, Forget
<1>4. CASE Post
  BY <1>4 DEF Post
<1>5. CASE NextBatch
  BY <1>5 DEF NextBatch
<1>6. CASE StartReading \/ StartMatching \/ Report
  BY <1>6 DEF StartReading, BatchDone, StartMatching, Report, asking
<1>7. CASE (\E r \in unread : Read(r)) \/ (\E r \in unmatched : Grade(r))
  BY <1>7 DEF Read, Grade, asking
<1> QED BY <1>1, <1>2, <1>3, <1>4, <1>5, <1>6, <1>7 DEF Next, Adapter

LEMMA SilenceStep ==
  ASSUME TypeOK, BatchInv, SilenceHasAnExcuse, [Next]_vars
  PROVE  SilenceHasAnExcuse'
<1> USE DEF SilenceHasAnExcuse
<1>1. CASE (\E r \in Later : Publish(r)) \/ (\E r \in Revocable : Withdraw(r)) \/ UNCHANGED vars
  BY <1>1 DEF Publish, Withdraw, vars, process
<1>2. CASE (\E a \in Asks : Call(a)) \/ Post \/ NextBatch \/ StartReading \/ StartMatching
           \/ Report \/ (\E r \in unread : Read(r)) \/ (\E r \in unmatched : Grade(r))
  <2>1. pc' # "idle"
    BY <1>2 DEF Call, Post, NextBatch, BatchDone, StartReading, StartMatching, Report, Read, Grade
  <2> QED BY <2>1
<1>3. CASE NoFeed \/ Unlisted \/ Finish
  <2>1. PICK answer \in [Asked -> Answer] :
          /\ Conclude(answer)
          /\ \A v \in Asked : answer[v].outcome # "unreachable"
    <3>1. CASE NoFeed \/ Unlisted
      BY <1>3, <3>1, SilenceType DEF NoFeed, Unlisted, Silence
    <3>2. CASE Finish
      <4>1. [v \in Asked |-> Measured(tally[v])] \in [Asked -> Answer]
        <5>1. \A v \in Asked : tally[v] \in SUBSET Finding
          BY <3>2 DEF Finish, Asked, TypeOK, QueryTypeOK, MatchTypeOK
        <5> QED BY <5>1 DEF Measured, Answer
      <4> QED BY <3>2, <4>1 DEF Finish, Measured
    <3> QED BY <1>3, <3>1, <3>2
  <2>2. call' = call /\ answers' = [answers EXCEPT ![call.pkg] = answer]
    BY <2>1 DEF Conclude
  <2>3. pc # "idle" /\ DOMAIN answers = Package /\ call.pkg \in Package
    BY <1>3 DEF NoFeed, Unlisted, BatchDone, Finish, TypeOK, ProcessTypeOK, QueryTypeOK
  <2> QED BY <2>1, <2>2, <2>3
<1>4. CASE Fail
  <2>1. pending \subseteq ChunkFrom(chunk, Len(call.versions))
    BY <1>4 DEF BatchInv, Fail, Waits
  <2>2. chunk \in Nat /\ Len(call.versions) \in Nat
    BY <1>4 DEF TypeOK, QueryTypeOK, Fail, Waits
  <2>3. Cardinality(pending) <= FeedCap
    BY <2>1, <2>2, ChunkIsCapped
  <2>4. excused'
    BY <1>4, <2>3, Zenon DEF Fail
  <2> QED BY <2>4
<1>5. CASE Restart
  BY <1>5 DEF Restart
<1> QED BY <1>1, <1>2, <1>3, <1>4, <1>5 DEF Next, Adapter

\* However many versions a package has, no call about it comes back
\* unreachable unless the feed failed it.
THEOREM NoCallIsTooLarge == Spec => []SilenceHasAnExcuse
<1>1. Init => BatchInv /\ SilenceHasAnExcuse
  BY DEF Init, BatchInv, SilenceHasAnExcuse
<1>2. TypeOK /\ BatchInv /\ SilenceHasAnExcuse /\ [Next]_vars
        => BatchInv' /\ SilenceHasAnExcuse'
  BY BatchStep, SilenceStep
<1> QED BY <1>1, <1>2, TypeCorrect, PTL DEF Spec

-----------------------------------------------------------------------------
(* Neither side of a disagreement is silenced.                             *)

\* What a query is about, whenever it is asked.
Queried(s) ==
  {r \in Record : /\ call.pkg \in About[r]
                  /\ s > 0 => r \in Filter[call.pkg][call.versions[s]]}

\* Nothing is named but what was asked for, and once the pages of a query
\* have ended everything due was.
NamedInv ==
  pc # "idle" =>
    \A s \in Slots :
      /\ merged[s] \subseteq Queried(s)
      /\ (pc # "query" \/ (s < chunk + BatchCap /\ s \notin pending))
           => Due \cap Queried(s) \subseteq merged[s]

\* For the versions done, what only one side named was reported.
WarnedInv ==
  /\ pc # "match" => warned = {}
  /\ pc = "match" =>
       /\ \A w \in warned : w[1] < turn
       /\ \A i \in 1..Len(call.versions), r \in Record :
            i < turn => (<<i, r>> \in warned <=> \/ r \in merged[i] \ Hits(i)
                                                 \/ r \in Hits(i) \ merged[i])

\* The pages of a query add what it asked for, and the last leaves nothing out.
LEMMA PageNames ==
  ASSUME TypeOK, Inv, pc # "idle", NEW s \in Slots, NEW page \in Pages(s)
  PROVE  /\ page.ids \subseteq Queried(s)
         /\ ~ page.more => Due \cap Queried(s) \subseteq merged[s] \cup page.ids
<1>1. Matches(s) \subseteq Queried(s)
  BY DEF Matches, Queried, TypeOK, FeedTypeOK
<1>2. Due \cap Queried(s) \subseteq (call.known \cap Matches(s)) \ withdrawn
  BY DEF Due, Queried, Matches, Inv, QueryInv
<1> QED BY <1>1, <1>2 DEF Pages

LEMMA NamedStep ==
  ASSUME TypeOK, Inv, NamedInv, [Next]_vars
  PROVE  NamedInv'
<1> USE DEF NamedInv
<1>0. UNCHANGED call => Slots' = Slots /\ \A s : Queried(s)' = Queried(s)
  BY DEF Slots, Queried
<1>1. CASE (\E r \in Later : Publish(r)) \/ (\E r \in Revocable : Withdraw(r)) \/ UNCHANGED vars
  <2>1. UNCHANGED <<pc, call, chunk, pending, merged>> /\ withdrawn \subseteq withdrawn'
    BY <1>1 DEF Publish, Withdraw, vars, asking, feed
  <2>2. Due' \subseteq Due
    BY <2>1 DEF Due
  <2> QED BY <1>0, <2>1, <2>2
<1>2. CASE \E a \in Asks : Call(a)
  <2>1. PICK a \in Asks : Call(a)
    BY <1>2
  <2>2. /\ pc' = "query" /\ chunk' = 0
        /\ pending' = ChunkFrom(0, Len(a.versions))
        /\ merged' = [s \in 0..Len(a.versions) |-> {}]
        /\ call'.versions = a.versions
    BY <2>1 DEF Call
  <2>3. Slots' = 0..Len(a.versions)
    BY <2>2 DEF Slots
  <2>4. ASSUME NEW s \in Slots', s < BatchCap
        PROVE  s \in pending'
    BY <2>2, <2>3, <2>4, FeedAssumption DEF ChunkFrom
  <2> QED BY <2>2, <2>3, <2>4, FeedAssumption
<1>3. CASE NoFeed \/ Unlisted \/ Fail \/ Finish \/ Restart
  BY <1>3 DEF NoFeed, Unlisted, Fail, Finish, Conclude, Restart, Forget
<1>4. CASE Post
  <2>1. PICK reply \in [pending -> UNION {Pages(s) : s \in pending}] :
          /\ \A s \in pending : reply[s] \in Pages(s)
          /\ merged' = Merge(reply)
          /\ pending' = {s \in pending : reply[s].more}
    BY <1>4 DEF Post
  <2>2. pc = "query" /\ UNCHANGED <<feed, pc, call, chunk>>
    BY <1>4 DEF Post
  <2>3. Due' = Due
    BY <2>2 DEF Due, feed
  <2>4. ASSUME NEW s \in Slots
        PROVE  /\ merged'[s] \subseteq Queried(s)
               /\ s < chunk + BatchCap /\ s \notin pending'
                    => Due \cap Queried(s) \subseteq merged'[s]
    <3>1. CASE s \in pending
      <4>1. merged'[s] = merged[s] \cup reply[s].ids
        BY <2>1, <3>1 DEF Merge
      <4>2. /\ reply[s].ids \subseteq Queried(s)
            /\ ~ reply[s].more => Due \cap Queried(s) \subseteq merged[s] \cup reply[s].ids
        BY <2>1, <2>2, <3>1, PageNames
      <4>3. merged[s] \subseteq Queried(s)
        BY <2>2
      <4>4. s \notin pending' => ~ reply[s].more
        BY <2>1, <3>1
      <4> QED BY <4>1, <4>2, <4>3, <4>4
    <3>2. CASE s \notin pending
      <4>1. merged'[s] = merged[s]
        BY <2>1, <3>2 DEF Merge
      <4> QED BY <2>2, <3>2, <4>1
    <3> QED BY <3>1, <3>2
  <2> QED BY <1>0, <2>2, <2>3, <2>4
<1>5. CASE NextBatch
  <2>1. /\ pc = "query" /\ pending = {}
        /\ chunk' = chunk + BatchCap
        /\ pending' = ChunkFrom(chunk', Len(call.versions))
        /\ UNCHANGED <<feed, pc, call, merged>>
    BY <1>5 DEF NextBatch, BatchDone
  <2>2. Due' = Due
    BY <2>1 DEF Due, feed
  <2>3. ASSUME NEW s \in Slots, s \notin pending', s < chunk' + BatchCap
        PROVE  s < chunk + BatchCap
    <3>1. s \in 0..Len(call.versions) /\ chunk \in Nat /\ BatchCap \in Nat /\ s \in Nat
      BY FeedAssumption DEF Slots, TypeOK, QueryTypeOK
    <3> QED BY <2>1, <2>3, <3>1 DEF ChunkFrom
  <2> QED BY <1>0, <2>1, <2>2, <2>3
<1>6. CASE StartReading
  <2>1. /\ pc = "query" /\ pending = {} /\ chunk + BatchCap > Len(call.versions)
        /\ UNCHANGED <<feed, call, merged>>
    BY <1>6 DEF StartReading, BatchDone, LastBatch, asking
  <2>2. Due' = Due
    BY <2>1 DEF Due, feed
  <2>3. ASSUME NEW s \in Slots
        PROVE  s < chunk + BatchCap
    <3>1. s \in 0..Len(call.versions) /\ Len(call.versions) \in Nat /\ chunk \in Nat /\ BatchCap \in Nat
      BY <2>1, FeedAssumption DEF Slots, TypeOK, QueryTypeOK
    <3> QED BY <2>1, <3>1
  <2> QED BY <1>0, <2>1, <2>2, <2>3
<1>7. CASE StartMatching \/ Report \/ (\E r \in unread : Read(r)) \/ (\E r \in unmatched : Grade(r))
  <2>1. /\ UNCHANGED <<feed, call, asking>>
        /\ pc \in {"read", "match"} /\ pc' \in {"read", "match"}
    BY <1>7 DEF StartMatching, Report, Read, Grade
  <2>2. Due' = Due
    BY <2>1 DEF Due, feed
  <2> QED BY <1>0, <2>1, <2>2 DEF asking
<1> QED BY <1>1, <1>2, <1>3, <1>4, <1>5, <1>6, <1>7 DEF Next, Adapter

LEMMA WarnedStep ==
  ASSUME TypeOK, Inv, WarnedInv, [Next]_vars
  PROVE  WarnedInv'
<1> USE DEF WarnedInv
<1>0. UNCHANGED <<call, records>> => \A i : Hits(i)' = Hits(i)
  BY DEF Hits
<1>1. CASE (\E r \in Later : Publish(r)) \/ (\E r \in Revocable : Withdraw(r)) \/ UNCHANGED vars
  <2>1. UNCHANGED <<pc, call, merged, records, turn, warned>>
    BY <1>1 DEF Publish, Withdraw, vars, asking, reading, matching
  <2> QED BY <1>0, <2>1
<1>2. CASE \E a \in Asks : Call(a)
  <2>1. pc = "idle" /\ pc' = "query" /\ warned' = warned
    BY <1>2 DEF Call, matching
  <2> QED BY <2>1
<1>3. CASE NoFeed \/ Unlisted \/ Fail \/ Finish \/ Restart
  BY <1>3 DEF NoFeed, Unlisted, Fail, Finish, Conclude, Restart, Forget
<1>4. CASE Post \/ NextBatch \/ StartReading \/ (\E r \in unread : Read(r))
  <2>1. pc # "match" /\ pc' # "match" /\ warned' = warned
    BY <1>4 DEF Post, NextBatch, BatchDone, StartReading, Read, matching
  <2> QED BY <2>1
<1>5. CASE StartMatching
  <2>1. pc # "match" /\ pc' = "match" /\ warned' = warned /\ turn' = 1 /\ call' = call
    BY <1>5 DEF StartMatching
  <2> QED BY <2>1
<1>6. CASE \E r \in unmatched : Grade(r)
  <2>1. UNCHANGED <<pc, call, merged, records, turn, warned>>
    BY <1>6 DEF Grade, asking, reading
  <2> QED BY <1>0, <2>1
<1>7. CASE Report
  <2> DEFINE ours == Ids(tally[call.versions[turn]])
             news == (merged[turn] \ ours) \cup (ours \ merged[turn])
  <2>1. /\ pc = "match" /\ pc' = "match" /\ unmatched = {}
        /\ turn <= Len(call.versions) /\ turn' = turn + 1
        /\ warned' = warned \cup ({turn} \X news)
        /\ UNCHANGED <<call, merged, records>>
    BY <1>7 DEF Report, Theirs, asking, reading
  <2>2. turn \in 1..Len(call.versions) /\ turn \in Nat
    BY <2>1 DEF TypeOK, QueryTypeOK, MatchTypeOK
  <2>3. ours = Hits(turn)
    BY <2>1, <2>2 DEF Inv, MatchInv
  <2> HIDE DEF ours
  <2>4. \A w \in warned' : w[1] < turn'
    <3>1. \A w \in warned : w[1] \in Nat
      BY DEF TypeOK, MatchTypeOK
    <3> QED BY <2>1, <2>2, <3>1
  <2>5. ASSUME NEW i \in 1..Len(call.versions), NEW r \in Record, i < turn'
        PROVE  <<i, r>> \in warned' <=> \/ r \in merged[i] \ Hits(i)
                                        \/ r \in Hits(i) \ merged[i]
    <3>1. CASE i < turn
      <4>1. <<i, r>> \notin {turn} \X news
        BY <2>2, <3>1
      <4> QED BY <2>1, <3>1, <4>1
    <3>2. CASE i = turn
      <4>1. <<i, r>> \notin warned
        BY <2>1, <2>2, <3>2
      <4>2. <<i, r>> \in {turn} \X news <=> r \in news
        BY <3>2
      <4> QED BY <2>1, <2>3, <3>2, <4>1, <4>2
    <3> QED BY <2>1, <2>2, <2>5, <3>1, <3>2
  <2> QED BY <1>0, <2>1, <2>4, <2>5
<1> QED BY <1>1, <1>2, <1>3, <1>4, <1>5, <1>6, <1>7 DEF Next, Adapter

\* What the two sides make of a record that stood throughout is what the feed
\* named and what its ranges cover.
LEMMA SidesAreKnown ==
  ASSUME TypeOK, Inv, NamedInv, WarnedInv
  PROVE  DisagreementsAreReported
<1> SUFFICES ASSUME pc = "match", turn > Len(call.versions),
                    NEW i \in 1..Len(call.versions), NEW r \in call.known \ withdrawn,
                    call.pkg \in About[r]
             PROVE  <<i, r>> \in warned <=>
                      (r \in Filter[call.pkg][call.versions[i]])
                        # (call.versions[i] \in Covers[r][call.pkg])
  BY DEF DisagreementsAreReported
<1>1. /\ call \in [pkg : Package, versions : Seq(Version), known : SUBSET Record]
      /\ turn \in Nat
  BY DEF TypeOK, QueryTypeOK, MatchTypeOK
<1>2. i \in Slots /\ i > 0 /\ i < turn /\ r \in Record /\ r \in Due
  BY <1>1 DEF Slots, Due
<1>3. r \in merged[i] <=> r \in Filter[call.pkg][call.versions[i]]
  BY <1>2 DEF NamedInv, Queried
<1>4. r \in Hits(i) <=> call.versions[i] \in Covers[r][call.pkg]
  BY <1>2 DEF Inv, MatchInv, Hits
<1>5. <<i, r>> \in warned <=> \/ r \in merged[i] \ Hits(i)
                              \/ r \in Hits(i) \ merged[i]
  BY <1>2 DEF WarnedInv
<1> DEFINE theirs == r \in Filter[call.pkg][call.versions[i]]
           ours   == call.versions[i] \in Covers[r][call.pkg]
<1>6. <<i, r>> \in warned <=> (theirs /\ ~ ours) \/ (ours /\ ~ theirs)
  BY <1>3, <1>4, <1>5
<1>7. (theirs # ours) <=> (theirs /\ ~ ours) \/ (ours /\ ~ theirs)
  <2>1. theirs \in BOOLEAN /\ ours \in BOOLEAN
    OBVIOUS
  <2> HIDE DEF theirs, ours
  <2> QED BY <2>1
<1> QED BY <1>6, <1>7, Zenon

\* Of the records that stood throughout a measured call, exactly those that
\* only one of the feed's filter and the published ranges puts on a version
\* are reported for it (DisagreementsAreReported, for every instance).
THEOREM BothSidesAreHeard == Spec => []DisagreementsAreReported
<1>1. Init => NamedInv /\ WarnedInv
  BY DEF Init, NamedInv, WarnedInv
<1>2. TypeOK /\ Inv /\ NamedInv /\ WarnedInv /\ [Next]_vars => NamedInv' /\ WarnedInv'
  BY NamedStep, WarnedStep
<1>3. TypeOK /\ Inv /\ NamedInv /\ WarnedInv => DisagreementsAreReported
  BY SidesAreKnown
<1> QED BY <1>1, <1>2, <1>3, TypeCorrect, Invariance, PTL DEF Spec

-----------------------------------------------------------------------------
(* Findings stand.                                                         *)

\* A severity can be told of a record whatever else fails: it has its own, or
\* an alias that tells one was read before.
Tells(r) ==
  \/ Graded[r] # None
  \/ \E i \in DOMAIN Hop(r) : cache[Hop(r)[i]] # None /\ Graded[Hop(r)[i]] # None

\* The records the feed held at the latest when the call in progress began.
Held == IF pc = "idle" THEN published ELSE call.known

\* A finding a process answered is a record of the package that covers the
\* version, held by the feed before any later call, and its severity stays
\* within reach of the process.
AnswersInv ==
  \A p \in Package : answers[p] # None =>
    \A v \in DOMAIN answers[p] : \A f \in answers[p][v].findings :
      /\ f.id \in Held
      /\ p \in About[f.id] /\ v \in Covers[f.id][p]
      /\ f.severity # None => Tells(f.id)

\* So is the severity of a finding of the answer in the making, and it is not
\* lost if an answer about the package told it.
TallyInv ==
  \A v \in Version : \A g \in tally[v] :
    /\ g.severity # None => Tells(g.id)
    /\ answers[call.pkg] # None =>
         \A w \in DOMAIN answers[call.pkg] : \A f \in answers[call.pkg][w].findings :
           f.id = g.id /\ f.severity # None => g.severity # None

LEMMA ToldResolves ==
  ASSUME NEW r \in Record, Tells(r), NEW reached
  PROVE  Resolved(r, reached) # None
<1>1. CASE Graded[r] # None
  BY <1>1 DEF Resolved
<1>2. CASE Graded[r] = None
  <2>1. Told(r, reached) # {}
    BY <1>2 DEF Tells, Told
  <2>2. Graded[Hop(r)[FirstTold(r, reached)]] # None
    BY <2>1, FirstToldTells DEF Told
  <2> QED BY <1>2, <2>1, <2>2 DEF Resolved
<1> QED BY <1>1, <1>2

\* The alias that told a severity is read from then on.
LEMMA ResolvedTells ==
  ASSUME TypeOK, NEW r \in Record, NEW reached \in SUBSET Record,
         cache' = [a \in Record |-> IF a \in Tried(r, reached) \cap reached
                                    THEN CopyOf(a) ELSE cache[a]],
         Resolved(r, reached) # None
  PROVE  Tells(r)'
<1>1. CASE Graded[r] # None
  BY <1>1 DEF Tells
<1>2. CASE Graded[r] = None
  <2> DEFINE i == FirstTold(r, reached)
  <2>1. Told(r, reached) # {}
    BY <1>2 DEF Resolved
  <2>2. i \in Told(r, reached)
    BY <2>1, FirstToldTells
  <2>3. /\ i \in DOMAIN Hop(r) /\ Graded[Hop(r)[i]] # None
        /\ cache[Hop(r)[i]] # None \/ Hop(r)[i] \in reached
    BY <2>2 DEF Told
  <2>4. Hop(r) \in Seq(Record)
    BY FeedAssumption DEF Hop
  <2>5. Hop(r)[i] \in Record /\ i \in Nat
    BY <2>3, <2>4
  <2>6. Hop(r)[i] \in Tried(r, reached)
    BY <2>3, <2>5 DEF Tried
  <2>7. \A a \in Record : CopyOf(a) # None
    BY NoneAssumption DEF CopyOf, ReadOf, Copy
  <2> HIDE DEF i
  <2>8. cache'[Hop(r)[i]] # None
    BY <2>3, <2>5, <2>6, <2>7
  <2> QED BY <2>3, <2>8 DEF Tells, Hop
<1> QED BY <1>1, <1>2

\* A process forgets nothing it read.
LEMMA CacheGrows ==
  ASSUME TypeOK, Next, ~ Restart, NEW r \in Record
  PROVE  /\ cache[r] # None => cache'[r] # None
         /\ Tells(r) => Tells(r)'
<1>1. ASSUME NEW a \in Record, cache[a] # None
      PROVE  cache'[a] # None
  <2>0. cache \in [Record -> Copy \cup {None}]
    BY DEF TypeOK, ProcessTypeOK
  <2>1. CASE \E s \in unread : Read(s)
    <3>1. PICK s : cache' = [cache EXCEPT ![s] = CopyOf(s)]
      BY <2>1 DEF Read
    <3> QED BY <1>1, <2>0, <3>1 DEF CopyOf
  <2>2. CASE \E s \in unmatched : Grade(s)
    <3>1. PICK s \in unmatched : Grade(s)
      BY <2>2
    <3>2. PICK reached : cache' = [x \in Record |-> IF x \in Tried(s, reached) \cap reached
                                                    THEN CopyOf(x) ELSE cache[x]]
      BY <3>1 DEF Grade
    <3>3. CopyOf(a) # None
      BY <1>1 DEF CopyOf
    <3> QED BY <1>1, <3>2, <3>3
  <2>3. CASE NoFeed \/ Unlisted \/ Fail \/ Finish
    BY <1>1, <2>3 DEF NoFeed, Unlisted, Fail, Finish, Conclude
  <2>4. CASE \/ \E s \in Later : Publish(s)
             \/ \E s \in Revocable : Withdraw(s)
             \/ \E c \in Asks : Call(c)
             \/ Post \/ NextBatch \/ StartReading \/ StartMatching \/ Report
    BY <1>1, <2>4 DEF Publish, Withdraw, Call, Post, NextBatch, StartReading, StartMatching,
       Report, process
  <2> QED BY <2>1, <2>2, <2>3, <2>4 DEF Next, Adapter
<1>2. ASSUME Tells(r) PROVE Tells(r)'
  <2>1. \A i \in DOMAIN Hop(r) : Hop(r)[i] \in Record
    BY FeedAssumption DEF Hop
  <2> QED BY <1>1, <1>2, <2>1 DEF Tells, Hop
<1> QED BY <1>1, <1>2

\* Where no answer changes none loses its ground.
LEMMA AnswersKept ==
  ASSUME TypeOK, AnswersInv, Next, ~ Restart, UNCHANGED answers, Held \subseteq Held'
  PROVE  AnswersInv'
<1>1. SUFFICES ASSUME NEW p \in Package, answers[p] # None, NEW v \in DOMAIN answers[p],
                      NEW f \in answers[p][v].findings
               PROVE  /\ f.id \in Held'
                      /\ p \in About[f.id] /\ v \in Covers[f.id][p]
                      /\ f.severity # None => Tells(f.id)'
  BY DEF AnswersInv, Tells, Hop
<1>2. f \in Finding
  BY <1>1 DEF TypeOK, ProcessTypeOK, Answer
<1>3. f.id \in Record
  BY <1>2 DEF Finding
<1>4. Tells(f.id) => Tells(f.id)'
  BY <1>3, CacheGrows
<1> QED BY <1>1, <1>4 DEF AnswersInv

LEMMA AnswersStep ==
  ASSUME TypeOK, Inv, AnswersInv, TallyInv, Next
  PROVE  AnswersInv'
<1>1. CASE (\E r \in Later : Publish(r)) \/ (\E r \in Revocable : Withdraw(r))
  <2>1. UNCHANGED <<answers, pc, call>> /\ published \subseteq published' /\ pc' = pc
    BY <1>1 DEF Publish, Withdraw, process
  <2>2. Held \subseteq Held'
    BY <2>1 DEF Held
  <2>3. CASE ~ Restart
    BY <2>1, <2>2, <2>3, AnswersKept
  <2>4. CASE Restart
    BY <2>4 DEF Restart, AnswersInv
  <2> QED BY <2>3, <2>4
<1>2. CASE \E a \in Asks : Call(a)
  <2>1. UNCHANGED <<answers, published>> /\ pc = "idle" /\ pc' # "idle" /\ call'.known = published
    BY <1>2 DEF Call, process, feed
  <2>2. Held \subseteq Held'
    BY <2>1 DEF Held
  <2>3. CASE ~ Restart
    BY <2>1, <2>2, <2>3, AnswersKept
  <2>4. CASE Restart
    BY <2>4 DEF Restart, AnswersInv
  <2> QED BY <2>3, <2>4
<1>3. CASE \/ Post \/ NextBatch \/ StartReading \/ StartMatching \/ Report
           \/ (\E r \in unread : Read(r)) \/ (\E r \in unmatched : Grade(r))
  <2>1. UNCHANGED <<answers, call>> /\ pc # "idle" /\ pc' # "idle"
    BY <1>3 DEF Post, NextBatch, BatchDone, StartReading, StartMatching, Report, Read, Grade, process
  <2>2. Held \subseteq Held'
    BY <2>1 DEF Held
  <2>3. CASE ~ Restart
    BY <2>1, <2>2, <2>3, AnswersKept
  <2>4. CASE Restart
    BY <2>4 DEF Restart, AnswersInv
  <2> QED BY <2>3, <2>4
<1>4. CASE NoFeed \/ Unlisted \/ Fail \/ Finish
  <2>1. PICK answer \in [Asked -> Answer] :
          /\ Conclude(answer)
          /\ \A v \in Asked : answer[v].findings = {} \/ (pc = "match" /\ turn > Len(call.versions)
                                                         /\ answer[v].findings = tally[v])
    <3>1. CASE NoFeed \/ Unlisted \/ Fail
      BY <3>1, SilenceType DEF NoFeed, Unlisted, Fail, Silence
    <3>2. CASE Finish
      <4>1. [v \in Asked |-> Measured(tally[v])] \in [Asked -> Answer]
        <5>1. \A v \in Asked : tally[v] \in SUBSET Finding
          BY <3>2 DEF Finish, Asked, TypeOK, QueryTypeOK, MatchTypeOK
        <5> QED BY <5>1 DEF Measured, Answer
      <4> QED BY <3>2, <4>1 DEF Finish, Measured
    <3> QED BY <1>4, <3>1, <3>2
  <2>2. /\ UNCHANGED <<feed, cache, call>> /\ pc' = "idle"
        /\ answers' = [answers EXCEPT ![call.pkg] = answer]
    BY <2>1 DEF Conclude, Forget
  <2>3. pc # "idle" /\ DOMAIN answers = Package /\ call.pkg \in Package
    BY <1>4 DEF NoFeed, Unlisted, BatchDone, Fail, Waits, Finish, TypeOK, ProcessTypeOK, QueryTypeOK
  <2>4. Held \subseteq Held'
    BY <2>2, <2>3 DEF Held, feed, Inv, QueryInv
  <2>5. ASSUME NEW p \in Package, answers'[p] # None, NEW v \in DOMAIN answers'[p],
               NEW f \in answers'[p][v].findings
        PROVE  /\ f.id \in Held'
               /\ p \in About[f.id] /\ v \in Covers[f.id][p]
               /\ f.severity # None => Tells(f.id)
    <3>1. CASE p # call.pkg
      <4>1. answers'[p] = answers[p]
        BY <2>2, <2>3, <3>1
      <4> QED BY <2>4, <2>5, <4>1 DEF AnswersInv
    <3>2. CASE p = call.pkg
      <4>1. answers'[p] = answer
        BY <2>2, <2>3, <3>2
      <4>2. v \in Asked /\ pc = "match" /\ turn > Len(call.versions) /\ f \in tally[v]
        BY <2>1, <2>5, <4>1
      <4>3. PICK i \in 1..Len(call.versions) : v = call.versions[i]
        BY <4>2 DEF Asked
      <4>4. i < turn /\ v \in Version
        BY <2>3, <4>2, <4>3 DEF TypeOK, QueryTypeOK, MatchTypeOK
      <4>5. f.id \in Hits(i)
        BY <4>2, <4>3, <4>4 DEF Inv, MatchInv, Ids
      <4>6. f.id \in records /\ v \in Covers[f.id][call.pkg]
        BY <4>3, <4>5 DEF Hits
      <4>7. f.id \in Listed
        BY <4>2, <4>6 DEF Inv, MatchInv
      <4>8. f.severity # None => Tells(f.id)
        BY <4>2, <4>4 DEF TallyInv
      <4> QED BY <2>2, <3>2, <4>6, <4>7, <4>8 DEF Held, Listed, feed
    <3> QED BY <3>1, <3>2
  <2>6. \A r : Tells(r)' <=> Tells(r)
    BY <2>2 DEF Tells, Hop
  <2> QED BY <2>5, <2>6 DEF AnswersInv
<1>5. CASE Restart
  BY <1>5 DEF Restart, AnswersInv
<1> QED BY <1>1, <1>2, <1>3, <1>4, <1>5 DEF Next, Adapter

\* A severity told once is told again, whichever aliases load this time.
LEMMA TallyStep ==
  ASSUME TypeOK, AnswersInv, Inv, TallyInv, Next
  PROVE  TallyInv'
<1>1. CASE NoFeed \/ Unlisted \/ Fail \/ Finish \/ Restart
  BY <1>1 DEF NoFeed, Unlisted, Fail, Finish, Conclude, Restart, Forget, TallyInv
<1>2. CASE \E a \in Asks : Call(a)
  <2>1. pc # "match" /\ tally' = tally
    BY <1>2 DEF Call, matching
  <2>2. \A v \in Version : tally[v] = {}
    BY <2>1 DEF Inv, MatchInv
  <2> QED BY <2>1, <2>2 DEF TallyInv
<1>3. CASE /\ ~ Restart
           /\ \/ \E r \in Later : Publish(r)
              \/ \E r \in Revocable : Withdraw(r)
              \/ Post \/ NextBatch \/ StartReading \/ StartMatching \/ Report
              \/ \E r \in unread : Read(r)
  <2>1. UNCHANGED <<answers, call, tally>>
    BY <1>3 DEF Publish, Withdraw, Post, NextBatch, StartReading, StartMatching, Report, Read,
       process, matching
  <2>2. ASSUME NEW v \in Version, NEW g \in tally[v]
        PROVE  Tells(g.id) => Tells(g.id)'
    <3>1. g.id \in Record
      BY DEF TypeOK, MatchTypeOK, Finding
    <3> QED BY <1>3, <3>1, CacheGrows
  <2> QED BY <2>1, <2>2 DEF TallyInv
<1>4. CASE ~ Restart /\ \E r \in unmatched : Grade(r)
  <2>1. PICK r \in unmatched : Grade(r)
    BY <1>4
  <2>2. PICK reached \in SUBSET {a \in published : \E i \in DOMAIN Hop(r) : Hop(r)[i] = a} :
          /\ tally' = [tally EXCEPT ![call.versions[turn]] =
                         @ \cup {[id |-> r, severity |-> Resolved(r, reached)]}]
          /\ cache' = [a \in Record |-> IF a \in Tried(r, reached) \cap reached
                                        THEN CopyOf(a) ELSE cache[a]]
    BY <2>1 DEF Grade
  <2>3. /\ UNCHANGED <<answers, call>> /\ r \in Record
        /\ reached \in SUBSET Record
        /\ tally \in [Version -> SUBSET Finding]
    BY <2>1, <2>2 DEF Grade, Hits, TypeOK, FeedTypeOK, MatchTypeOK
  <2>4. PICK told : told = Resolved(r, reached)
    OBVIOUS
  <2>5. told # None => Tells(r)'
    BY <2>2, <2>3, <2>4, ResolvedTells
  <2>6. ASSUME answers[call.pkg] # None,
               NEW w \in DOMAIN answers[call.pkg], NEW f \in answers[call.pkg][w].findings,
               f.id = r, f.severity # None
        PROVE  told # None
    <3>1. call.pkg \in Package
      BY <2>1 DEF Grade, TypeOK, QueryTypeOK
    <3>2. Tells(r)
      BY <2>6, <3>1 DEF AnswersInv
    <3> QED BY <2>3, <2>4, <3>2, ToldResolves
  <2>7. ASSUME NEW v \in Version, NEW g \in tally[v]
        PROVE  Tells(g.id) => Tells(g.id)'
    <3>1. g.id \in Record
      BY <2>3 DEF Finding
    <3> QED BY <1>4, <3>1, CacheGrows
  <2>8. ASSUME NEW v \in Version, NEW g \in tally'[v]
        PROVE  /\ g.severity # None => Tells(g.id)'
               /\ answers[call.pkg] # None =>
                    \A w \in DOMAIN answers[call.pkg] : \A f \in answers[call.pkg][w].findings :
                      f.id = g.id /\ f.severity # None => g.severity # None
    <3>1. g \in tally[v] \/ g = [id |-> r, severity |-> told]
      BY <2>2, <2>3, <2>4
    <3>2. CASE g = [id |-> r, severity |-> told]
      <4>1. g.id = r /\ g.severity = told
        BY <3>2
      <4> QED BY <2>5, <2>6, <4>1
    <3>3. CASE g \in tally[v]
      BY <2>7, <3>3 DEF TallyInv
    <3> QED BY <3>1, <3>2, <3>3
  <2> QED BY <2>3, <2>8 DEF TallyInv
<1> QED BY <1>1, <1>2, <1>3, <1>4 DEF Next, Adapter

\* A measured answer about a package takes over what an earlier one found.
LEMMA FinishStands ==
  ASSUME TypeOK, Inv, AnswersInv, TallyInv, Finish,
         NEW p \in Package, answers[p] # None, p = call.pkg,
         NEW v \in DOMAIN answers[p] \cap DOMAIN answers'[p],
         NEW f \in answers[p][v].findings, f.id \notin withdrawn
  PROVE  \E g \in answers'[p][v].findings :
           g.id = f.id /\ (f.severity # None => g.severity # None)
<1>1. /\ pc = "match" /\ turn > Len(call.versions)
      /\ answers' = [answers EXCEPT ![call.pkg] = [u \in Asked |-> Measured(tally[u])]]
  BY DEF Finish, Conclude
<1>2. answers'[p] = [u \in Asked |-> Measured(tally[u])]
  BY <1>1 DEF TypeOK, ProcessTypeOK
<1>3. v \in Asked /\ answers'[p][v].findings = tally[v]
  BY <1>2 DEF Measured
<1>4. PICK i \in 1..Len(call.versions) : v = call.versions[i]
  BY <1>3 DEF Asked
<1>5. i < turn /\ v \in Version
  BY <1>1, <1>4 DEF TypeOK, QueryTypeOK, MatchTypeOK
<1>6. f.id \in call.known /\ p \in About[f.id] /\ v \in Covers[f.id][p]
  BY <1>1 DEF AnswersInv, Held
<1>7. f.id \in records
  BY <1>1, <1>6 DEF Inv, MatchInv, Due
<1>8. f.id \in Ids(tally[v])
  BY <1>1, <1>4, <1>5, <1>6, <1>7 DEF Inv, MatchInv, Hits
<1>9. PICK g \in tally[v] : g.id = f.id
  BY <1>8 DEF Ids
<1>10. f.severity # None => g.severity # None
  BY <1>5, <1>9 DEF TallyInv
<1> QED BY <1>3, <1>9, <1>10

\* Within one process a finding stands until it is withdrawn, and so does its
\* severity, whichever records and aliases fail to load (FindingsStand).
THEOREM FindingsAreKept == Spec => FindingsStand
<1>1. Init => AnswersInv /\ TallyInv
  BY DEF Init, AnswersInv, TallyInv
<1>2. TypeOK /\ Inv /\ AnswersInv /\ TallyInv /\ [Next]_vars => AnswersInv' /\ TallyInv'
  <2>1. CASE UNCHANGED vars
    BY <2>1 DEF vars, feed, process, matching, AnswersInv, TallyInv, Held, Tells, Hop
  <2> QED BY <2>1, AnswersStep, TallyStep
<1>3. TypeOK /\ Inv /\ AnswersInv /\ TallyInv /\ [Next]_vars =>
        [\A p \in Package :
           (WasMeasured(answers[p]) /\ WasMeasured(answers'[p])) =>
             \A v \in DOMAIN answers[p] \cap DOMAIN answers'[p] :
               \A f \in answers[p][v].findings :
                 \/ f.id \in withdrawn
                 \/ \E g \in answers'[p][v].findings :
                      g.id = f.id /\ (f.severity # None => g.severity # None)]_vars
  <2> SUFFICES ASSUME TypeOK, Inv, AnswersInv, TallyInv, Next,
                      NEW p \in Package,
                      WasMeasured(answers[p]), WasMeasured(answers'[p]),
                      NEW v \in DOMAIN answers[p] \cap DOMAIN answers'[p],
                      NEW f \in answers[p][v].findings,
                      f.id \notin withdrawn
               PROVE  \E g \in answers'[p][v].findings :
                        g.id = f.id /\ (f.severity # None => g.severity # None)
    OBVIOUS
  <2>1. CASE answers'[p] = answers[p]
    BY <2>1
  <2>2. CASE Finish /\ answers'[p] # answers[p]
    <3>1. answers' = [answers EXCEPT ![call.pkg] = [u \in Asked |-> Measured(tally[u])]]
      BY <2>2 DEF Finish, Conclude
    <3>2. p = call.pkg
      BY <2>2, <3>1 DEF TypeOK, ProcessTypeOK
    <3>3. answers[p] # None
      BY DEF WasMeasured
    <3> QED BY <2>2, <3>2, <3>3, FinishStands
  <2>3. CASE (NoFeed \/ Unlisted \/ Fail) /\ answers'[p] # answers[p]
    <3>1. PICK outcome \in {"not-found", "unreachable"} :
            answers' = [answers EXCEPT ![call.pkg] = Silence(outcome)]
      BY <2>3 DEF NoFeed, Unlisted, Fail, Conclude
    <3>2. answers'[p] = Silence(outcome)
      BY <2>3, <3>1 DEF TypeOK, ProcessTypeOK
    <3>3. answers'[p][v].outcome \in {"findings", "clean"}
      BY DEF WasMeasured
    <3>4. v \in Asked
      BY <3>2 DEF Silence
    <3> QED BY <3>2, <3>3, <3>4 DEF Silence
  <2>4. CASE Restart
    BY <2>4 DEF Restart, WasMeasured
  <2>5. CASE \/ \E r \in Later : Publish(r)
             \/ \E r \in Revocable : Withdraw(r)
             \/ \E a \in Asks : Call(a)
             \/ Post \/ NextBatch \/ StartReading \/ StartMatching \/ Report
             \/ \E r \in unread : Read(r)
             \/ \E r \in unmatched : Grade(r)
    <3>1. answers' = answers
      BY <2>5 DEF Publish, Withdraw, Call, Post, NextBatch, StartReading, StartMatching, Report,
         Read, Grade, process
    <3> QED BY <2>1, <3>1
  <2> QED BY <2>1, <2>2, <2>3, <2>4, <2>5 DEF Next, Adapter
<1> QED BY <1>1, <1>2, <1>3, TypeCorrect, Invariance, PTL DEF Spec, FindingsStand

-----------------------------------------------------------------------------
(* A call takes finitely many steps.                                       *)

\* What a call has ahead of it: its phase, and within the phase what is left
\* to ask, to read or to match.
Phase ==
  CASE pc = "query" -> 3
    [] pc = "read"  -> 2
    [] pc = "match" -> 1
    [] OTHER        -> 0

Left ==
  CASE pc = "query" -> Len(call.versions) - chunk
    [] pc = "read"  -> Cardinality(unread)
    [] pc = "match" -> Len(call.versions) + 1 - turn
    [] OTHER        -> 0

LeftOfThat ==
  CASE pc = "query" -> MaxPages - round
    [] pc = "match" -> Cardinality(unmatched)
    [] OTHER        -> 0

Ahead == <<Phase, Left, LeftOfThat>>

\* Each is a natural number, so that a call cannot come closer for ever.
AheadInv == Ahead \in Nat \X Nat \X Nat

Closer ==
  \/ Phase' < Phase
  \/ Phase' = Phase /\ Left' < Left
  \/ Phase' = Phase /\ Left' = Left /\ LeftOfThat' < LeftOfThat

\* The batches do not run past the queries, nor the turns past the versions.
ReachInv ==
  /\ pc = "query" => chunk <= Len(call.versions)
  /\ pc = "match" => turn <= Len(call.versions) + 1

LEMMA ReachStep ==
  ASSUME TypeOK, ReachInv, [Next]_vars
  PROVE  ReachInv'
<1> USE DEF ReachInv
<1>1. CASE (\E r \in Later : Publish(r)) \/ (\E r \in Revocable : Withdraw(r)) \/ UNCHANGED vars
  BY <1>1 DEF Publish, Withdraw, vars, asking, matching
<1>2. CASE \E a \in Asks : Call(a)
  <2>1. PICK a \in Asks : Call(a)
    BY <1>2
  <2>2. pc' = "query" /\ chunk' = 0 /\ call'.versions = a.versions /\ a.versions \in Seq(Version)
    BY <2>1, FeedAssumption DEF Call
  <2> QED BY <2>2
<1>3. CASE NoFeed \/ Unlisted \/ Fail \/ Finish \/ Restart
  BY <1>3 DEF NoFeed, Unlisted, Fail, Finish, Conclude, Restart, Forget
<1>4. CASE Post \/ (\E r \in unread : Read(r)) \/ (\E r \in unmatched : Grade(r)) \/ StartReading
  BY <1>4 DEF Post, Read, Grade, StartReading, asking, matching
<1>5. CASE NextBatch
  <2>1. /\ pc = "query" /\ pc' = "query" /\ call' = call
        /\ chunk' = chunk + BatchCap /\ ~ (chunk + BatchCap > Len(call.versions))
    BY <1>5 DEF NextBatch, BatchDone, LastBatch
  <2>2. chunk \in Nat /\ BatchCap \in Nat /\ Len(call.versions) \in Nat
    BY <2>1, FeedAssumption DEF TypeOK, QueryTypeOK
  <2> QED BY <2>1, <2>2
<1>6. CASE StartMatching \/ Report
  <2>1. pc' = "match" /\ call' = call /\ (turn' = 1 \/ (turn' = turn + 1 /\ turn <= Len(call.versions)))
    BY <1>6 DEF StartMatching, Report
  <2>2. turn \in Nat /\ Len(call.versions) \in Nat
    BY <1>6 DEF TypeOK, QueryTypeOK, MatchTypeOK, StartMatching, Report
  <2> QED BY <2>1, <2>2
<1> QED BY <1>1, <1>2, <1>3, <1>4, <1>5, <1>6 DEF Next, Adapter

LEMMA AheadIsNatural ==
  ASSUME TypeOK, ReachInv, IsFiniteSet(Record)
  PROVE  AheadInv
<1>1. CASE pc = "idle"
  BY <1>1 DEF AheadInv, Ahead, Phase, Left, LeftOfThat
<1>2. CASE pc = "query"
  <2>1. Len(call.versions) \in Nat /\ chunk \in Nat /\ round \in 0..MaxPages /\ MaxPages \in Nat
    BY <1>2, FeedAssumption DEF TypeOK, QueryTypeOK
  <2>2. Phase = 3 /\ Left = Len(call.versions) - chunk /\ LeftOfThat = MaxPages - round
    BY <1>2 DEF Phase, Left, LeftOfThat
  <2>3. Len(call.versions) - chunk \in Nat
    BY <1>2, <2>1 DEF ReachInv
  <2>4. MaxPages - round \in Nat
    BY <2>1
  <2> QED BY <2>2, <2>3, <2>4 DEF AheadInv, Ahead
<1>3. CASE pc = "read"
  <2>1. IsFiniteSet(unread)
    BY FS_Subset DEF TypeOK, MatchTypeOK
  <2>2. Cardinality(unread) \in Nat
    BY <2>1, FS_CardinalityType
  <2>3. Phase = 2 /\ Left = Cardinality(unread) /\ LeftOfThat = 0
    BY <1>3 DEF Phase, Left, LeftOfThat
  <2> QED BY <2>2, <2>3 DEF AheadInv, Ahead
<1>4. CASE pc = "match"
  <2>1. Len(call.versions) \in Nat /\ turn \in Nat /\ unmatched \subseteq Record
    BY <1>4 DEF TypeOK, QueryTypeOK, MatchTypeOK, Hits
  <2>2. IsFiniteSet(unmatched)
    BY <2>1, FS_Subset
  <2>3. Cardinality(unmatched) \in Nat
    BY <2>2, FS_CardinalityType
  <2>4. Phase = 1 /\ Left = Len(call.versions) + 1 - turn /\ LeftOfThat = Cardinality(unmatched)
    BY <1>4 DEF Phase, Left, LeftOfThat
  <2>5. Len(call.versions) + 1 - turn \in Nat
    BY <1>4, <2>1 DEF ReachInv
  <2> QED BY <2>3, <2>4, <2>5 DEF AheadInv, Ahead
<1> QED BY <1>1, <1>2, <1>3, <1>4 DEF TypeOK, QueryTypeOK

LEMMA AdapterComesCloser ==
  ASSUME TypeOK, ReachInv, IsFiniteSet(Record), Adapter
  PROVE  Closer
<1>1. CASE NoFeed \/ Unlisted \/ Fail \/ Finish
  <2>1. pc \in {"query", "read", "match"} /\ pc' = "idle"
    BY <1>1 DEF NoFeed, Unlisted, BatchDone, Fail, Waits, Finish, Conclude, Forget
  <2> QED BY <2>1 DEF Closer, Phase
<1>2. CASE StartReading \/ StartMatching
  <2>1. (pc = "query" /\ pc' = "read") \/ (pc = "read" /\ pc' = "match")
    BY <1>2 DEF StartReading, BatchDone, StartMatching
  <2> QED BY <2>1 DEF Closer, Phase
<1>3. CASE Post
  <2>1. pc = "query" /\ pc' = "query" /\ UNCHANGED <<call, chunk>> /\ round' = round + 1
    BY <1>3 DEF Post
  <2>2. round \in Nat /\ MaxPages \in Nat
    BY FeedAssumption DEF TypeOK, QueryTypeOK
  <2>3. Phase' = Phase /\ Left' = Left
    BY <2>1 DEF Phase, Left
  <2>4. LeftOfThat = MaxPages - round /\ LeftOfThat' = MaxPages - (round + 1)
    BY <2>1 DEF LeftOfThat
  <2> QED BY <2>2, <2>3, <2>4 DEF Closer
<1>4. CASE NextBatch
  <2>1. pc = "query" /\ pc' = "query" /\ call' = call /\ chunk' = chunk + BatchCap
    BY <1>4 DEF NextBatch, BatchDone
  <2>2. chunk \in Nat /\ BatchCap \in Nat \ {0} /\ Len(call.versions) \in Nat
    BY <2>1, FeedAssumption DEF TypeOK, QueryTypeOK
  <2>3. Phase' = Phase /\ Left = Len(call.versions) - chunk
    BY <2>1 DEF Phase, Left
  <2>4. Left' = Len(call.versions) - (chunk + BatchCap)
    BY <2>1 DEF Left
  <2> QED BY <2>2, <2>3, <2>4 DEF Closer
<1>5. CASE \E r \in unread : Read(r)
  <2>1. PICK r \in unread : pc = "read" /\ pc' = "read" /\ unread' = unread \ {r}
    BY <1>5 DEF Read
  <2>2. IsFiniteSet(unread)
    BY FS_Subset DEF TypeOK, MatchTypeOK
  <2>3. Cardinality(unread') = Cardinality(unread) - 1 /\ Cardinality(unread) \in Nat
    BY <2>1, <2>2, FS_RemoveElement, FS_CardinalityType
  <2>4. Phase' = Phase /\ Left = Cardinality(unread) /\ Left' = Cardinality(unread')
    BY <2>1 DEF Phase, Left
  <2> QED BY <2>3, <2>4 DEF Closer
<1>6. CASE \E r \in unmatched : Grade(r)
  <2>1. PICK r \in unmatched : /\ pc = "match" /\ pc' = "match" /\ unmatched' = unmatched \ {r}
                               /\ UNCHANGED <<call, turn>>
    BY <1>6 DEF Grade
  <2>2. unmatched \subseteq Record
    BY DEF TypeOK, MatchTypeOK, Hits
  <2>3. IsFiniteSet(unmatched)
    BY <2>2, FS_Subset
  <2>4. Cardinality(unmatched') = Cardinality(unmatched) - 1 /\ Cardinality(unmatched) \in Nat
    BY <2>1, <2>3, FS_RemoveElement, FS_CardinalityType
  <2>5. Phase' = Phase /\ Left' = Left
    BY <2>1 DEF Phase, Left
  <2>6. LeftOfThat = Cardinality(unmatched) /\ LeftOfThat' = Cardinality(unmatched')
    BY <2>1 DEF LeftOfThat
  <2> QED BY <2>4, <2>5, <2>6 DEF Closer
<1>7. CASE Report
  <2>1. pc = "match" /\ pc' = "match" /\ call' = call /\ turn' = turn + 1
    BY <1>7 DEF Report
  <2>2. turn \in Nat /\ Len(call.versions) \in Nat
    BY <2>1 DEF TypeOK, QueryTypeOK, MatchTypeOK
  <2>3. Phase' = Phase /\ Left = Len(call.versions) + 1 - turn
    BY <2>1 DEF Phase, Left
  <2>4. Left' = Len(call.versions) + 1 - (turn + 1)
    BY <2>1 DEF Left
  <2>5. \A n, t \in Nat : n + 1 - (t + 1) < n + 1 - t
    OBVIOUS
  <2>6. Left' < Left
    BY <2>2, <2>3, <2>4, <2>5
  <2> QED BY <2>3, <2>6 DEF Closer
<1> QED BY <1>1, <1>2, <1>3, <1>4, <1>5, <1>6, <1>7 DEF Adapter

\* However the feed pages, fails or changes meanwhile, every step of a call
\* brings it closer to its end, by a measure that cannot fall for ever, and
\* nothing else moves it away: what CallsEnd adds is only that steps are taken.
THEOREM CallsComeCloser ==
  ASSUME IsFiniteSet(Record)
  PROVE  Spec => /\ []AheadInv
                 /\ [][/\ Adapter => Closer
                       /\ ~ Adapter /\ pc # "idle" => pc' = "idle" \/ Ahead' = Ahead]_vars
<1>1. Init => ReachInv
  BY DEF Init, ReachInv
<1>2. TypeOK /\ ReachInv /\ [Next]_vars => ReachInv'
  BY ReachStep
<1>3. TypeOK /\ ReachInv => AheadInv
  BY AheadIsNatural
<1>4. TypeOK /\ ReachInv /\ [Next]_vars =>
        [/\ Adapter => Closer
         /\ ~ Adapter /\ pc # "idle" => pc' = "idle" \/ Ahead' = Ahead]_vars
  <2>1. TypeOK /\ ReachInv /\ Adapter => Closer
    BY AdapterComesCloser
  <2>2. ASSUME Next, ~ Adapter, pc # "idle"
        PROVE  pc' = "idle" \/ Ahead' = Ahead
    <3>1. CASE (\E r \in Later : Publish(r)) \/ (\E r \in Revocable : Withdraw(r))
      <4>1. UNCHANGED <<pc, call, asking, reading, matching>>
        BY <3>1 DEF Publish, Withdraw
      <4> QED BY <4>1 DEF asking, reading, matching, Ahead, Phase, Left, LeftOfThat
    <3>2. CASE Restart
      BY <3>2 DEF Restart, Forget
    <3>3. CASE \E a \in Asks : Call(a)
      BY <2>2, <3>3 DEF Call
    <3> QED BY <2>2, <3>1, <3>2, <3>3 DEF Next
  <2> QED BY <2>1, <2>2
<1> QED BY <1>1, <1>2, <1>3, <1>4, TypeCorrect, PTL DEF Spec

=============================================================================
