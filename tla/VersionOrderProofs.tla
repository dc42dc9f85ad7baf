-------------------------- MODULE VersionOrderProofs --------------------------
(***************************************************************************)
(* The version order, proved for every parsed version.  CompareVersions is *)
(* three nested lexicographic comparisons: of the numeric parts padded by  *)
(* zeros, of the class of the tail, and of the tail's identifiers padded   *)
(* by something lower than any.  One theory of lexicographic orders, over  *)
(* functions on the positions, serves the first and the last.              *)
(***************************************************************************)
EXTENDS MCVersionOrder, TLAPS, WellFoundedInduction, FiniteSetTheorems

Pos == Nat \ {0}

\* Lower where f and g first differ; R is a set of pairs.
Lex(f, g, R) ==
  \E k \in Pos : /\ <<f[k], g[k]>> \in R
                 /\ \A j \in Pos : j < k => f[j] = g[j]

IsStrictOrderOn(R, T) ==
  /\ \A x \in T : <<x, x>> \notin R
  /\ \A x, y, z \in T : <<x, y>> \in R /\ <<y, z>> \in R => <<x, z>> \in R
  /\ \A x, y \in T : <<x, y>> \in R \/ x = y \/ <<y, x>> \in R

-----------------------------------------------------------------------------
(* Lexicographic orders.                                                   *)

\* A set of positions has a first.
LEMMA FirstOf ==
  ASSUME NEW T, T \subseteq Nat, T # {}
  PROVE  \E i \in T : \A j \in T : i <= j
<1>1. PICK i \in T : \A j \in T : ~ (<<j, i>> \in OpToRel(<, Nat))
  BY NatLessThanWellFounded, WFMin, Zenon
<1>2. ASSUME NEW j \in T
      PROVE  ~ (j < i)
  BY <1>1 DEF OpToRel
<1>3. \A j \in T : i <= j
  BY <1>2
<1> QED BY <1>3

\* Two different functions differ first somewhere.
LEMMA DifferFirst ==
  ASSUME NEW T, NEW f \in [Pos -> T], NEW g \in [Pos -> T], f # g
  PROVE  \E k \in Pos : f[k] # g[k] /\ \A j \in Pos : j < k => f[j] = g[j]
<1> DEFINE D == {i \in Pos : f[i] # g[i]}
<1>1. D \subseteq Nat /\ D # {}
  BY DEF Pos
<1>2. PICK k \in D : \A j \in D : k <= j
  <2> HIDE DEF D
  <2> QED BY <1>1, FirstOf
<1>3. \A j \in Pos : j < k => j \notin D
  BY <1>2 DEF Pos
<1> QED BY <1>2, <1>3

LEMMA LexIrreflexive ==
  ASSUME NEW T, NEW R, IsStrictOrderOn(R, T), NEW f \in [Pos -> T]
  PROVE  ~ Lex(f, f, R)
  BY DEF IsStrictOrderOn, Lex

LEMMA LexTransitive ==
  ASSUME NEW T, NEW R, IsStrictOrderOn(R, T),
         NEW f \in [Pos -> T], NEW g \in [Pos -> T], NEW h \in [Pos -> T],
         Lex(f, g, R), Lex(g, h, R)
  PROVE  Lex(f, h, R)
<1>1. PICK k \in Pos : <<f[k], g[k]>> \in R /\ \A j \in Pos : j < k => f[j] = g[j]
  BY DEF Lex
<1>2. PICK m \in Pos : <<g[m], h[m]>> \in R /\ \A j \in Pos : j < m => g[j] = h[j]
  BY DEF Lex
<1> SUFFICES \E n \in Pos : <<f[n], h[n]>> \in R /\ \A j \in Pos : j < n => f[j] = h[j]
  BY DEF Lex
<1>3. k < m \/ k = m \/ m < k
  BY DEF Pos
<1>4. CASE k < m
  <2>1. <<f[k], h[k]>> \in R
    BY <1>1, <1>2, <1>4
  <2>2. \A j \in Pos : j < k => j < m
    BY <1>4 DEF Pos
  <2> QED BY <1>1, <1>2, <2>1, <2>2
<1>5. CASE k = m
  <2>1. <<f[k], h[k]>> \in R
    BY <1>1, <1>2, <1>5 DEF IsStrictOrderOn
  <2> QED BY <1>1, <1>2, <1>5, <2>1
<1>6. CASE m < k
  <2>1. <<f[m], h[m]>> \in R
    BY <1>1, <1>2, <1>6
  <2>2. \A j \in Pos : j < m => j < k
    BY <1>6 DEF Pos
  <2> QED BY <1>1, <1>2, <2>1, <2>2
<1> QED BY <1>3, <1>4, <1>5, <1>6

LEMMA LexTotal ==
  ASSUME NEW T, NEW R, IsStrictOrderOn(R, T), NEW f \in [Pos -> T], NEW g \in [Pos -> T]
  PROVE  Lex(f, g, R) \/ f = g \/ Lex(g, f, R)
<1> SUFFICES ASSUME f # g
             PROVE  Lex(f, g, R) \/ Lex(g, f, R)
  OBVIOUS
<1>1. PICK k \in Pos : f[k] # g[k] /\ \A j \in Pos : j < k => f[j] = g[j]
  BY DifferFirst
<1>2. <<f[k], g[k]>> \in R \/ <<g[k], f[k]>> \in R
  BY <1>1 DEF IsStrictOrderOn
<1> QED BY <1>1, <1>2 DEF Lex

-----------------------------------------------------------------------------
(* FirstDifference.                                                        *)

Entries(s, pad) == [i \in Pos |-> Padded(s, i, pad)]

LEMMA EntriesType ==
  ASSUME NEW T, NEW pad \in T, NEW s \in Seq(T)
  PROVE  Entries(s, pad) \in [Pos -> T]
  BY DEF Entries, Padded, Pos

\* FirstDifference answers nothing for sequences that are equal once padded,
\* and the pair of entries at the first difference otherwise.
LEMMA FirstDifferenceTells ==
  ASSUME NEW T, NEW pad \in T, NEW s \in Seq(T), NEW t \in Seq(T)
  PROVE  LET f == Entries(s, pad)
             g == Entries(t, pad)
         IN  \/ f = g /\ FirstDifference(s, t, pad) = <<>>
             \/ /\ f # g /\ FirstDifference(s, t, pad) # <<>>
                /\ \E k \in Pos : /\ f[k] # g[k]
                                  /\ \A j \in Pos : j < k => f[j] = g[j]
                                  /\ FirstDifference(s, t, pad) = <<f[k], g[k]>>
<1> DEFINE f == Entries(s, pad)
           g == Entries(t, pad)
           D == {i \in DOMAIN s \cup DOMAIN t : Padded(s, i, pad) # Padded(t, i, pad)}
           k == CHOOSE i \in D : \A j \in D : i <= j
<1>1. f \in [Pos -> T] /\ g \in [Pos -> T]
  BY EntriesType
<1>2. \A i \in Pos : f[i] = Padded(s, i, pad) /\ g[i] = Padded(t, i, pad)
  BY DEF Entries
<1>3. DOMAIN s \subseteq Pos /\ DOMAIN t \subseteq Pos
  BY DEF Pos
<1>4. \A i \in Pos : i \notin DOMAIN s \cup DOMAIN t => f[i] = g[i]
  BY <1>2 DEF Padded, Pos
<1>5. \A i \in Pos : i \in D <=> f[i] # g[i]
  BY <1>2, <1>3, <1>4
<1>6. D \subseteq Pos
  BY <1>3
<1>7. FirstDifference(s, t, pad)
        = IF D = {} THEN <<>> ELSE <<Padded(s, k, pad), Padded(t, k, pad)>>
  BY DEF FirstDifference
<1> HIDE DEF f, g, D
<1>8. CASE D = {}
  <2>1. f = g
    BY <1>1, <1>5, <1>8
  <2>2. FirstDifference(s, t, pad) = <<>>
    BY <1>7, <1>8
  <2> QED BY <2>1, <2>2 DEF f, g
<1>9. CASE D # {}
  <2>1. k \in D /\ \A j \in D : k <= j
    BY <1>6, <1>9, FirstOf DEF Pos
  <2> HIDE DEF k
  <2>2. f[k] # g[k]
    BY <1>5, <1>6, <2>1
  <2>3. \A j \in Pos : j < k => f[j] = g[j]
    BY <1>5, <1>6, <2>1 DEF Pos
  <2>4. FirstDifference(s, t, pad) = <<f[k], g[k]>>
    BY <1>2, <1>6, <1>7, <1>9, <2>1
  <2>5. FirstDifference(s, t, pad) # <<>>
    BY <2>4
  <2> QED BY <1>6, <2>1, <2>2, <2>3, <2>4, <2>5 DEF f, g
<1> QED BY <1>8, <1>9

-----------------------------------------------------------------------------
(* Tails.                                                                  *)

\* An identifier as a pair of integers: its kind, then its value.  Behind
\* the end of a tail stands Absent, lower than any identifier.
Key(id) == <<IF id.numeric THEN 0 ELSE 1, id.value>>

Absent == <<0, -1>>

KeyType == {0, 1} \X Int

LowerKey == {p \in KeyType \X KeyType : \/ p[1][1] < p[2][1]
                                        \/ p[1][1] = p[2][1] /\ p[1][2] < p[2][2]}

Keys(s) == [i \in Pos |-> IF i <= Len(s) THEN Key(s[i]) ELSE Absent]

Less == {p \in Nat \X Nat : p[1] < p[2]}

LEMMA LessIsStrict == IsStrictOrderOn(Less, Nat)
  BY DEF IsStrictOrderOn, Less

LEMMA LowerKeyIsStrict == IsStrictOrderOn(LowerKey, KeyType)
  BY DEF IsStrictOrderOn, LowerKey, KeyType

LEMMA KeyTells ==
  ASSUME NEW x \in Identifier, NEW y \in Identifier
  PROVE  /\ Key(x) \in KeyType /\ Key(x)[2] >= 0
         /\ Key(x)[2] = x.value
         /\ x.numeric = y.numeric <=> Key(x)[1] = Key(y)[1]
         /\ x.numeric => Key(x)[1] = 0
         /\ ~ x.numeric => Key(x)[1] = 1
         /\ Key(x) = Key(y) <=> x = y
<1>1. x.numeric \in BOOLEAN /\ y.numeric \in BOOLEAN /\ x.value \in Nat /\ y.value \in Nat
  BY DEF Identifier
<1>2. x = [numeric |-> x.numeric, value |-> x.value] /\ y = [numeric |-> y.numeric, value |-> y.value]
  BY DEF Identifier
<1>3. Key(x)[1] = (IF x.numeric THEN 0 ELSE 1) /\ Key(x)[2] = x.value
  BY DEF Key
<1>4. Key(y)[1] = (IF y.numeric THEN 0 ELSE 1) /\ Key(y)[2] = y.value
  BY DEF Key
<1>5. x.numeric = y.numeric <=> Key(x)[1] = Key(y)[1]
  <2>1. (x.numeric = TRUE \/ x.numeric = FALSE) /\ (y.numeric = TRUE \/ y.numeric = FALSE)
    BY <1>1
  <2>2. 0 # 1
    OBVIOUS
  <2> QED BY <1>3, <1>4, <2>1, <2>2, Zenon
<1>6. Key(x) \in KeyType /\ Key(x)[2] >= 0
  BY <1>1 DEF Key, KeyType
<1>7. Key(x) = Key(y) => x = y
  <2> SUFFICES ASSUME Key(x) = Key(y)
               PROVE  x = y
    OBVIOUS
  <2>1. x.numeric = y.numeric /\ x.value = y.value
    BY <1>3, <1>4, <1>5
  <2> QED BY <1>2, <2>1, Zenon
<1> QED BY <1>3, <1>5, <1>6, <1>7

LEMMA KeysType ==
  ASSUME NEW s \in Seq(Identifier)
  PROVE  Keys(s) \in [Pos -> KeyType]
<1>1. Absent \in KeyType
  BY DEF Absent, KeyType
<1>2. ASSUME NEW i \in Pos, i <= Len(s)
      PROVE  Key(s[i]) \in KeyType
  <2>1. s[i] \in Identifier
    BY <1>2 DEF Pos
  <2> QED BY <2>1, KeyTells
<1> QED BY <1>1, <1>2 DEF Keys

\* Keys tell a tail.
LEMMA KeysTell ==
  ASSUME NEW s \in Seq(Identifier), NEW t \in Seq(Identifier), Keys(s) = Keys(t)
  PROVE  s = t
<1>1. \A i \in Pos : Keys(s)[i] = Keys(t)[i]
  OBVIOUS
<1>2. \A i \in Pos : i <= Len(s) => s[i] \in Identifier /\ Keys(s)[i] = Key(s[i]) /\ Keys(s)[i][2] >= 0
  BY KeyTells DEF Keys, Pos
<1>3. \A i \in Pos : i <= Len(t) => t[i] \in Identifier /\ Keys(t)[i] = Key(t[i]) /\ Keys(t)[i][2] >= 0
  BY KeyTells DEF Keys, Pos
<1>4. \A i \in Pos : i > Len(s) => Keys(s)[i] = Absent
  BY DEF Keys, Pos
<1>5. \A i \in Pos : i > Len(t) => Keys(t)[i] = Absent
  BY DEF Keys, Pos
<1>7. Len(s) \in Nat /\ Len(t) \in Nat
  OBVIOUS
<1>8. ~ (Len(s) < Len(t))
  <2> SUFFICES ASSUME Len(s) < Len(t)
               PROVE  FALSE
    OBVIOUS
  <2>1. Len(t) \in Pos /\ Len(t) > Len(s) /\ Len(t) <= Len(t)
    BY <1>7 DEF Pos
  <2>2. Keys(t)[Len(t)][2] >= 0
    BY <2>1, <1>3
  <2>3. Keys(t)[Len(t)] = Absent
    BY <2>1, <1>1, <1>4
  <2> QED BY <2>2, <2>3 DEF Absent
<1>9. ~ (Len(t) < Len(s))
  <2> SUFFICES ASSUME Len(t) < Len(s)
               PROVE  FALSE
    OBVIOUS
  <2>1. Len(s) \in Pos /\ Len(s) > Len(t) /\ Len(s) <= Len(s)
    BY <1>7 DEF Pos
  <2>2. Keys(s)[Len(s)][2] >= 0
    BY <2>1, <1>2
  <2>3. Keys(s)[Len(s)] = Absent
    BY <2>1, <1>1, <1>5
  <2> QED BY <2>2, <2>3 DEF Absent
<1>10. Len(s) = Len(t)
  BY <1>7, <1>8, <1>9
<1>11. \A i \in 1..Len(s) : s[i] = t[i]
  <2> TAKE i \in 1..Len(s)
  <2>1. i \in Pos /\ i <= Len(s) /\ i <= Len(t)
    BY <1>10 DEF Pos
  <2>2. Key(s[i]) = Key(t[i]) /\ s[i] \in Identifier /\ t[i] \in Identifier
    BY <1>1, <1>2, <1>3, <2>1
  <2> QED BY <2>2, KeyTells
<1> QED BY <1>10, <1>11

LEMMA SignTells ==
  ASSUME NEW m \in Int, NEW n \in Int
  PROVE  /\ m < n => Sign(m - n) = -1
         /\ m > n => Sign(m - n) = 1
         /\ m = n => Sign(m - n) = 0
  BY DEF Sign

\* Two different identifiers compare as their keys.
LEMMA IdentifiersCompare ==
  ASSUME NEW x \in Identifier, NEW y \in Identifier, x # y
  PROVE  LET n == IF x.numeric = y.numeric THEN Sign(x.value - y.value)
                  ELSE IF x.numeric THEN -1 ELSE 1
         IN  \/ n = -1 /\ <<Key(x), Key(y)>> \in LowerKey
             \/ n = 1 /\ <<Key(y), Key(x)>> \in LowerKey
<1> DEFINE n == IF x.numeric = y.numeric THEN Sign(x.value - y.value)
                ELSE IF x.numeric THEN -1 ELSE 1
<1>1. /\ Key(x) \in KeyType /\ Key(y) \in KeyType /\ Key(x) # Key(y)
      /\ Key(x)[2] = x.value /\ Key(y)[2] = y.value
  BY KeyTells
<1>2. x.numeric = y.numeric <=> Key(x)[1] = Key(y)[1]
  BY KeyTells
<1>3. x.numeric => Key(x)[1] = 0
  BY KeyTells
<1>4. ~ x.numeric => Key(x)[1] = 1
  BY KeyTells
<1>5. x.numeric \in BOOLEAN /\ y.numeric \in BOOLEAN
  BY DEF Identifier
<1>6. CASE x.numeric = y.numeric
  <2>1. n = Sign(Key(x)[2] - Key(y)[2])
    BY <1>1, <1>6
  <2>2. Key(x)[1] = Key(y)[1]
    BY <1>2, <1>6
  <2> HIDE DEF n
  <2>3. Key(x)[2] # Key(y)[2] /\ Key(x)[2] \in Int /\ Key(y)[2] \in Int
    BY <1>1, <2>2 DEF KeyType
  <2>4. \/ n = -1 /\ Key(x)[2] < Key(y)[2]
        \/ n = 1 /\ Key(y)[2] < Key(x)[2]
    BY <2>1, <2>3 DEF Sign
  <2>5. <<Key(x), Key(y)>> \in LowerKey \/ ~ (Key(x)[2] < Key(y)[2])
    BY <1>1, <2>2 DEF LowerKey
  <2>6. <<Key(y), Key(x)>> \in LowerKey \/ ~ (Key(y)[2] < Key(x)[2])
    BY <1>1, <2>2 DEF LowerKey
  <2> QED BY <2>4, <2>5, <2>6 DEF n
<1>7. CASE x.numeric # y.numeric /\ x.numeric
  <2>1. n = -1
    BY <1>7
  <2>2. Key(x)[1] = 0 /\ Key(y)[1] # 0
    BY <1>2, <1>3, <1>7, Zenon
  <2>3. Key(x)[1] < Key(y)[1]
    BY <1>1, <2>2 DEF KeyType
  <2>4. <<Key(x), Key(y)>> \in LowerKey
    BY <1>1, <2>3 DEF LowerKey
  <2> QED BY <2>1, <2>4
<1>8. CASE x.numeric # y.numeric /\ ~ x.numeric
  <2>1. n = 1
    BY <1>8
  <2>2. Key(x)[1] = 1 /\ Key(y)[1] # 1
    BY <1>2, <1>4, <1>8, Zenon
  <2>3. Key(y)[1] < Key(x)[1]
    BY <1>1, <2>2 DEF KeyType
  <2>4. <<Key(y), Key(x)>> \in LowerKey
    BY <1>1, <2>3 DEF LowerKey
  <2> QED BY <2>1, <2>4
<1> QED BY <1>5, <1>6, <1>7, <1>8

LowerTail(s, t) == Lex(Keys(s), Keys(t), LowerKey)

\* A tail that continues another is higher.
LEMMA ShorterIsLower ==
  ASSUME NEW s \in Seq(Identifier), NEW t \in Seq(Identifier), Len(s) < Len(t),
         \A i \in 1..Len(s) : s[i] = t[i]
  PROVE  LowerTail(s, t)
<1> DEFINE k == Len(s) + 1
<1>1. k \in Pos /\ k <= Len(t) /\ ~ (k <= Len(s))
  BY DEF Pos
<1>2. t[k] \in Identifier
  BY <1>1 DEF Pos
<1>3. Keys(s)[k] = Absent /\ Keys(t)[k] = Key(t[k])
  BY <1>1 DEF Keys
<1>4. Key(t[k]) \in KeyType /\ Key(t[k])[2] >= 0
  BY <1>2, KeyTells
<1>5. <<Absent, Key(t[k])>> \in LowerKey
  BY <1>4 DEF LowerKey, Absent, KeyType
<1>6. ASSUME NEW j \in Pos, j < k
      PROVE  Keys(s)[j] = Keys(t)[j]
  <2>1. j \in 1..Len(s) /\ j <= Len(s) /\ j <= Len(t)
    BY <1>6 DEF Pos
  <2> QED BY <2>1 DEF Keys
<1> HIDE DEF k
<1> QED BY <1>1, <1>3, <1>5, <1>6 DEF LowerTail, Lex

\* comparePrerelease is the lexicographic order of the keys.
LEMMA ComparePrereleaseTells ==
  ASSUME NEW s \in Seq(Identifier), NEW t \in Seq(Identifier)
  PROVE  \/ ComparePrerelease(s, t) = -1 /\ LowerTail(s, t)
         \/ ComparePrerelease(s, t) = 0 /\ s = t
         \/ ComparePrerelease(s, t) = 1 /\ LowerTail(t, s)
<1> DEFINE n == IF Len(s) <= Len(t) THEN Len(s) ELSE Len(t)
           u == SubSeq(s, 1, n)
           w == SubSeq(t, 1, n)
           T == Identifier \cup {0}
           first == FirstDifference(u, w, 0)
           f == Entries(u, 0)
           g == Entries(w, 0)
<1>1. n \in Nat /\ n <= Len(s) /\ n <= Len(t)
  OBVIOUS
<1>2. ComparePrerelease(s, t)
        = CASE first = <<>> -> Sign(Len(s) - Len(t))
            [] first # <<>> /\ first[1].numeric = first[2].numeric ->
                 Sign(first[1].value - first[2].value)
            [] OTHER -> IF first[1].numeric THEN -1 ELSE 1
  BY DEF ComparePrerelease
<1>3. (n = Len(s) \/ n = Len(t)) /\ n \in Nat
  OBVIOUS
<1> HIDE DEF n
<1>4. u \in Seq(T) /\ w \in Seq(T) /\ 0 \in T
  BY <1>1
<1>5. \A i \in 1..n : f[i] = s[i] /\ g[i] = t[i]
  BY <1>1 DEF Entries, Padded, Pos
<1>6. \A i \in Pos : i \notin 1..n => f[i] = 0 /\ g[i] = 0
  BY <1>1 DEF Entries, Padded, Pos
<1>7. \/ f = g /\ first = <<>>
      \/ /\ first # <<>>
         /\ \E k \in Pos : /\ f[k] # g[k]
                           /\ \A j \in Pos : j < k => f[j] = g[j]
                           /\ first = <<f[k], g[k]>>
  BY <1>4, FirstDifferenceTells
<1> HIDE DEF f, g, first, T
<1>8. CASE f = g /\ first = <<>>
  <2>0. Len(s) \in Int /\ Len(t) \in Int
    OBVIOUS
  <2>1. \A i \in 1..n : s[i] = t[i]
    BY <1>5, <1>8
  <2>2. ComparePrerelease(s, t) = Sign(Len(s) - Len(t))
    BY <1>2, <1>8
  <2>3. CASE Len(s) = Len(t)
    <3>1. s = t
      BY <1>3, <2>1, <2>3
    <3> QED BY <2>2, <2>3, <3>1, SignTells
  <2>4. CASE Len(s) < Len(t)
    <3>1. n = Len(s)
      BY <1>1, <1>3, <2>4
    <3>2. LowerTail(s, t)
      BY <2>1, <2>4, <3>1, ShorterIsLower
    <3>3. Sign(Len(s) - Len(t)) = -1
      BY <2>0, <2>4, SignTells
    <3> QED BY <2>2, <3>2, <3>3, Zenon
  <2>5. CASE Len(t) < Len(s)
    <3>1. n = Len(t)
      BY <1>1, <1>3, <2>5
    <3>2. LowerTail(t, s)
      BY <2>1, <2>5, <3>1, ShorterIsLower
    <3>3. Sign(Len(s) - Len(t)) = 1
      BY <2>0, <2>5, SignTells
    <3> QED BY <2>2, <3>2, <3>3, Zenon
  <2> QED BY <2>0, <2>3, <2>4, <2>5
<1>9. CASE first # <<>>
  <2>1. PICK k \in Pos : /\ f[k] # g[k]
                         /\ \A j \in Pos : j < k => f[j] = g[j]
                         /\ first = <<f[k], g[k]>>
    BY <1>7, <1>9
  <2>2. k \in 1..n
    BY <1>6, <2>1
  <2>3. f[k] = s[k] /\ g[k] = t[k]
    BY <1>5, <2>2
  <2>4. s[k] \in Identifier /\ t[k] \in Identifier /\ s[k] # t[k]
    BY <1>1, <2>1, <2>2, <2>3
  <2>5. first[1] = s[k] /\ first[2] = t[k]
    BY <2>1, <2>3
  <2>6. ComparePrerelease(s, t)
          = IF s[k].numeric = t[k].numeric THEN Sign(s[k].value - t[k].value)
            ELSE IF s[k].numeric THEN -1 ELSE 1
    BY <1>2, <1>9, <2>5
  <2>7. Keys(s)[k] = Key(s[k]) /\ Keys(t)[k] = Key(t[k])
    BY <1>1, <2>2 DEF Keys, Pos
  <2>8. ASSUME NEW j \in Pos, j < k
        PROVE  Keys(s)[j] = Keys(t)[j]
    <3>1. j \in 1..n /\ j <= Len(s) /\ j <= Len(t)
      BY <1>1, <2>2, <2>8 DEF Pos
    <3>2. s[j] = t[j]
      BY <1>5, <2>1, <2>8, <3>1
    <3> QED BY <3>1, <3>2 DEF Keys
  <2>9. \/ ComparePrerelease(s, t) = -1 /\ <<Key(s[k]), Key(t[k])>> \in LowerKey
        \/ ComparePrerelease(s, t) = 1 /\ <<Key(t[k]), Key(s[k])>> \in LowerKey
    BY <2>4, <2>6, IdentifiersCompare
  <2> QED BY <2>7, <2>8, <2>9 DEF LowerTail, Lex
<1> QED BY <1>7, <1>8, <1>9

TailBelow(s, t) ==
  \/ TailClass(s) < TailClass(t)
  \/ TailClass(s) = TailClass(t) /\ LowerTail(s, t)

LEMMA TailClassType ==
  ASSUME NEW s
  PROVE  TailClass(s) \in {-1, 0, 1}
  BY DEF TailClass

LEMMA LowerTailIsStrict ==
  ASSUME NEW s \in Seq(Identifier), NEW t \in Seq(Identifier), NEW u \in Seq(Identifier)
  PROVE  /\ ~ LowerTail(s, s)
         /\ LowerTail(s, t) /\ LowerTail(t, u) => LowerTail(s, u)
         /\ LowerTail(s, t) \/ s = t \/ LowerTail(t, s)
<1>1. Keys(s) \in [Pos -> KeyType] /\ Keys(t) \in [Pos -> KeyType] /\ Keys(u) \in [Pos -> KeyType]
  BY KeysType
<1>2. ~ LowerTail(s, s)
  BY <1>1, LowerKeyIsStrict, LexIrreflexive DEF LowerTail
<1>3. LowerTail(s, t) /\ LowerTail(t, u) => LowerTail(s, u)
  BY <1>1, LowerKeyIsStrict, LexTransitive DEF LowerTail
<1>4. LowerTail(s, t) \/ s = t \/ LowerTail(t, s)
  BY <1>1, LowerKeyIsStrict, LexTotal, KeysTell DEF LowerTail
<1> QED BY <1>2, <1>3, <1>4

LEMMA TailBelowIsStrict ==
  ASSUME NEW s \in Seq(Identifier), NEW t \in Seq(Identifier), NEW u \in Seq(Identifier)
  PROVE  /\ ~ TailBelow(s, s)
         /\ TailBelow(s, t) /\ TailBelow(t, u) => TailBelow(s, u)
         /\ TailBelow(s, t) \/ s = t \/ TailBelow(t, s)
<1>1. TailClass(s) \in Int /\ TailClass(t) \in Int /\ TailClass(u) \in Int
  BY TailClassType
<1>2. ~ LowerTail(s, s)
  BY LowerTailIsStrict
<1>3. LowerTail(s, t) /\ LowerTail(t, u) => LowerTail(s, u)
  BY LowerTailIsStrict
<1>4. LowerTail(s, t) \/ s = t \/ LowerTail(t, s)
  BY LowerTailIsStrict
<1> QED BY <1>1, <1>2, <1>3, <1>4 DEF TailBelow

\* compareTails is TailBelow.
LEMMA CompareTailsTells ==
  ASSUME NEW s \in Seq(Identifier), NEW t \in Seq(Identifier)
  PROVE  \/ CompareTails(s, t) = -1 /\ TailBelow(s, t)
         \/ CompareTails(s, t) = 0 /\ s = t
         \/ CompareTails(s, t) = 1 /\ TailBelow(t, s)
<1>1. TailClass(s) \in Int /\ TailClass(t) \in Int
  BY TailClassType
<1>2. CASE TailClass(s) # TailClass(t)
  <2>1. CompareTails(s, t) = Sign(TailClass(s) - TailClass(t))
    BY <1>2 DEF CompareTails
  <2> QED BY <1>1, <1>2, <2>1 DEF Sign, TailBelow
<1>3. CASE TailClass(s) = TailClass(t) /\ s = t
  BY <1>3 DEF CompareTails
<1>4. CASE TailClass(s) = TailClass(t) /\ s # t
  <2>1. CompareTails(s, t) = ComparePrerelease(s, t)
    BY <1>4 DEF CompareTails
  <2>2. \/ ComparePrerelease(s, t) = -1 /\ LowerTail(s, t)
        \/ ComparePrerelease(s, t) = 0 /\ s = t
        \/ ComparePrerelease(s, t) = 1 /\ LowerTail(t, s)
    BY ComparePrereleaseTells
  <2> QED BY <1>4, <2>1, <2>2 DEF TailBelow
<1> QED BY <1>2, <1>3, <1>4

-----------------------------------------------------------------------------
(* Versions.                                                               *)

PartsOf(v) == Entries(v.parts, 0)

PartsBelow(v, w) == Lex(PartsOf(v), PartsOf(w), Less)

Below(v, w) ==
  \/ PartsBelow(v, w)
  \/ PartsOf(v) = PartsOf(w) /\ TailBelow(v.tail, w.tail)

\* Equal to CompareVersions: 1 and 1.0.0, say.
Same(v, w) == PartsOf(v) = PartsOf(w) /\ v.tail = w.tail

LEMMA PartsBelowIsStrict ==
  ASSUME NEW u \in ParsedVersion, NEW v \in ParsedVersion, NEW w \in ParsedVersion
  PROVE  /\ ~ PartsBelow(u, u)
         /\ PartsBelow(u, v) /\ PartsBelow(v, w) => PartsBelow(u, w)
         /\ PartsBelow(u, v) \/ PartsOf(u) = PartsOf(v) \/ PartsBelow(v, u)
<1>1. u.parts \in Seq(Nat) /\ v.parts \in Seq(Nat) /\ w.parts \in Seq(Nat) /\ 0 \in Nat
  BY DEF ParsedVersion
<1>2. PartsOf(u) \in [Pos -> Nat] /\ PartsOf(v) \in [Pos -> Nat] /\ PartsOf(w) \in [Pos -> Nat]
  BY <1>1, EntriesType DEF PartsOf
<1>3. ~ PartsBelow(u, u)
  BY <1>2, LessIsStrict, LexIrreflexive DEF PartsBelow
<1>4. PartsBelow(u, v) /\ PartsBelow(v, w) => PartsBelow(u, w)
  BY <1>2, LessIsStrict, LexTransitive DEF PartsBelow
<1>5. PartsBelow(u, v) \/ PartsOf(u) = PartsOf(v) \/ PartsBelow(v, u)
  BY <1>2, LessIsStrict, LexTotal DEF PartsBelow
<1> QED BY <1>3, <1>4, <1>5

\* Below is a strict order of the versions, and Same its ties.
LEMMA BelowIsStrict ==
  ASSUME NEW u \in ParsedVersion, NEW v \in ParsedVersion, NEW w \in ParsedVersion
  PROVE  /\ ~ Below(u, u)
         /\ Below(u, v) /\ Below(v, w) => Below(u, w)
         /\ Below(u, v) \/ Same(u, v) \/ Below(v, u)
<1>1. /\ u.tail \in Seq(Identifier) /\ v.tail \in Seq(Identifier) /\ w.tail \in Seq(Identifier)
  BY DEF ParsedVersion
<1>2. /\ ~ TailBelow(u.tail, u.tail)
      /\ TailBelow(u.tail, v.tail) /\ TailBelow(v.tail, w.tail) => TailBelow(u.tail, w.tail)
      /\ TailBelow(u.tail, v.tail) \/ u.tail = v.tail \/ TailBelow(v.tail, u.tail)
  BY <1>1, TailBelowIsStrict
<1>3. ~ PartsBelow(u, u)
  BY PartsBelowIsStrict
<1>4. PartsBelow(u, v) /\ PartsBelow(v, w) => PartsBelow(u, w)
  BY PartsBelowIsStrict
<1>5. PartsBelow(u, v) \/ PartsOf(u) = PartsOf(v) \/ PartsBelow(v, u)
  BY PartsBelowIsStrict
<1>6. PartsBelow(u, v) /\ PartsOf(v) = PartsOf(w) => PartsBelow(u, w)
  BY DEF PartsBelow
<1>7. PartsOf(u) = PartsOf(v) /\ PartsBelow(v, w) => PartsBelow(u, w)
  BY DEF PartsBelow
<1>8. ~ Below(u, u)
  BY <1>2, <1>3 DEF Below
<1>9. Below(u, v) /\ Below(v, w) => Below(u, w)
  BY <1>2, <1>4, <1>6, <1>7 DEF Below
<1>10. Below(u, v) \/ Same(u, v) \/ Below(v, u)
  BY <1>2, <1>5 DEF Below, Same
<1> QED BY <1>8, <1>9, <1>10

\* A lower or equal version is lower than what the other is lower than.
LEMMA SameIsTransparent ==
  ASSUME NEW u, NEW v, NEW w, Same(u, v)
  PROVE  /\ Below(u, w) <=> Below(v, w)
         /\ Below(w, u) <=> Below(w, v)
         /\ Same(u, w) <=> Same(v, w)
         /\ Same(v, u)
  BY DEF Same, Below, PartsBelow

\* CompareVersions is Below.
LEMMA CompareVersionsTells ==
  ASSUME NEW v \in ParsedVersion, NEW w \in ParsedVersion
  PROVE  \/ CompareVersions(v, w) = -1 /\ Below(v, w)
         \/ CompareVersions(v, w) = 0 /\ Same(v, w)
         \/ CompareVersions(v, w) = 1 /\ Below(w, v)
<1> DEFINE first == FirstDifference(v.parts, w.parts, 0)
           f == PartsOf(v)
           g == PartsOf(w)
<1>1. /\ v.parts \in Seq(Nat) /\ w.parts \in Seq(Nat) /\ 0 \in Nat
      /\ v.tail \in Seq(Identifier) /\ w.tail \in Seq(Identifier)
  BY DEF ParsedVersion
<1>2. f \in [Pos -> Nat] /\ g \in [Pos -> Nat]
  BY <1>1, EntriesType DEF PartsOf
<1>3. \/ f = g /\ first = <<>>
      \/ /\ first # <<>>
         /\ \E k \in Pos : /\ f[k] # g[k]
                           /\ \A j \in Pos : j < k => f[j] = g[j]
                           /\ first = <<f[k], g[k]>>
  <2>1. f = Entries(v.parts, 0) /\ g = Entries(w.parts, 0)
    BY DEF PartsOf
  <2>2. ASSUME NEW x \in Seq(Nat), NEW y \in Seq(Nat)
        PROVE  LET e == Entries(x, 0)
                   h == Entries(y, 0)
               IN  \/ e = h /\ FirstDifference(x, y, 0) = <<>>
                   \/ /\ FirstDifference(x, y, 0) # <<>>
                      /\ \E k \in Pos : /\ e[k] # h[k]
                                        /\ \A j \in Pos : j < k => e[j] = h[j]
                                        /\ FirstDifference(x, y, 0) = <<e[k], h[k]>>
    <3>1. 0 \in Nat
      OBVIOUS
    <3> QED BY <3>1, FirstDifferenceTells, Zenon
  <2> DEFINE e == Entries(v.parts, 0)
             h == Entries(w.parts, 0)
  <2>3. \/ e = h /\ first = <<>>
        \/ /\ first # <<>>
           /\ \E k \in Pos : /\ e[k] # h[k]
                             /\ \A j \in Pos : j < k => e[j] = h[j]
                             /\ first = <<e[k], h[k]>>
    BY <1>1, <2>2, Zenon
  <2>4. f = e /\ g = h
    BY <2>1
  <2> HIDE DEF f, g, e, h, first
  <2> QED BY <2>3, <2>4
<1>4. CompareVersions(v, w) = IF first = <<>> THEN CompareTails(v.tail, w.tail)
                              ELSE Sign(first[1] - first[2])
  BY DEF CompareVersions
<1>5. CASE f = g /\ first = <<>>
  <2>1. CompareVersions(v, w) = CompareTails(v.tail, w.tail)
    BY <1>4, <1>5
  <2>2. \/ CompareTails(v.tail, w.tail) = -1 /\ TailBelow(v.tail, w.tail)
        \/ CompareTails(v.tail, w.tail) = 0 /\ v.tail = w.tail
        \/ CompareTails(v.tail, w.tail) = 1 /\ TailBelow(w.tail, v.tail)
    BY <1>1, CompareTailsTells
  <2> QED BY <1>5, <2>1, <2>2 DEF Below, Same
<1>6. CASE first # <<>>
  <2>1. PICK k \in Pos : /\ f[k] # g[k]
                         /\ \A j \in Pos : j < k => f[j] = g[j]
                         /\ first = <<f[k], g[k]>>
    BY <1>3, <1>6
  <2>2. f[k] \in Nat /\ g[k] \in Nat
    BY <1>2
  <2>3. CompareVersions(v, w) = Sign(f[k] - g[k])
    BY <1>4, <1>6, <2>1
  <2> HIDE DEF f, g
  <2>4. CASE f[k] < g[k]
    <3>1. <<f[k], g[k]>> \in Less
      BY <2>2, <2>4 DEF Less
    <3>2. PartsBelow(v, w)
      BY <2>1, <3>1 DEF PartsBelow, Lex, f, g
    <3> QED BY <2>2, <2>3, <2>4, <3>2, SignTells DEF Below
  <2>5. CASE g[k] < f[k]
    <3>1. <<g[k], f[k]>> \in Less
      BY <2>2, <2>5 DEF Less
    <3>2. PartsBelow(w, v)
      BY <2>1, <3>1 DEF PartsBelow, Lex, f, g
    <3> QED BY <2>2, <2>3, <2>5, <3>2, SignTells DEF Below
  <2> QED BY <2>1, <2>2, <2>4, <2>5
<1> QED BY <1>3, <1>5, <1>6

\* And it tells nothing else.
LEMMA CompareVersionsIff ==
  ASSUME NEW v \in ParsedVersion, NEW w \in ParsedVersion
  PROVE  /\ CompareVersions(v, w) \in {-1, 0, 1}
         /\ CompareVersions(v, w) < 0 <=> Below(v, w)
         /\ CompareVersions(v, w) = 0 <=> Same(v, w)
         /\ CompareVersions(v, w) > 0 <=> Below(w, v)
<1>1. \/ CompareVersions(v, w) = -1 /\ Below(v, w)
      \/ CompareVersions(v, w) = 0 /\ Same(v, w)
      \/ CompareVersions(v, w) = 1 /\ Below(w, v)
  BY CompareVersionsTells
<1>2. ~ (Below(v, w) /\ Below(w, v))
  BY BelowIsStrict
<1>3. ~ (Same(v, w) /\ Below(v, w)) /\ ~ (Same(v, w) /\ Below(w, v))
  BY BelowIsStrict, SameIsTransparent
<1> QED BY <1>1, <1>2, <1>3

\* CompareTotal breaks the ties, and nothing else.
LEMMA CompareTotalIff ==
  ASSUME NEW v \in ParsedVersion, NEW w \in ParsedVersion
  PROVE  /\ CompareTotal(v, w) < 0 <=> Below(v, w) \/ (Same(v, w) /\ v.spelling < w.spelling)
         /\ CompareTotal(v, w) = 0 <=> Same(v, w) /\ v.spelling = w.spelling
<1>1. v.spelling \in Nat /\ w.spelling \in Nat
  BY DEF ParsedVersion
<1>2. /\ CompareVersions(v, w) \in {-1, 0, 1}
      /\ CompareVersions(v, w) < 0 <=> Below(v, w)
      /\ CompareVersions(v, w) = 0 <=> Same(v, w)
  BY CompareVersionsIff
<1>3. CASE CompareVersions(v, w) # 0
  <2>1. CompareTotal(v, w) = CompareVersions(v, w)
    BY <1>3 DEF CompareTotal
  <2> QED BY <1>2, <1>3, <2>1
<1>4. CASE CompareVersions(v, w) = 0
  <2>1. CompareTotal(v, w) = Sign(v.spelling - w.spelling)
    BY <1>4 DEF CompareTotal
  <2>2. Same(v, w) /\ ~ Below(v, w)
    BY <1>2, <1>4
  <2> QED BY <1>1, <2>1, <2>2 DEF Sign
<1> QED BY <1>3, <1>4

\* Without tails, or with equal ones, the parts decide.
LEMMA PartsDecide ==
  ASSUME NEW v \in ParsedVersion, NEW w \in ParsedVersion, v.tail = w.tail
  PROVE  /\ Below(v, w) <=> PartsBelow(v, w)
         /\ Same(v, w) <=> PartsOf(v) = PartsOf(w)
<1>1. v.tail \in Seq(Identifier)
  BY DEF ParsedVersion
<1>2. ~ TailBelow(v.tail, v.tail)
  BY <1>1, TailBelowIsStrict
<1> QED BY <1>2 DEF Below, Same

-----------------------------------------------------------------------------
(* Lines.                                                                  *)

\* A version is in the line of a prefix when it begins with its parts.
LEMMA InPrefixIff ==
  ASSUME NEW v \in ParsedVersion, NEW p \in ParsedVersion
  PROVE  InPrefix(v, p) <=> /\ Len(p.parts) > 0
                            /\ Len(v.parts) >= Len(p.parts)
                            /\ \A i \in 1..Len(p.parts) : v.parts[i] = p.parts[i]
<1>1. v.parts \in Seq(Nat) /\ p.parts \in Seq(Nat)
  BY DEF ParsedVersion
<1> QED BY <1>1 DEF InPrefix

\* The entries of a prefix are those of a version in its line, as far as
\* the prefix goes.
LEMMA LineEntries ==
  ASSUME NEW v \in ParsedVersion, NEW p \in ParsedVersion, Len(v.parts) >= Len(p.parts)
  PROVE  \A i \in 1..Len(p.parts) : /\ i \in Pos
                                    /\ PartsOf(v)[i] = v.parts[i]
                                    /\ PartsOf(p)[i] = p.parts[i]
                                    /\ v.parts[i] \in Nat /\ p.parts[i] \in Nat
<1>1. /\ v.parts \in Seq(Nat) /\ p.parts \in Seq(Nat)
      /\ Len(v.parts) \in Nat /\ Len(p.parts) \in Nat
  BY DEF ParsedVersion
<1>2. ASSUME NEW s \in Seq(Nat), NEW i \in 1..Len(s)
      PROVE  i \in Pos /\ Entries(s, 0)[i] = s[i] /\ s[i] \in Nat
  <2>1. i \in Pos /\ i <= Len(s) /\ s[i] \in Nat
    BY DEF Pos
  <2> QED BY <2>1 DEF Entries, Padded
<1>3. \A i \in 1..Len(p.parts) : i \in 1..Len(v.parts)
  BY <1>1
<1> QED BY <1>1, <1>2, <1>3 DEF PartsOf

\* Two versions long enough for a prefix, one in its line and the other not,
\* differ by the end of the prefix, and that decides how they compare.
LEMMA LinesPart ==
  ASSUME NEW v \in ParsedVersion, NEW w \in ParsedVersion, NEW p \in ParsedVersion,
         InPrefix(v, p), ~ InPrefix(w, p), Len(w.parts) >= Len(p.parts)
  PROVE  /\ Below(v, w) <=> PartsBelow(v, w)
         /\ ~ Same(v, w)
         /\ \E k \in 1..Len(p.parts) :
              /\ v.parts[k] # w.parts[k]
              /\ \A j \in 1..Len(p.parts) : j < k => v.parts[j] = w.parts[j]
              /\ PartsBelow(v, w) <=> v.parts[k] < w.parts[k]
              /\ PartsBelow(w, v) <=> w.parts[k] < v.parts[k]
<1> DEFINE n == Len(p.parts)
           f == PartsOf(v)
           g == PartsOf(w)
           D == {i \in 1..n : v.parts[i] # w.parts[i]}
<1>1. /\ p.parts \in Seq(Nat) /\ v.parts \in Seq(Nat) /\ w.parts \in Seq(Nat) /\ 0 \in Nat
      /\ n \in Nat
  BY DEF ParsedVersion
<1>2. /\ n > 0 /\ Len(v.parts) >= n
      /\ \A i \in 1..n : v.parts[i] = p.parts[i]
  BY InPrefixIff
<1>3. \E i \in 1..n : w.parts[i] # p.parts[i]
  BY <1>2, InPrefixIff
<1>4. \A i \in 1..n : /\ i \in Pos
                      /\ f[i] = v.parts[i] /\ g[i] = w.parts[i]
                      /\ v.parts[i] \in Nat /\ w.parts[i] \in Nat
  <2>1. \A i \in 1..n : i \in Pos /\ f[i] = v.parts[i] /\ v.parts[i] \in Nat
    BY <1>2, LineEntries
  <2>2. \A i \in 1..n : g[i] = w.parts[i] /\ w.parts[i] \in Nat
    BY LineEntries
  <2> QED BY <2>1, <2>2
<1>5. D \subseteq Nat /\ D # {}
  BY <1>2, <1>3
<1>6. PICK k \in D : \A j \in D : k <= j
  <2> HIDE DEF D
  <2> QED BY <1>5, FirstOf
<1>7. k \in 1..n /\ k \in Pos /\ f[k] # g[k] /\ f[k] \in Nat /\ g[k] \in Nat
  BY <1>4, <1>6
<1>8. \A j \in 1..n : j < k => v.parts[j] = w.parts[j]
  BY <1>1, <1>6
<1>9. \A j \in Pos : j < k => f[j] = g[j]
  <2> TAKE j \in Pos
  <2> HAVE j < k
  <2>1. j \in 1..n
    BY <1>1, <1>7 DEF Pos
  <2> QED BY <1>4, <1>8, <2>1
<1>10. f \in [Pos -> Nat] /\ g \in [Pos -> Nat]
  BY <1>1, EntriesType DEF PartsOf
<1> HIDE DEF f, g, D, n
<1>11. ASSUME f[k] < g[k]
       PROVE  PartsBelow(v, w)
  <2>1. <<f[k], g[k]>> \in Less
    BY <1>7, <1>11 DEF Less
  <2> QED BY <1>7, <1>9, <2>1 DEF PartsBelow, Lex, f, g
<1>12. ASSUME g[k] < f[k]
       PROVE  PartsBelow(w, v)
  <2>1. <<g[k], f[k]>> \in Less
    BY <1>7, <1>12 DEF Less
  <2> QED BY <1>7, <1>9, <2>1 DEF PartsBelow, Lex, f, g
<1>13. ~ (PartsBelow(v, w) /\ PartsBelow(w, v))
  BY PartsBelowIsStrict
<1>14. f[k] < g[k] \/ g[k] < f[k]
  BY <1>7
<1>15. ~ (f[k] < g[k] /\ g[k] < f[k])
  BY <1>7
<1>16. /\ PartsBelow(v, w) <=> f[k] < g[k]
       /\ PartsBelow(w, v) <=> g[k] < f[k]
  BY <1>11, <1>12, <1>13, <1>14, <1>15
<1>17. PartsOf(v) # PartsOf(w)
  BY <1>7 DEF f, g
<1>18. (Below(v, w) <=> PartsBelow(v, w)) /\ ~ Same(v, w)
  BY <1>17 DEF Below, Same
<1>19. f[k] = v.parts[k] /\ g[k] = w.parts[k]
  BY <1>4, <1>7
<1> QED BY <1>7, <1>8, <1>16, <1>18, <1>19 DEF n

\* Where a version of a line and one outside it differ is where the prefix
\* and the one outside differ.
LEMMA PrefixDecides ==
  ASSUME NEW v \in ParsedVersion, NEW w \in ParsedVersion, NEW p \in ParsedVersion,
         InPrefix(v, p), ~ InPrefix(w, p), Len(w.parts) >= Len(p.parts)
  PROVE  /\ PartsBelow(v, w) <=> Below(p, w)
         /\ PartsBelow(w, v) <=> Below(w, p)
<1> DEFINE n == Len(p.parts)
<1>1. /\ n \in Nat /\ n > 0 /\ Len(v.parts) >= n
      /\ \A i \in 1..n : v.parts[i] = p.parts[i]
  BY InPrefixIff DEF ParsedVersion
<1>2. InPrefix(p, p)
  BY <1>1, InPrefixIff
<1>3. PICK k \in 1..n : /\ v.parts[k] # w.parts[k]
                        /\ \A j \in 1..n : j < k => v.parts[j] = w.parts[j]
                        /\ PartsBelow(v, w) <=> v.parts[k] < w.parts[k]
                        /\ PartsBelow(w, v) <=> w.parts[k] < v.parts[k]
  BY LinesPart
<1>4. PICK m \in 1..n : /\ p.parts[m] # w.parts[m]
                        /\ \A j \in 1..n : j < m => p.parts[j] = w.parts[j]
                        /\ PartsBelow(p, w) <=> p.parts[m] < w.parts[m]
                        /\ PartsBelow(w, p) <=> w.parts[m] < p.parts[m]
  BY <1>2, LinesPart
<1>5. /\ Below(p, w) <=> PartsBelow(p, w)
      /\ PartsOf(p) # PartsOf(w)
  <2>1. (Below(p, w) <=> PartsBelow(p, w)) /\ ~ Same(p, w)
    BY <1>2, LinesPart
  <2>2. p.parts[m] \in Nat /\ w.parts[m] \in Nat
    BY <1>1, LineEntries
  <2>3. PartsBelow(p, w) \/ PartsBelow(w, p)
    BY <1>4, <2>2
  <2>4. PartsOf(p) = PartsOf(w) => ~ PartsBelow(p, w) /\ ~ PartsBelow(w, p)
    BY PartsBelowIsStrict DEF PartsBelow
  <2> QED BY <2>1, <2>3, <2>4
<1>6. Below(w, p) <=> PartsBelow(w, p)
  BY <1>5 DEF Below
<1>7. k = m
  <2> HIDE DEF n
  <2>1. ~ (k < m)
    BY <1>1, <1>3, <1>4
  <2>2. ~ (m < k)
    BY <1>1, <1>3, <1>4
  <2> QED BY <1>1, <2>1, <2>2
<1> QED BY <1>1, <1>3, <1>4, <1>5, <1>6, <1>7

\* The major of a version, as a prefix.
Major(v) == [v EXCEPT !.parts = MajorOf(v), !.tail = <<>>]

LEMMA FirstAlone ==
  ASSUME NEW s \in Seq(Nat), Len(s) >= 1
  PROVE  SubSeq(s, 1, 1) = <<s[1]>>
<1> DEFINE t == SubSeq(s, 1, 1)
<1>1. Len(s) \in Nat
  OBVIOUS
<1>2. t \in Seq(Nat) /\ Len(t) = 1 /\ t[1] = s[1]
  BY <1>1
<1> HIDE DEF t
<1>3. t = <<s[1]>>
  BY <1>2
<1> QED BY <1>3 DEF t

LEMMA MajorTells ==
  ASSUME NEW v \in ParsedVersion, IsVersion(v)
  PROVE  /\ Major(v) \in ParsedVersion
         /\ Major(v).tail = <<>> /\ Major(v).parts = <<v.parts[1]>>
         /\ v.parts[1] \in Nat /\ Len(v.parts) >= 1
         /\ PartsOf(v)[1] = v.parts[1]
         /\ \A i \in Pos : PartsOf(Major(v))[i] = IF i = 1 THEN v.parts[1] ELSE 0
<1>1. v.parts \in Seq(Nat) /\ v.parts # <<>> /\ v.spelling \in Nat
  BY DEF ParsedVersion, IsVersion
<1>2. v.parts[1] \in Nat /\ Len(v.parts) >= 1
  BY <1>1
<1>3. MajorOf(v) = <<v.parts[1]>>
  <2>1. SubSeq(v.parts, 1, 1) = <<v.parts[1]>>
    BY <1>1, <1>2, FirstAlone
  <2> QED BY <2>1 DEF MajorOf
<1>4. Major(v).tail = <<>> /\ Major(v).parts = <<v.parts[1]>> /\ Major(v).spelling = v.spelling
  BY <1>3 DEF Major, ParsedVersion
<1>5. Major(v) \in ParsedVersion
  <2>1. <<v.parts[1]>> \in Seq(Nat)
    BY <1>2
  <2>2. <<>> \in Seq(Identifier)
    OBVIOUS
  <2> QED BY <1>1, <1>3, <2>1, <2>2 DEF Major, ParsedVersion
<1>6. 1 \in Pos /\ PartsOf(v)[1] = v.parts[1]
  BY <1>2 DEF PartsOf, Entries, Padded, Pos
<1>7. ASSUME NEW i \in Pos
      PROVE  PartsOf(Major(v))[i] = IF i = 1 THEN v.parts[1] ELSE 0
  BY <1>4 DEF PartsOf, Entries, Padded, Pos
<1> QED BY <1>2, <1>4, <1>5, <1>6, <1>7

\* A version is in the line of its major.
LEMMA InLineOfMajor ==
  ASSUME NEW v \in ParsedVersion, IsVersion(v)
  PROVE  InPrefix(v, Major(v))
<1>1. /\ Major(v) \in ParsedVersion /\ Major(v).parts = <<v.parts[1]>>
      /\ Len(v.parts) >= 1
  BY MajorTells
<1> DEFINE p == Major(v)
<1> HIDE DEF p
<1>2. p \in ParsedVersion /\ p.parts = <<v.parts[1]>>
  BY <1>1 DEF p
<1>3. Len(p.parts) = 1 /\ p.parts[1] = v.parts[1]
  BY <1>2
<1>4. \A i \in 1..Len(p.parts) : v.parts[i] = p.parts[i]
  BY <1>3
<1>5. Len(p.parts) > 0 /\ Len(v.parts) >= Len(p.parts)
  BY <1>1, <1>3
<1>6. InPrefix(v, p)
  BY <1>2, <1>4, <1>5, InPrefixIff
<1> QED BY <1>6 DEF p

\* A higher major is a higher version.
LEMMA HigherMajor ==
  ASSUME NEW v \in ParsedVersion, NEW w \in ParsedVersion, IsVersion(v), IsVersion(w),
         Below(Major(v), Major(w))
  PROVE  Below(v, w)
<1>1. PartsBelow(Major(v), Major(w))
  BY MajorTells, PartsDecide
<1>2. PICK k \in Pos : <<PartsOf(Major(v))[k], PartsOf(Major(w))[k]>> \in Less
  BY <1>1 DEF PartsBelow, Lex
<1>3. k = 1
  <2>1. PartsOf(Major(v))[k] # PartsOf(Major(w))[k]
    BY <1>2 DEF Less
  <2> QED BY <2>1, MajorTells
<1>4. <<PartsOf(v)[1], PartsOf(w)[1]>> \in Less
  BY <1>2, <1>3, MajorTells
<1>5. \A j \in Pos : ~ (j < 1)
  BY DEF Pos
<1> QED BY <1>3, <1>4, <1>5 DEF Below, PartsBelow, Lex

-----------------------------------------------------------------------------
(* The samples.                                                            *)

Drawn == a \in Sample /\ b \in Sample /\ c \in Sample /\ prefix \in PrefixSample

LEMMA AlwaysDrawn == Spec => []Drawn
<1>1. Init => Drawn
  BY DEF Init, Drawn
<1>2. Drawn /\ [Next]_vars => Drawn'
  BY DEF Drawn, Next, Draw, PublishEvent, Retract, vars
<1> QED BY <1>1, <1>2, PTL DEF Spec

LEMMA DrawnAreVersions ==
  ASSUME Drawn
  PROVE  /\ a \in ParsedVersion /\ b \in ParsedVersion /\ c \in ParsedVersion
         /\ prefix \in ParsedVersion
         /\ IsVersion(a) /\ IsVersion(b) /\ IsVersion(c) /\ IsVersion(prefix)
  BY SampleAssumption DEF Drawn

\* CompareVersions is antisymmetric and transitive on all versions, whatever
\* their parts and tails: the policy may sort by it and take maxima.
THEOREM VersionsArePreordered == Spec => []IsPreorder
<1>1. Drawn => IsPreorder
  <2> SUFFICES ASSUME Drawn
               PROVE  IsPreorder
    OBVIOUS
  <2>1. a \in ParsedVersion /\ b \in ParsedVersion /\ c \in ParsedVersion
    BY DrawnAreVersions
  <2>2. CompareVersions(a, b) = - CompareVersions(b, a)
    <3>1. /\ CompareVersions(a, b) \in {-1, 0, 1}
          /\ CompareVersions(a, b) < 0 <=> Below(a, b)
          /\ CompareVersions(a, b) > 0 <=> Below(b, a)
      BY <2>1, CompareVersionsIff
    <3>2. /\ CompareVersions(b, a) \in {-1, 0, 1}
          /\ CompareVersions(b, a) < 0 <=> Below(b, a)
          /\ CompareVersions(b, a) > 0 <=> Below(a, b)
      BY <2>1, CompareVersionsIff
    <3> QED BY <3>1, <3>2
  <2>3. CompareVersions(a, b) <= 0 /\ CompareVersions(b, c) <= 0 => CompareVersions(a, c) <= 0
    <3> SUFFICES ASSUME CompareVersions(a, b) <= 0, CompareVersions(b, c) <= 0
                 PROVE  CompareVersions(a, c) <= 0
      OBVIOUS
    <3>1. Below(a, b) \/ Same(a, b)
      BY <2>1, CompareVersionsIff
    <3>2. Below(b, c) \/ Same(b, c)
      BY <2>1, CompareVersionsIff
    <3>3. Below(a, c) \/ Same(a, c)
      <4>1. Below(a, b) /\ Below(b, c) => Below(a, c)
        BY <2>1, BelowIsStrict
      <4> QED BY <3>1, <3>2, <4>1, SameIsTransparent
    <3> QED BY <2>1, <3>3, CompareVersionsIff
  <2> QED BY <2>2, <2>3 DEF IsPreorder
<1> QED BY <1>1, AlwaysDrawn, PTL

\* compareTotal is a linear order of all versions that agrees with
\* CompareVersions: the newest of a pool is one version, in whatever order a
\* registry listed the pool.
THEOREM TotalOrderIsLinear == Spec => []IsLinear
<1>1. Drawn => IsLinear
  <2> SUFFICES ASSUME Drawn
               PROVE  IsLinear
    OBVIOUS
  <2>1. /\ a \in ParsedVersion /\ b \in ParsedVersion /\ c \in ParsedVersion
        /\ a.spelling \in Nat /\ b.spelling \in Nat /\ c.spelling \in Nat
    BY DrawnAreVersions DEF ParsedVersion
  <2>2. CompareTotal(a, b) = 0 => a = b
    BY <2>1, CompareTotalIff, SampleAssumption DEF Drawn
  <2>3. CompareTotal(a, b) < 0 /\ CompareTotal(b, c) < 0 => CompareTotal(a, c) < 0
    <3> SUFFICES ASSUME CompareTotal(a, b) < 0, CompareTotal(b, c) < 0
                 PROVE  CompareTotal(a, c) < 0
      OBVIOUS
    <3>1. Below(a, b) \/ (Same(a, b) /\ a.spelling < b.spelling)
      BY <2>1, CompareTotalIff
    <3>2. Below(b, c) \/ (Same(b, c) /\ b.spelling < c.spelling)
      BY <2>1, CompareTotalIff
    <3>3. Below(a, b) /\ Below(b, c) => Below(a, c)
      BY <2>1, BelowIsStrict
    <3>4. Below(a, c) \/ (Same(a, c) /\ a.spelling < c.spelling)
      BY <2>1, <3>1, <3>2, <3>3, SameIsTransparent
    <3> QED BY <2>1, <3>4, CompareTotalIff
  <2>4. CompareVersions(a, b) < 0 => CompareTotal(a, b) < 0
    BY <2>1, CompareVersionsIff, CompareTotalIff
  <2> QED BY <2>2, <2>3, <2>4 DEF IsLinear
<1> QED BY <1>1, AlwaysDrawn, PTL

\* Any pre-release of a release sorts below it and any post-release above,
\* and both compare with every other release as the release does.
THEOREM TailsStay == Spec => []TailsStayBetweenReleases
<1>1. Drawn => TailsStayBetweenReleases
  <2> SUFFICES ASSUME Drawn, a.tail = <<>>, b.tail = <<>>,
                      FirstDifference(c.parts, a.parts, 0) = <<>>
               PROVE  /\ IsPrerelease(c) => CompareVersions(c, a) < 0
                      /\ IsPostRelease(c.tail) => CompareVersions(c, a) > 0
                      /\ CompareVersions(a, b) # 0
                           => CompareVersions(c, b) = CompareVersions(a, b)
    BY DEF TailsStayBetweenReleases
  <2>1. /\ a \in ParsedVersion /\ b \in ParsedVersion /\ c \in ParsedVersion
        /\ a.parts \in Seq(Nat) /\ c.parts \in Seq(Nat) /\ 0 \in Nat
    BY DrawnAreVersions DEF ParsedVersion
  <2>2. PartsOf(c) = PartsOf(a)
    BY <2>1, FirstDifferenceTells DEF PartsOf
  <2>3. TailClass(a.tail) = 0
    BY DEF TailClass
  <2>4. IsPrerelease(c) => CompareVersions(c, a) < 0
    <3> SUFFICES ASSUME IsPrerelease(c)
                 PROVE  CompareVersions(c, a) < 0
      OBVIOUS
    <3>1. TailClass(c.tail) = -1
      BY DEF IsPrerelease, TailClass
    <3>2. Below(c, a)
      BY <2>2, <2>3, <3>1 DEF Below, TailBelow
    <3> QED BY <2>1, <3>2, CompareVersionsIff
  <2>5. IsPostRelease(c.tail) => CompareVersions(c, a) > 0
    <3> SUFFICES ASSUME IsPostRelease(c.tail)
                 PROVE  CompareVersions(c, a) > 0
      OBVIOUS
    <3>1. TailClass(c.tail) = 1
      BY DEF IsPostRelease, TailClass
    <3>2. Below(a, c)
      BY <2>2, <2>3, <3>1 DEF Below, TailBelow
    <3> QED BY <2>1, <3>2, CompareVersionsIff
  <2>6. ASSUME CompareVersions(a, b) # 0
        PROVE  CompareVersions(c, b) = CompareVersions(a, b)
    <3>1. PartsBelow(a, b) \/ PartsBelow(b, a)
      <4>1. PartsOf(a) # PartsOf(b)
        BY <2>1, <2>6, PartsDecide, CompareVersionsIff
      <4> QED BY <2>1, <4>1, PartsBelowIsStrict
    <3>2. /\ PartsBelow(a, b) <=> PartsBelow(c, b)
          /\ PartsBelow(b, a) <=> PartsBelow(b, c)
      BY <2>2 DEF PartsBelow
    <3>3. CASE PartsBelow(a, b)
      <4>1. Below(a, b) /\ Below(c, b)
        BY <3>2, <3>3 DEF Below
      <4> QED BY <2>1, <4>1, CompareVersionsIff
    <3>4. CASE PartsBelow(b, a)
      <4>1. Below(b, a) /\ Below(b, c)
        BY <3>2, <3>4 DEF Below
      <4> QED BY <2>1, <4>1, CompareVersionsIff
    <3> QED BY <3>1, <3>3, <3>4
  <2> QED BY <2>4, <2>5, <2>6
<1> QED BY <1>1, AlwaysDrawn, PTL

\* A line is an interval of the versions long enough to be in it: what is
\* outside the line and above its prefix is above every version of the line,
\* and nothing outside lies between two versions of the line.
THEOREM LinesHaveNoHoles == Spec => []LinesAreIntervals
<1>1. Drawn => LinesAreIntervals
  <2> SUFFICES ASSUME Drawn
               PROVE  LinesAreIntervals
    OBVIOUS
  <2>1. /\ a \in ParsedVersion /\ b \in ParsedVersion /\ c \in ParsedVersion
        /\ prefix \in ParsedVersion
    BY DrawnAreVersions
  <2>2. InPrefix(a, prefix) /\ ~ InPrefix(b, prefix)
        /\ Len(b.parts) >= Len(prefix.parts) /\ CompareVersions(b, prefix) > 0
          => CompareVersions(a, b) < 0
    <3> SUFFICES ASSUME InPrefix(a, prefix), ~ InPrefix(b, prefix),
                        Len(b.parts) >= Len(prefix.parts), CompareVersions(b, prefix) > 0
                 PROVE  CompareVersions(a, b) < 0
      OBVIOUS
    <3>1. Below(prefix, b)
      BY <2>1, CompareVersionsIff
    <3>2. Below(a, b)
      BY <2>1, <3>1, PrefixDecides DEF Below
    <3> QED BY <2>1, <3>2, CompareVersionsIff
  <2>3. InPrefix(a, prefix) /\ InPrefix(c, prefix)
        /\ CompareVersions(a, b) <= 0 /\ CompareVersions(b, c) <= 0
        /\ Len(b.parts) >= Len(prefix.parts)
          => InPrefix(b, prefix)
    <3> SUFFICES ASSUME InPrefix(a, prefix), InPrefix(c, prefix),
                        CompareVersions(a, b) <= 0, CompareVersions(b, c) <= 0,
                        Len(b.parts) >= Len(prefix.parts), ~ InPrefix(b, prefix)
                 PROVE  FALSE
      OBVIOUS
    <3>1. ~ Same(a, b) /\ ~ Same(c, b)
      BY <2>1, LinesPart
    <3>2. Below(a, b) /\ Below(b, c)
      BY <2>1, <3>1, CompareVersionsIff DEF Same
    <3>3. PartsBelow(a, b)
      BY <2>1, <3>2, LinesPart
    <3>4. PartsBelow(c, b)
      BY <2>1, <3>3, PrefixDecides
    <3>5. Below(c, b)
      BY <3>4 DEF Below
    <3> QED BY <2>1, <3>2, <3>5, BelowIsStrict
  <2> QED BY <2>2, <2>3 DEF LinesAreIntervals
<1> QED BY <1>1, AlwaysDrawn, PTL

\* Every version is in the line of its own major, and a version that is not
\* higher has no higher major.
THEOREM MajorsFollow == Spec => []MajorsFollowTheOrder
<1>1. Drawn => MajorsFollowTheOrder
  <2> SUFFICES ASSUME Drawn
               PROVE  /\ InPrefix(a, Major(a))
                      /\ CompareVersions(a, b) <= 0
                           => CompareVersions(Major(a), Major(b)) <= 0
    BY DEF MajorsFollowTheOrder, Major
  <2>1. /\ a \in ParsedVersion /\ b \in ParsedVersion /\ IsVersion(a) /\ IsVersion(b)
        /\ Major(a) \in ParsedVersion /\ Major(b) \in ParsedVersion
    BY DrawnAreVersions, MajorTells
  <2>2. InPrefix(a, Major(a))
    BY <2>1, InLineOfMajor
  <2>3. ASSUME CompareVersions(a, b) <= 0
        PROVE  CompareVersions(Major(a), Major(b)) <= 0
    <3>1. ~ Below(b, a)
      BY <2>1, <2>3, CompareVersionsIff
    <3>2. ~ Below(Major(b), Major(a))
      BY <2>1, <3>1, HigherMajor
    <3> QED BY <2>1, <3>2, CompareVersionsIff
  <2> QED BY <2>2, <2>3
<1> QED BY <1>1, AlwaysDrawn, PTL

-----------------------------------------------------------------------------
(* Ranks.                                                                  *)

LowerThan(v, S, R) == {w \in S : <<w, v>> \in R}

\* rank counts, for each element of S, the lower ones.
Counts(rank, S, R) == \A v \in S : rank[v] = Cardinality(LowerThan(v, S, R))

\* How many elements of a finite set are lower than an element ranks it, in
\* any strict order whose ties are alike.
LEMMA RanksRepresent ==
  ASSUME NEW S, IsFiniteSet(S), NEW R,
         \A x \in S : <<x, x>> \notin R,
         \A x, y, z \in S : <<x, y>> \in R /\ <<y, z>> \in R => <<x, z>> \in R,
         \* what ties with one element compares like it
         \A x, y, z \in S : (<<x, y>> \notin R /\ <<y, x>> \notin R)
                              => (<<z, x>> \in R <=> <<z, y>> \in R),
         NEW rank, Counts(rank, S, R),
         NEW x \in S, NEW y \in S
  PROVE  /\ rank[x] \in Int
         /\ rank[x] < rank[y] <=> <<x, y>> \in R
         /\ rank[x] = rank[y] <=> <<x, y>> \notin R /\ <<y, x>> \notin R
<1>1. \A v \in S : IsFiniteSet(LowerThan(v, S, R))
  BY FS_Subset DEF LowerThan
<1>2. \A v \in S : /\ rank[v] = Cardinality(LowerThan(v, S, R))
                   /\ rank[v] \in Int
  BY <1>1, FS_CardinalityType DEF Counts
<1>3. ASSUME NEW u \in S, NEW v \in S, <<u, v>> \in R
      PROVE  rank[u] < rank[v]
  <2>1. LowerThan(u, S, R) \subseteq LowerThan(v, S, R)
    BY <1>3 DEF LowerThan
  <2>2. u \in LowerThan(v, S, R) /\ u \notin LowerThan(u, S, R)
    BY <1>3 DEF LowerThan
  <2>3. /\ Cardinality(LowerThan(u, S, R)) <= Cardinality(LowerThan(v, S, R))
        /\ Cardinality(LowerThan(u, S, R)) # Cardinality(LowerThan(v, S, R))
    BY <1>1, <2>1, <2>2, FS_Subset
  <2> QED BY <1>2, <2>3
<1>4. ASSUME <<x, y>> \notin R, <<y, x>> \notin R
      PROVE  rank[x] = rank[y]
  <2>1. LowerThan(x, S, R) = LowerThan(y, S, R)
    BY <1>4 DEF LowerThan
  <2> QED BY <1>2, <2>1
<1> DEFINE below == <<x, y>> \in R
           above == <<y, x>> \in R
<1>5. /\ below => rank[x] < rank[y]
      /\ above => rank[y] < rank[x]
      /\ ~ below /\ ~ above => rank[x] = rank[y]
  BY <1>3, <1>4
<1>6. rank[x] \in Int /\ rank[y] \in Int
  BY <1>2
<1> HIDE DEF below, above
<1>7. /\ rank[x] < rank[y] <=> below
      /\ rank[x] = rank[y] <=> ~ below /\ ~ above
  BY <1>5, <1>6
<1> QED BY <1>6, <1>7 DEF below, above

\* What Policy assumes of the ranks of opaque versions is true of what
\* regtypes computes from parsed ones: to count the lower versions ranks them
\* as CompareVersions compares them, and to count those compareTotal finds
\* lower ranks them linearly and in agreement with that.
THEOREM RanksAreWhatPolicyAssumes ==
  ASSUME NEW S, S \subseteq ParsedVersion, IsFiniteSet(S),
         \A v, w \in S : v.spelling = w.spelling => v = w,
         NEW v \in S, NEW w \in S
  PROVE  LET rank  == [x \in S |-> Cardinality({y \in S : CompareVersions(y, x) < 0})]
             total == [x \in S |-> Cardinality({y \in S : CompareTotal(y, x) < 0})]
         IN  /\ rank[v] \in Int /\ total[v] \in Int
             /\ rank[v] < rank[w] <=> CompareVersions(v, w) < 0
             /\ rank[v] = rank[w] <=> CompareVersions(v, w) = 0
             /\ total[v] < total[w] <=> CompareTotal(v, w) < 0
             /\ total[v] = total[w] => v = w
             /\ rank[v] < rank[w] => total[v] < total[w]
<1> DEFINE R == {e \in S \X S : CompareVersions(e[1], e[2]) < 0}
           T == {e \in S \X S : CompareTotal(e[1], e[2]) < 0}
           rank  == [x \in S |-> Cardinality({y \in S : CompareVersions(y, x) < 0})]
           total == [x \in S |-> Cardinality({y \in S : CompareTotal(y, x) < 0})]
<1>1. \A x, y \in S : x \in ParsedVersion /\ y \in ParsedVersion
  OBVIOUS
<1>2. \A x, y \in S : (<<x, y>> \in R <=> CompareVersions(x, y) < 0)
                   /\ (<<x, y>> \in T <=> CompareTotal(x, y) < 0)
  OBVIOUS
<1>3. Counts(rank, S, R)
  <2>1. \A x \in S : {y \in S : CompareVersions(y, x) < 0} = LowerThan(x, S, R)
    BY <1>2 DEF LowerThan
  <2> HIDE DEF R
  <2> QED BY <2>1 DEF Counts
<1>4. Counts(total, S, T)
  <2>1. \A x \in S : {y \in S : CompareTotal(y, x) < 0} = LowerThan(x, S, T)
    BY <1>2 DEF LowerThan
  <2> HIDE DEF T
  <2> QED BY <2>1 DEF Counts
<1> HIDE DEF R, T, rank, total
<1>5. \A x, y \in S : (<<x, y>> \in R <=> Below(x, y))
                   /\ (CompareVersions(x, y) = 0 <=> Same(x, y))
  BY <1>2, CompareVersionsIff
<1>6. \A x, y \in S : <<x, y>> \in T <=> Below(x, y) \/ (Same(x, y) /\ x.spelling < y.spelling)
  BY <1>2, CompareTotalIff
<1>7. \A x \in S : x.spelling \in Int
  BY <1>1 DEF ParsedVersion
<1>8. /\ rank[v] \in Int
      /\ rank[v] < rank[w] <=> <<v, w>> \in R
      /\ rank[v] = rank[w] <=> <<v, w>> \notin R /\ <<w, v>> \notin R
  <2>1. \A x \in S : <<x, x>> \notin R
    BY <1>5, BelowIsStrict
  <2>2. \A x, y, z \in S : <<x, y>> \in R /\ <<y, z>> \in R => <<x, z>> \in R
    BY <1>1, <1>5, BelowIsStrict
  <2>3. \A x, y, z \in S : (<<x, y>> \notin R /\ <<y, x>> \notin R)
                             => (<<z, x>> \in R <=> <<z, y>> \in R)
    BY <1>1, <1>5, BelowIsStrict, SameIsTransparent
  <2> QED BY <1>3, <2>1, <2>2, <2>3, RanksRepresent
<1>9. /\ total[v] \in Int
      /\ total[v] < total[w] <=> <<v, w>> \in T
      /\ total[v] = total[w] <=> <<v, w>> \notin T /\ <<w, v>> \notin T
  <2>1. \A x \in S : <<x, x>> \notin T
    BY <1>6, <1>7, BelowIsStrict
  <2>2. ASSUME NEW x \in S, NEW y \in S, NEW z \in S, <<x, y>> \in T, <<y, z>> \in T
        PROVE  <<x, z>> \in T
    <3>1. Below(x, y) /\ Below(y, z) => Below(x, z)
      BY <1>1, BelowIsStrict
    <3> QED BY <1>6, <1>7, <2>2, <3>1, SameIsTransparent
  <2>3. ASSUME NEW x \in S, NEW y \in S, <<x, y>> \notin T, <<y, x>> \notin T
        PROVE  x = y
    <3>1. Same(x, y)
      BY <1>1, <1>6, <2>3, BelowIsStrict
    <3>2. Same(y, x)
      BY <3>1, SameIsTransparent
    <3>3. x.spelling = y.spelling
      BY <1>6, <1>7, <2>3, <3>1, <3>2
    <3> QED BY <3>3
  <2>4. \A x, y, z \in S : (<<x, y>> \notin T /\ <<y, x>> \notin T)
                             => (<<z, x>> \in T <=> <<z, y>> \in T)
    BY <2>3
  <2> QED BY <1>4, <2>1, <2>2, <2>4, RanksRepresent
<1>10. total[v] = total[w] => v = w
  <2> SUFFICES ASSUME <<v, w>> \notin T, <<w, v>> \notin T
               PROVE  v = w
    BY <1>9
  <2>1. Same(v, w)
    BY <1>1, <1>6, BelowIsStrict
  <2>2. Same(w, v)
    BY <2>1, SameIsTransparent
  <2>3. v.spelling = w.spelling
    BY <1>6, <1>7, <2>1, <2>2
  <2> QED BY <2>3
<1>11. rank[v] < rank[w] => total[v] < total[w]
  BY <1>5, <1>6, <1>8, <1>9
<1>12. rank[v] = rank[w] <=> CompareVersions(v, w) = 0
  <2>1. Same(v, w) <=> ~ Below(v, w) /\ ~ Below(w, v)
    BY <1>1, BelowIsStrict, SameIsTransparent
  <2> QED BY <1>5, <1>8, <2>1
<1> QED BY <1>2, <1>8, <1>9, <1>10, <1>11, <1>12 DEF rank, total

\* What the proofs of the register assume of majors is true of MajorOf and
\* InPrefix: a version is in the line of its major, which has one part, and
\* two majors that compare as equal are one.
THEOREM MajorsAreWhatPolicyAssumes ==
  ASSUME NEW v \in ParsedVersion, IsVersion(v), NEW w \in ParsedVersion, IsVersion(w)
  PROVE  /\ InPrefix(v, Major(v))
         /\ Len(MajorOf(v)) = 1
         /\ CompareVersions(Major(v), Major(w)) = 0 => MajorOf(v) = MajorOf(w)
<1>1. /\ Major(v) \in ParsedVersion /\ Major(w) \in ParsedVersion
      /\ MajorOf(v) = <<v.parts[1]>> /\ MajorOf(w) = <<w.parts[1]>>
      /\ 1 \in Pos
  <2>1. Major(v).parts = MajorOf(v) /\ Major(w).parts = MajorOf(w)
    BY DEF Major, ParsedVersion
  <2>2. Major(v) \in ParsedVersion /\ Major(v).parts = <<v.parts[1]>>
    BY MajorTells
  <2>3. Major(w) \in ParsedVersion /\ Major(w).parts = <<w.parts[1]>>
    BY MajorTells
  <2>4. 1 \in Pos
    BY DEF Pos
  <2> QED BY <2>1, <2>2, <2>3, <2>4
<1>2. InPrefix(v, Major(v))
  BY InLineOfMajor
<1>3. ASSUME CompareVersions(Major(v), Major(w)) = 0
      PROVE  MajorOf(v) = MajorOf(w)
  <2>1. Same(Major(v), Major(w))
    BY <1>1, <1>3, CompareVersionsIff
  <2>2. PartsOf(Major(v))[1] = PartsOf(Major(w))[1]
    BY <2>1 DEF Same
  <2>3. PartsOf(Major(v))[1] = v.parts[1] /\ PartsOf(Major(w))[1] = w.parts[1]
    BY <1>1, MajorTells
  <2> QED BY <1>1, <2>2, <2>3
<1> QED BY <1>1, <1>2, <1>3

-----------------------------------------------------------------------------
(* The events of a range.  They are sorted by a stable sort, which is the  *)
(* order of the places that counting gives the events, and then walked.    *)
(* What the walk computes has a closed form, an opening event with no      *)
(* closing one behind it; the order turns that into what the schema says.  *)

Tied(e, f) ==
  /\ e.version = Origin <=> f.version = Origin
  /\ Same(e.version, f.version)
  /\ e.kind = "introduced" <=> f.kind = "introduced"

LEMMA EarlierTells ==
  ASSUME NEW e \in Event, NEW f \in Event
  PROVE  Earlier(e, f) <=>
           \/ e.version = Origin /\ f.version # Origin
           \/ /\ e.version = Origin <=> f.version = Origin
              /\ \/ Below(e.version, f.version)
                 \/ /\ Same(e.version, f.version)
                    /\ e.kind = "introduced" /\ f.kind # "introduced"
<1>1. e.version \in ParsedVersion /\ f.version \in ParsedVersion
  BY DEF Event
<1>2. /\ CompareVersions(e.version, f.version) < 0 <=> Below(e.version, f.version)
      /\ CompareVersions(e.version, f.version) = 0 <=> Same(e.version, f.version)
  BY <1>1, CompareVersionsIff
<1> QED BY <1>2, Zenon DEF Earlier

\* Either event is earlier, or they tie.
LEMMA EarlierIsTotal ==
  ASSUME NEW e \in Event, NEW f \in Event
  PROVE  /\ ~ Earlier(e, e)
         /\ ~ (Earlier(e, f) /\ Earlier(f, e))
         /\ Earlier(e, f) \/ Earlier(f, e) \/ Tied(e, f)
         /\ Tied(e, f) => ~ Earlier(e, f) /\ ~ Earlier(f, e)
<1>1. e.version \in ParsedVersion /\ f.version \in ParsedVersion
  BY DEF Event
<1>2. /\ ~ Below(e.version, e.version)
      /\ ~ (Below(e.version, f.version) /\ Below(f.version, e.version))
      /\ Below(e.version, f.version) \/ Below(f.version, e.version) \/ Same(e.version, f.version)
  BY <1>1, BelowIsStrict, SameIsTransparent
<1>3. Same(e.version, f.version) => Same(f.version, e.version) /\ ~ Below(e.version, f.version) /\ ~ Below(f.version, e.version)
  BY <1>2, SameIsTransparent
<1>4. /\ Same(e.version, e.version)
      /\ Same(f.version, e.version) => Same(e.version, f.version)
  BY SameIsTransparent DEF Same
<1> QED BY <1>2, <1>3, <1>4, EarlierTells, Zenon DEF Tied

LEMMA EarlierIsTransitive ==
  ASSUME NEW e \in Event, NEW f \in Event, NEW g \in Event
  PROVE  /\ Earlier(e, f) /\ Earlier(f, g) => Earlier(e, g)
         /\ Earlier(e, f) /\ Tied(f, g) => Earlier(e, g)
         /\ Tied(e, f) /\ Earlier(f, g) => Earlier(e, g)
         /\ Tied(e, f) /\ Tied(f, g) => Tied(e, g)
<1>1. e.version \in ParsedVersion /\ f.version \in ParsedVersion /\ g.version \in ParsedVersion
  BY DEF Event
<1> DEFINE u == e.version
           v == f.version
           w == g.version
<1>2. Below(u, v) /\ Below(v, w) => Below(u, w)
  BY <1>1, BelowIsStrict
<1>3. Same(u, v) => (Below(u, w) <=> Below(v, w)) /\ (Same(u, w) <=> Same(v, w))
  BY SameIsTransparent
<1>4. Same(v, w) => (Below(u, v) <=> Below(u, w)) /\ (Same(u, v) <=> Same(u, w))
  BY DEF Same, Below, PartsBelow
<1>5. Earlier(e, f) /\ Earlier(f, g) => Earlier(e, g)
  BY <1>2, <1>3, <1>4, EarlierTells
<1>6. Earlier(e, f) /\ Tied(f, g) => Earlier(e, g)
  BY <1>4, EarlierTells DEF Tied
<1>7. Tied(e, f) /\ Earlier(f, g) => Earlier(e, g)
  BY <1>3, EarlierTells DEF Tied
<1>8. Tied(e, f) /\ Tied(f, g) => Tied(e, g)
  BY <1>3 DEF Tied
<1> QED BY <1>5, <1>6, <1>7, <1>8

\* The order of the sort is strict and total on the positions.
LEMMA PrecedesIsStrict ==
  ASSUME NEW s \in Seq(Event),
         NEW i \in DOMAIN s, NEW j \in DOMAIN s, NEW k \in DOMAIN s
  PROVE  /\ ~ Precedes(s, i, i)
         /\ Precedes(s, i, j) /\ Precedes(s, j, k) => Precedes(s, i, k)
         /\ Precedes(s, i, j) \/ i = j \/ Precedes(s, j, i)
<1>1. s[i] \in Event /\ s[j] \in Event /\ s[k] \in Event /\ i \in Nat /\ j \in Nat /\ k \in Nat
  OBVIOUS
<1>2. ASSUME NEW m \in DOMAIN s, NEW n \in DOMAIN s
      PROVE  /\ Precedes(s, m, n) <=> Earlier(s[m], s[n]) \/ (Tied(s[m], s[n]) /\ m < n)
             /\ Earlier(s[m], s[n]) \/ Earlier(s[n], s[m]) \/ (Tied(s[m], s[n]) /\ Tied(s[n], s[m]))
  <2>1. s[m] \in Event /\ s[n] \in Event
    OBVIOUS
  <2>2. Tied(s[m], s[n]) => Tied(s[n], s[m])
    BY SameIsTransparent DEF Tied
  <2>3. m = n => Tied(s[m], s[n])
    BY DEF Tied, Same
  <2>4. m < n \/ m = n \/ n < m
    OBVIOUS
  <2>5. ~ (m < n /\ n < m) /\ ~ (m = n /\ m < n) /\ ~ (m = n /\ n < m)
    OBVIOUS
  <2> QED BY <2>1, <2>2, <2>3, <2>4, <2>5, EarlierIsTotal, Zenon DEF Precedes
<1>3. ~ Precedes(s, i, i)
  BY <1>1, <1>2, EarlierIsTotal
<1>4. Precedes(s, i, j) /\ Precedes(s, j, k) => Precedes(s, i, k)
  <2>1. /\ Precedes(s, i, j) <=> Earlier(s[i], s[j]) \/ (Tied(s[i], s[j]) /\ i < j)
        /\ Precedes(s, j, k) <=> Earlier(s[j], s[k]) \/ (Tied(s[j], s[k]) /\ j < k)
        /\ Precedes(s, i, k) <=> Earlier(s[i], s[k]) \/ (Tied(s[i], s[k]) /\ i < k)
    BY <1>2
  <2>2. i < j /\ j < k => i < k
    BY <1>1
  <2>3. /\ Earlier(s[i], s[j]) /\ Earlier(s[j], s[k]) => Earlier(s[i], s[k])
        /\ Earlier(s[i], s[j]) /\ Tied(s[j], s[k]) => Earlier(s[i], s[k])
        /\ Tied(s[i], s[j]) /\ Earlier(s[j], s[k]) => Earlier(s[i], s[k])
        /\ Tied(s[i], s[j]) /\ Tied(s[j], s[k]) => Tied(s[i], s[k])
    BY <1>1, EarlierIsTransitive
  <2> QED BY <2>1, <2>2, <2>3, Zenon
<1>5. Precedes(s, i, j) \/ i = j \/ Precedes(s, j, i)
  <2>1. i < j \/ i = j \/ j < i
    BY <1>1
  <2> QED BY <1>2, <2>1
<1> QED BY <1>3, <1>4, <1>5

Kept(s) == {i \in DOMAIN s : s[i].kind # "limit"}

PlaceOf(s) == [i \in Kept(s) |-> 1 + Cardinality({j \in Kept(s) : Precedes(s, j, i)})]

LEMMA KeptIsFinite ==
  ASSUME NEW s \in Seq(Event)
  PROVE  /\ Kept(s) \subseteq DOMAIN s
         /\ IsFiniteSet(Kept(s))
         /\ Cardinality(Kept(s)) \in Nat
<1>1. Kept(s) \subseteq 1..Len(s) /\ Kept(s) \subseteq DOMAIN s
  BY DEF Kept
<1>2. IsFiniteSet(1..Len(s))
  BY FS_Interval
<1>3. IsFiniteSet(Kept(s))
  BY <1>1, <1>2, FS_Subset
<1> QED BY <1>1, <1>3, FS_CardinalityType

\* The places of the kept events are 1 to their number, in their order.
LEMMA PlacesAreABijection ==
  ASSUME NEW s \in Seq(Event)
  PROVE  /\ PlaceOf(s) \in [Kept(s) -> 1..Cardinality(Kept(s))]
         /\ \A i, j \in Kept(s) : PlaceOf(s)[i] < PlaceOf(s)[j] <=> Precedes(s, i, j)
         /\ \A i, j \in Kept(s) : PlaceOf(s)[i] = PlaceOf(s)[j] => i = j
         /\ \A n \in 1..Cardinality(Kept(s)) : \E i \in Kept(s) : PlaceOf(s)[i] = n
<1> DEFINE K == Kept(s)
           R == {e \in K \X K : Precedes(s, e[1], e[2])}
           rank == [i \in K |-> Cardinality({j \in K : Precedes(s, j, i)})]
           place == PlaceOf(s)
           N == Cardinality(K)
<1>1. K \subseteq DOMAIN s /\ IsFiniteSet(K) /\ N \in Nat
  BY KeptIsFinite
<1>2. \A i, j \in K : <<i, j>> \in R <=> Precedes(s, i, j)
  OBVIOUS
<1>3. \A i \in K : {j \in K : Precedes(s, j, i)} = LowerThan(i, K, R)
  BY <1>2 DEF LowerThan
<1>4. \A i \in K : place[i] = 1 + rank[i]
  BY DEF PlaceOf
<1>5. place \in [K -> {place[i] : i \in K}]
  BY DEF PlaceOf
<1>6. Counts(rank, K, R)
  <2> HIDE DEF R
  <2> QED BY <1>3 DEF Counts
<1> HIDE DEF K, R, rank, place
<1>7. /\ \A i \in K : <<i, i>> \notin R
      /\ \A i, j, k \in K : <<i, j>> \in R /\ <<j, k>> \in R => <<i, k>> \in R
      /\ \A i, j \in K : <<i, j>> \in R \/ i = j \/ <<j, i>> \in R
  BY <1>1, <1>2, PrecedesIsStrict
<1>8. ASSUME NEW i \in K, NEW j \in K
      PROVE  /\ rank[i] \in Int
             /\ rank[i] < rank[j] <=> <<i, j>> \in R
             /\ rank[i] = rank[j] <=> <<i, j>> \notin R /\ <<j, i>> \notin R
  BY <1>1, <1>6, <1>7, RanksRepresent
<1>9. ASSUME NEW i \in K, NEW j \in K
      PROVE  /\ place[i] < place[j] <=> Precedes(s, i, j)
             /\ place[i] = place[j] => i = j
  <2>1. rank[i] \in Int /\ rank[j] \in Int
    BY <1>8
  <2>2. place[i] = 1 + rank[i] /\ place[j] = 1 + rank[j]
    BY <1>4
  <2>3. /\ place[i] < place[j] <=> rank[i] < rank[j]
        /\ place[i] = place[j] <=> rank[i] = rank[j]
    BY <2>1, <2>2
  <2> QED BY <1>2, <1>7, <1>8, <2>3
<1>10. \A i \in K : place[i] \in 1..N
  <2> TAKE i \in K
  <2>1. LowerThan(i, K, R) \subseteq K \ {i}
    BY <1>7 DEF LowerThan
  <2>2. IsFiniteSet(K \ {i}) /\ Cardinality(K \ {i}) = N - 1
    BY <1>1, FS_RemoveElement
  <2>3. /\ IsFiniteSet(LowerThan(i, K, R))
        /\ Cardinality(LowerThan(i, K, R)) <= N - 1
    BY <2>1, <2>2, FS_Subset
  <2>4. Cardinality(LowerThan(i, K, R)) \in Nat
    BY <2>3, FS_CardinalityType
  <2>5. rank[i] = Cardinality(LowerThan(i, K, R))
    BY <1>6 DEF Counts
  <2> HIDE DEF N
  <2> QED BY <1>1, <1>4, <2>3, <2>4, <2>5
<1>11. place \in [K -> 1..N]
  BY <1>5, <1>10
<1>12. \A n \in 1..N : \E i \in K : place[i] = n
  <2>1. place \in Injection(K, 1..N)
    BY <1>9, <1>11 DEF Injection, IsInjective
  <2>2. IsFiniteSet(1..N) /\ Cardinality(1..N) = N
    BY <1>1, FS_Interval
  <2>3. Cardinality(K) = Cardinality(1..N)
    BY <2>2
  <2> HIDE DEF N
  <2>4. place \in Surjection(K, 1..N)
    BY <2>1, <2>2, <2>3, FS_Injection
  <2> QED BY <2>4 DEF Surjection
<1> QED BY <1>9, <1>11, <1>12 DEF K, place

\* The sorted sequence holds the kept events, each at its place.
LEMMA SortedTells ==
  ASSUME NEW s \in Seq(Event)
  PROVE  /\ SortedEvents(s) \in Seq(Event)
         /\ Len(SortedEvents(s)) = Cardinality(Kept(s))
         /\ \A i \in Kept(s) : SortedEvents(s)[PlaceOf(s)[i]] = s[i]
<1> DEFINE K == Kept(s)
           N == Cardinality(K)
           place == PlaceOf(s)
           at == [n \in 1..N |-> CHOOSE i \in K : place[i] = n]
           t == SortedEvents(s)
<1>1. N \in Nat /\ K \subseteq DOMAIN s
  BY KeptIsFinite
<1>2. t = [n \in 1..N |-> s[at[n]]]
  BY DEF SortedEvents, PlaceOf, Kept
<1>3. /\ place \in [K -> 1..N]
      /\ \A i, j \in K : place[i] = place[j] => i = j
      /\ \A n \in 1..N : \E i \in K : place[i] = n
  BY PlacesAreABijection
<1>4. \A n \in 1..N : at[n] = CHOOSE i \in K : place[i] = n
  OBVIOUS
<1> HIDE DEF K, N, place, at, t
<1>5. ASSUME NEW n \in 1..N
      PROVE  at[n] \in K /\ place[at[n]] = n
  BY <1>3, <1>4
<1>6. t \in [1..N -> Event]
  <2>1. \A n \in 1..N : s[at[n]] \in Event
    BY <1>1, <1>5
  <2> QED BY <1>2, <2>1
<1>7. t \in Seq(Event) /\ Len(t) = N
  BY <1>1, <1>6
<1>8. ASSUME NEW i \in K
      PROVE  t[place[i]] = s[i]
  <2>1. place[i] \in 1..N
    BY <1>3
  <2>2. at[place[i]] = i
    BY <1>3, <1>5, <2>1
  <2> QED BY <1>2, <2>1, <2>2
<1> QED BY <1>7, <1>8 DEF K, N, place, t

Opens(v, e)  == e.kind = "introduced" /\ (e.version = Origin \/ CompareVersions(e.version, v) <= 0)

Closes(v, e) == \/ e.kind = "fixed" /\ CompareVersions(e.version, v) <= 0
                \/ e.kind = "last-affected" /\ CompareVersions(e.version, v) < 0

LEMMA CompareAgainst ==
  ASSUME NEW v \in ParsedVersion, NEW w \in ParsedVersion
  PROVE  /\ CompareVersions(v, w) >= 0 <=> CompareVersions(w, v) <= 0
         /\ CompareVersions(v, w) < 0 <=> ~ (CompareVersions(w, v) <= 0)
         /\ CompareVersions(v, w) <= 0 <=> ~ (CompareVersions(w, v) < 0)
<1>1. /\ CompareVersions(v, w) \in {-1, 0, 1} /\ CompareVersions(w, v) \in {-1, 0, 1}
      /\ CompareVersions(v, w) < 0 <=> CompareVersions(w, v) > 0
      /\ CompareVersions(v, w) > 0 <=> CompareVersions(w, v) < 0
  BY CompareVersionsIff
<1> QED BY <1>1

\* One step of the walk: an opening event opens, a closing one closes.
LEMMA WalkTells ==
  ASSUME NEW v \in ParsedVersion, NEW e \in Event, e.kind # "limit", NEW before \in BOOLEAN
  PROVE  Walk(v, before, e) <=> Opens(v, e) \/ (before /\ ~ Closes(v, e))
<1>1. e.version \in ParsedVersion /\ e.kind \in {"introduced", "fixed", "last-affected"}
  BY DEF Event
<1>2. /\ CompareVersions(v, e.version) >= 0 <=> CompareVersions(e.version, v) <= 0
      /\ CompareVersions(v, e.version) < 0 <=> ~ (CompareVersions(e.version, v) <= 0)
      /\ CompareVersions(v, e.version) <= 0 <=> ~ (CompareVersions(e.version, v) < 0)
  BY <1>1, CompareAgainst
<1>3. CASE e.kind = "introduced"
  <2>1. Walk(v, before, e) <=> before \/ e.version = Origin \/ CompareVersions(v, e.version) >= 0
    BY <1>3, Zenon DEF Walk
  <2>2. ~ Closes(v, e)
    BY <1>3 DEF Closes
  <2> QED BY <1>2, <1>3, <2>1, <2>2, Zenon DEF Opens
<1>4. CASE e.kind = "fixed"
  <2>1. "fixed" # "introduced" /\ "fixed" # "last-affected"
    OBVIOUS
  <2>2. Walk(v, before, e) <=> before /\ CompareVersions(v, e.version) < 0
    BY <1>4, <2>1 DEF Walk
  <2> QED BY <1>2, <1>4, <2>1, <2>2, Zenon DEF Opens, Closes
<1>5. CASE e.kind = "last-affected"
  <2>1. "last-affected" # "introduced" /\ "last-affected" # "fixed"
    OBVIOUS
  <2>2. Walk(v, before, e) <=> before /\ CompareVersions(v, e.version) <= 0
    BY <1>5, <2>1 DEF Walk
  <2> QED BY <1>2, <1>5, <2>1, <2>2, Zenon DEF Opens, Closes
<1> QED BY <1>1, <1>3, <1>4, <1>5

\* Where the walk is inside, in closed form: behind an opening event with no
\* closing event since.
Behind(v, s, n) == \E m \in 1..n : /\ Opens(v, s[m])
                                  /\ \A k \in 1..n : m < k => ~ Closes(v, s[k])

LEMMA BehindSteps ==
  ASSUME NEW v, NEW s, NEW n \in Nat
  PROVE  /\ ~ Behind(v, s, 0)
         /\ Behind(v, s, n + 1) <=> \/ Opens(v, s[n + 1])
                                    \/ Behind(v, s, n) /\ ~ Closes(v, s[n + 1])
<1>1. ~ Behind(v, s, 0)
  BY DEF Behind
<1> DEFINE opens(m) == Opens(v, s[m])
           closes(m) == Closes(v, s[m])
<1>2. Behind(v, s, n) <=> \E m \in 1..n : opens(m) /\ \A k \in 1..n : m < k => ~ closes(k)
  BY DEF Behind
<1>3. Behind(v, s, n + 1) <=> \E m \in 1..(n + 1) : opens(m) /\ \A k \in 1..(n + 1) : m < k => ~ closes(k)
  BY DEF Behind
<1> HIDE DEF opens, closes
<1>4. 1..(n + 1) = 1..n \cup {n + 1} /\ \A k \in 1..n : k < n + 1 /\ ~ (n + 1 < k)
  OBVIOUS
<1>5. ASSUME opens(n + 1)
      PROVE  Behind(v, s, n + 1)
  <2>1. \A k \in 1..(n + 1) : ~ (n + 1 < k)
    OBVIOUS
  <2> QED BY <1>3, <1>4, <1>5, <2>1
<1>6. ASSUME Behind(v, s, n), ~ closes(n + 1)
      PROVE  Behind(v, s, n + 1)
  <2>1. PICK m \in 1..n : opens(m) /\ \A k \in 1..n : m < k => ~ closes(k)
    BY <1>2, <1>6
  <2>2. \A k \in 1..(n + 1) : m < k => ~ closes(k)
    BY <1>4, <1>6, <2>1
  <2> QED BY <1>3, <1>4, <2>1, <2>2
<1>7. ASSUME Behind(v, s, n + 1), ~ opens(n + 1)
      PROVE  Behind(v, s, n) /\ ~ closes(n + 1)
  <2>1. PICK m \in 1..(n + 1) : opens(m) /\ \A k \in 1..(n + 1) : m < k => ~ closes(k)
    BY <1>3, <1>7
  <2>2. m \in 1..n /\ m < n + 1
    BY <1>4, <1>7, <2>1
  <2>3. ~ closes(n + 1)
    BY <1>4, <2>1, <2>2
  <2>4. \A k \in 1..n : m < k => ~ closes(k)
    BY <1>4, <2>1
  <2> QED BY <1>2, <2>1, <2>2, <2>3, <2>4
<1>8. Behind(v, s, n + 1) <=> opens(n + 1) \/ (Behind(v, s, n) /\ ~ closes(n + 1))
  BY <1>5, <1>6, <1>7
<1> QED BY <1>1, <1>8 DEF opens, closes

WalkFunction(s, v, f) ==
  f = [n \in 0..Len(s) |-> IF n = 0 THEN FALSE ELSE Walk(v, f[n - 1], s[n])]

\* The closed form is what the recursion of EndsInside computes.  It solves
\* the equation, so that there is a solution to choose, and whatever solves
\* the equation is it: there is no first step at which the two could differ.
LEMMA EndsInsideTells ==
  ASSUME NEW v \in ParsedVersion, NEW s \in Seq(Event), \A n \in 1..Len(s) : s[n].kind # "limit"
  PROVE  EndsInside(s, v) <=> Behind(v, s, Len(s))
<1> DEFINE L == Len(s)
           g == [n \in 0..L |-> Behind(v, s, n)]
           f == CHOOSE h : WalkFunction(s, v, h)
<1>1. L \in Nat
  OBVIOUS
<1>2. EndsInside(s, v) = f[L]
  BY Zenon DEF EndsInside, WalkFunction
<1>3. ASSUME NEW n \in 1..L, NEW before \in BOOLEAN
      PROVE  Walk(v, before, s[n]) <=> Opens(v, s[n]) \/ (before /\ ~ Closes(v, s[n]))
  BY <1>1, WalkTells
<1>4. ASSUME NEW n \in 1..L
      PROVE  Behind(v, s, n) <=> Opens(v, s[n]) \/ (Behind(v, s, n - 1) /\ ~ Closes(v, s[n]))
  <2>1. n - 1 \in Nat /\ (n - 1) + 1 = n
    BY <1>1
  <2> QED BY <2>1, BehindSteps
<1>5. ~ Behind(v, s, 0)
  BY BehindSteps
<1>6. \A n \in 0..L : Behind(v, s, n) \in BOOLEAN
  BY DEF Behind
<1>7. \A n \in 1..L : n \in 0..L /\ n - 1 \in 0..L /\ n # 0
  BY <1>1
<1>8. \A n \in 0..L : n = 0 \/ n \in 1..L
  BY <1>1
<1>9. WalkFunction(s, v, g)
  <2>1. ASSUME NEW n \in 1..L
        PROVE  g[n] = Walk(v, g[n - 1], s[n])
    <3>1. g[n] = Behind(v, s, n) /\ g[n - 1] = Behind(v, s, n - 1)
      BY <1>7
    <3> HIDE DEF g
    <3>2. g[n - 1] \in BOOLEAN /\ g[n] \in BOOLEAN
      BY <1>6, <1>7, <3>1
    <3>3. Walk(v, g[n - 1], s[n]) <=> Opens(v, s[n]) \/ (g[n - 1] /\ ~ Closes(v, s[n]))
      BY <1>3, <3>2
    <3>4. g[n] <=> Opens(v, s[n]) \/ (g[n - 1] /\ ~ Closes(v, s[n]))
      BY <1>4, <3>1
    <3>5. Walk(v, g[n - 1], s[n]) \in BOOLEAN
      BY <3>2 DEF Walk
    <3> QED BY <3>2, <3>3, <3>4, <3>5
  <2>2. 0 \in 0..L /\ g[0] = FALSE
    BY <1>1, <1>5
  <2>3. g = [n \in 0..L |-> g[n]]
    OBVIOUS
  <2> HIDE DEF g
  <2>4. \A n \in 0..L : g[n] = IF n = 0 THEN FALSE ELSE Walk(v, g[n - 1], s[n])
    BY <1>8, <2>1, <2>2
  <2>5. g = [n \in 0..L |-> IF n = 0 THEN FALSE ELSE Walk(v, g[n - 1], s[n])]
    BY <2>3, <2>4, Zenon
  <2> QED BY <2>5 DEF WalkFunction
<1>10. WalkFunction(s, v, f)
  <2> HIDE DEF g
  <2> QED BY <1>9, Zenon
<1>11. /\ 0 \in 0..L /\ f[0] = FALSE
       /\ \A n \in 1..L : f[n] = Walk(v, f[n - 1], s[n])
  <2> HIDE DEF f
  <2>1. \A n \in 0..L : f[n] = IF n = 0 THEN FALSE ELSE Walk(v, f[n - 1], s[n])
    BY <1>10, Zenon DEF WalkFunction
  <2>2. 0 \in 0..L
    BY <1>1
  <2>3. f[0] = FALSE
    BY <2>1, <2>2, Zenon
  <2>4. ASSUME NEW n \in 1..L
        PROVE  f[n] = Walk(v, f[n - 1], s[n])
    <3>1. n \in 0..L /\ n # 0
      BY <1>7
    <3> QED BY <2>1, <3>1, Zenon
  <2> QED BY <2>2, <2>3, <2>4, Zenon
<1> DEFINE D == {n \in 0..L : f[n] # Behind(v, s, n)}
<1> HIDE DEF f, g
<1>12. D = {}
  <2> SUFFICES ASSUME D # {}
               PROVE  FALSE
    OBVIOUS
  <2>1. PICK n \in D : \A k \in D : n <= k
    <3>1. D \subseteq Nat
      BY <1>1
    <3> HIDE DEF D
    <3> QED BY <3>1, FirstOf
  <2>2. n # 0
    <3>1. Behind(v, s, 0) = FALSE
      BY <1>1, <1>5, <1>6
    <3>2. f[n] # Behind(v, s, n)
      BY <2>1
    <3> QED BY <1>11, <3>1, <3>2, Zenon
  <2>3. n \in 1..L /\ n - 1 \in 0..L /\ ~ (n <= n - 1)
    BY <1>1, <1>7, <1>8, <2>2
  <2>4. f[n - 1] = Behind(v, s, n - 1)
    BY <2>1, <2>3
  <2>5. f[n - 1] \in BOOLEAN
    BY <1>6, <2>3, <2>4
  <2>6. f[n] = Walk(v, f[n - 1], s[n])
    BY <1>11, <2>3
  <2>7. Walk(v, f[n - 1], s[n]) \in BOOLEAN
    BY <2>5 DEF Walk
  <2>8. f[n] <=> Opens(v, s[n]) \/ (f[n - 1] /\ ~ Closes(v, s[n]))
    BY <1>3, <2>3, <2>5, <2>6
  <2>9. f[n] <=> Behind(v, s, n)
    BY <1>4, <2>3, <2>4, <2>8
  <2>10. f[n] = Behind(v, s, n)
    BY <1>6, <2>3, <2>6, <2>7, <2>9
  <2> QED BY <2>10
<1>13. f[L] <=> Behind(v, s, L)
  <2>1. L \in 0..L
    BY <1>1
  <2> QED BY <1>12, <2>1
<1> QED BY <1>2, <1>13

\* An event that may close comes before an introduction if, and only if, its
\* version is the lower one.
LEMMA CloserComesBefore ==
  ASSUME NEW s \in Seq(Event), NEW i \in DOMAIN s, NEW j \in DOMAIN s,
         s[i].kind = "introduced", s[j].kind # "introduced"
  PROVE  ~ Precedes(s, i, j) <=> /\ s[i].version # Origin
                                 /\ \/ s[j].version = Origin
                                    \/ CompareVersions(s[j].version, s[i].version) < 0
<1> DEFINE e == s[i]
           f == s[j]
<1>1. e \in Event /\ f \in Event /\ e.version \in ParsedVersion /\ f.version \in ParsedVersion
  <2>1. e \in Event /\ f \in Event
    OBVIOUS
  <2> HIDE DEF e, f
  <2> QED BY <2>1 DEF Event
<1>2. e.kind = "introduced" /\ f.kind # "introduced"
  OBVIOUS
<1>3. Precedes(s, i, j) <=> (i < j /\ ~ Earlier(f, e)) \/ (j < i /\ Earlier(e, f))
  BY DEF Precedes
<1> HIDE DEF e, f
<1>4. CompareVersions(f.version, e.version) < 0 <=> Below(f.version, e.version)
  BY <1>1, CompareVersionsIff
<1>5. /\ Below(f.version, e.version) \/ Below(e.version, f.version) \/ Same(e.version, f.version)
      /\ ~ (Below(f.version, e.version) /\ Below(e.version, f.version))
  BY <1>1, BelowIsStrict, SameIsTransparent
<1>6. Same(e.version, f.version) => ~ Below(f.version, e.version)
  BY <1>1, BelowIsStrict, SameIsTransparent
<1>7. e.version = f.version => Same(e.version, f.version)
  BY DEF Same
<1>8. Earlier(e, f) <=> ~ (e.version # Origin /\ (f.version = Origin \/ Below(f.version, e.version)))
  BY <1>1, <1>2, <1>5, <1>6, <1>7, EarlierTells, Zenon
<1>9. Earlier(e, f) \/ Earlier(f, e)
  <2>1. ~ Tied(e, f)
    BY <1>2 DEF Tied
  <2> QED BY <1>1, <2>1, EarlierIsTotal
<1>10. ~ (Earlier(e, f) /\ Earlier(f, e))
  BY <1>1, EarlierIsTotal
<1>11. Precedes(s, i, j) <=> Earlier(e, f)
  <2>1. i < j \/ j < i
    BY <1>2 DEF e, f
  <2> QED BY <1>3, <1>9, <1>10, <2>1, Zenon
<1> QED BY <1>4, <1>8, <1>11 DEF e, f

\* Whatever the events of a range and the order they were published in, the
\* sort and the walk find a version inside if, and only if, it is at or after
\* an introduction, and every fix at or below it, and every last affected
\* version below it, is below that introduction.
LEMMA WalkFollowsTheSchema ==
  ASSUME NEW v \in ParsedVersion, NEW s \in Seq(Event)
  PROVE  EndsInside(SortedEvents(s), v) <=>
           \E i \in DOMAIN s :
             /\ Opens(v, s[i])
             /\ \A j \in DOMAIN s :
                  Closes(v, s[j]) => /\ s[i].version # Origin
                                     /\ \/ s[j].version = Origin
                                        \/ CompareVersions(s[j].version, s[i].version) < 0
<1> DEFINE K == Kept(s)
           N == Cardinality(K)
           place == PlaceOf(s)
           t == SortedEvents(s)
           before(j, i) == /\ s[i].version # Origin
                           /\ \/ s[j].version = Origin
                              \/ CompareVersions(s[j].version, s[i].version) < 0
<1>1. K \subseteq DOMAIN s /\ N \in Nat
  BY KeptIsFinite
<1>2. /\ place \in [K -> 1..N]
      /\ \A i, j \in K : place[i] < place[j] <=> Precedes(s, i, j)
      /\ \A n \in 1..N : \E i \in K : place[i] = n
  BY PlacesAreABijection
<1>3. /\ t \in Seq(Event) /\ Len(t) = N
      /\ \A i \in K : t[place[i]] = s[i]
  BY SortedTells
<1>4. \A i \in DOMAIN s : i \in K <=> s[i].kind # "limit"
  BY DEF Kept
<1>5. ASSUME NEW i \in DOMAIN s
      PROVE  /\ Opens(v, s[i]) => s[i].kind = "introduced" /\ i \in K
             /\ Closes(v, s[i]) => s[i].kind # "introduced" /\ i \in K
  BY <1>4 DEF Opens, Closes
<1>6. ASSUME NEW i \in DOMAIN s, NEW j \in DOMAIN s, Opens(v, s[i]), Closes(v, s[j])
      PROVE  before(j, i) <=> ~ (place[i] < place[j])
  <2>1. ~ Precedes(s, i, j) <=> before(j, i)
    BY <1>5, <1>6, CloserComesBefore
  <2> QED BY <1>2, <1>5, <1>6, <2>1
<1> HIDE DEF K, N, place, t, before
<1>7. EndsInside(t, v) <=> Behind(v, t, N)
  <2>1. \A n \in 1..N : t[n].kind # "limit"
    <3> TAKE n \in 1..N
    <3>1. PICK i \in K : place[i] = n
      BY <1>2
    <3> QED BY <1>1, <1>3, <1>4, <3>1
  <2> QED BY <1>3, <2>1, EndsInsideTells
<1>8. ASSUME Behind(v, t, N)
      PROVE  \E i \in DOMAIN s : Opens(v, s[i]) /\ \A j \in DOMAIN s : Closes(v, s[j]) => before(j, i)
  <2>1. PICK m \in 1..N : Opens(v, t[m]) /\ \A k \in 1..N : m < k => ~ Closes(v, t[k])
    BY <1>8 DEF Behind
  <2>2. PICK i \in K : place[i] = m
    BY <1>2
  <2>3. i \in DOMAIN s /\ Opens(v, s[i])
    BY <1>1, <1>3, <2>1, <2>2
  <2>4. ASSUME NEW j \in DOMAIN s, Closes(v, s[j])
        PROVE  before(j, i)
    <3>1. j \in K /\ place[j] \in 1..N /\ t[place[j]] = s[j]
      BY <1>2, <1>3, <1>5, <2>4
    <3>2. ~ (place[i] < place[j])
      BY <2>1, <2>2, <2>4, <3>1
    <3> QED BY <1>6, <2>3, <2>4, <3>2
  <2> QED BY <2>3, <2>4
<1>9. ASSUME NEW i \in DOMAIN s, Opens(v, s[i]),
             \A j \in DOMAIN s : Closes(v, s[j]) => before(j, i)
      PROVE  Behind(v, t, N)
  <2>1. i \in K /\ place[i] \in 1..N /\ t[place[i]] = s[i]
    BY <1>2, <1>3, <1>5, <1>9
  <2>2. ASSUME NEW k \in 1..N, place[i] < k
        PROVE  ~ Closes(v, t[k])
    <3>1. PICK j \in K : place[j] = k
      BY <1>2
    <3>2. j \in DOMAIN s /\ t[k] = s[j]
      BY <1>1, <1>3, <3>1
    <3> QED BY <1>6, <1>9, <2>2, <3>1, <3>2
  <2> QED BY <1>9, <2>1, <2>2 DEF Behind
<1>10. Behind(v, t, N) <=>
         \E i \in DOMAIN s : Opens(v, s[i]) /\ \A j \in DOMAIN s : Closes(v, s[j]) => before(j, i)
  BY <1>8, <1>9
<1> QED BY <1>7, <1>10 DEF t, before

-----------------------------------------------------------------------------
(* The samples' ranges.                                                    *)

PublishedInv == Drawn /\ events \in Seq(Event)

LEMMA AlwaysPublished == Spec => []PublishedInv
<1>1. Init => PublishedInv
  BY DEF Init, PublishedInv, Drawn
<1>2. PublishedInv /\ [Next]_vars => PublishedInv'
  <2> SUFFICES ASSUME PublishedInv, [Next]_vars
               PROVE  PublishedInv'
    OBVIOUS
  <2>1. Drawn'
    BY DEF PublishedInv, Drawn, Next, Draw, PublishEvent, Retract, vars
  <2>2. events' \in Seq(Event)
    <3>1. ASSUME NEW e \in EventSample, PublishEvent(e)
          PROVE  events' \in Seq(Event)
      <4>1. e \in Event /\ events \in Seq(Event) /\ events' = Append(events, e)
        BY <3>1, EventAssumption DEF PublishedInv, PublishEvent
      <4> HIDE DEF Event
      <4> QED BY <4>1
    <3>2. CASE Draw \/ Retract \/ UNCHANGED vars
      <4>1. events' = events \/ events' = <<>>
        BY <3>2 DEF Draw, Retract, vars
      <4>2. events \in Seq(Event)
        BY DEF PublishedInv
      <4>3. <<>> \in Seq(Event)
        OBVIOUS
      <4> QED BY <4>1, <4>2, <4>3, Zenon
    <3> QED BY <3>1, <3>2 DEF Next
  <2> QED BY <2>1, <2>2 DEF PublishedInv
<1> QED BY <1>1, <1>2, PTL DEF Spec

\* A range covers what the schema says it covers, for every version and every
\* sequence of events whatever its length and order.
THEOREM RangesFollow == Spec => []RangesFollowTheSchema
<1>1. PublishedInv => RangesFollowTheSchema
  <2> SUFFICES ASSUME PublishedInv
               PROVE  RangesFollowTheSchema
    OBVIOUS
  <2> DEFINE range == [git |-> FALSE, events |-> events]
             limits == {e \in ToSet(events) : e.kind = "limit"}
             allows == limits # {} => \E l \in limits :
                         l.version = Unlimited \/ CompareVersions(a, l.version) < 0
             lower(e, i) == /\ i.version # Origin
                            /\ \/ e.version = Origin
                               \/ CompareVersions(e.version, i.version) < 0
  <2>1. a \in ParsedVersion /\ events \in Seq(Event)
    BY DrawnAreVersions DEF PublishedInv
  <2>2. ToSet(events) = {events[i] : i \in DOMAIN events}
    BY DEF ToSet
  <2>3. BeforeLimits(events, a) <=> allows
    <3>1. {e.version : e \in limits} = {} <=> limits = {}
      OBVIOUS
    <3> QED BY <3>1 DEF BeforeLimits
  <2>4. EndsInside(SortedEvents(events), a) <=>
          \E i \in ToSet(events) : Opens(a, i) /\ \A e \in ToSet(events) : Closes(a, e) => lower(e, i)
    <3>1. EndsInside(SortedEvents(events), a) <=>
            \E i \in DOMAIN events :
              Opens(a, events[i]) /\ \A j \in DOMAIN events :
                                       Closes(a, events[j]) => lower(events[j], events[i])
      BY <2>1, WalkFollowsTheSchema
    <3> HIDE DEF lower
    <3> QED BY <2>2, <3>1, Zenon
  <2>5. CoversVersion([versions |-> {}, ranges |-> {range}], a)
          <=> BeforeLimits(events, a) /\ EndsInside(SortedEvents(events), a)
    <3>1. CoversVersion([versions |-> {}, ranges |-> {range}], a) <=> InRange(range, a)
      BY DEF CoversVersion
    <3>2. range.git = FALSE /\ range.events = events
      OBVIOUS
    <3> HIDE DEF range
    <3> QED BY <3>1, <3>2 DEF InRange
  <2> HIDE DEF limits, lower
  <2>6. CoversVersion([versions |-> {}, ranges |-> {range}], a) <=>
          /\ \E i \in ToSet(events) : Opens(a, i) /\ \A e \in ToSet(events) : Closes(a, e) => lower(e, i)
          /\ allows
    BY <2>3, <2>4, <2>5, Zenon
  <2> QED BY <2>6, Zenon DEF RangesFollowTheSchema, Opens, Closes, limits, lower
<1> QED BY <1>1, AlwaysPublished, PTL

=============================================================================
