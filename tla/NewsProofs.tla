------------------------------ MODULE NewsProofs ------------------------------
(***************************************************************************)
(* Theorems about News, for every set of articles, sources and bounds and  *)
(* every likeness of titles, texts and articles.                           *)
(*                                                                         *)
(* The first part is about the rules: the quality order picks a best       *)
(* article of every finite set, so every pass has exactly one outcome and  *)
(* gives each article it drops a better one it keeps; three passes in a    *)
(* row lead every article to a primary one; what edges reach partitions    *)
(* the articles, and the guard of the chains splits that partition.        *)
(* The second part carries these facts through the checkpoints, between    *)
(* which nothing else runs, and past the writes of the briefing.           *)
(***************************************************************************)
EXTENDS News, LoopProofs

-----------------------------------------------------------------------------
(* Numbers and finite sets                                                  *)

(* Min picks a member.                                                     *)
LEMMA MinIsMember ==
  ASSUME NEW T, T \subseteq Nat, T # {}
  PROVE  Min(T) \in T
<1>1. \E x \in T : \A y \in T : x =< y
  BY LeastNumber
<1> QED
  BY <1>1 DEF Min

LEMMA ArticlesAreCounted ==
  \A S \in SUBSET Articles : IsFiniteSet(S) /\ Cardinality(S) \in Nat
<1> SUFFICES ASSUME NEW S \in SUBSET Articles
             PROVE  IsFiniteSet(S) /\ Cardinality(S) \in Nat
  OBVIOUS
<1>1. IsFiniteSet(Articles)
  BY RulesConstantsOK
<1>2. IsFiniteSet(S)
  BY <1>1, FS_Subset
<1> QED
  BY <1>2, FS_CardinalityType

(* Of the sets of articles that have something in common, if there is one, *)
(* some has the fewest members.                                            *)
LEMMA SmallestSet ==
  ASSUME NEW F, F \subseteq SUBSET Articles, F # {}
  PROVE  \E S \in F : \A T \in F : Cardinality(S) <= Cardinality(T)
<1>1. \A S \in F : IsFiniteSet(S) /\ Cardinality(S) \in Nat
  BY ArticlesAreCounted
<1> DEFINE N == {Cardinality(S) : S \in F}
<1>2. N \subseteq Nat /\ N # {}
  BY <1>1
<1>3. \E n \in N : \A m \in N : n <= m
  <2> HIDE DEF N
  <2> QED
    BY <1>2, LeastNumber
<1> QED
  BY <1>3

(* A set without one of its members is smaller.                            *)
LEMMA Without ==
  ASSUME NEW S \in SUBSET Articles, NEW x \in S, NEW T \in SUBSET (S \ {x})
  PROVE  Cardinality(T) < Cardinality(S)
<1>1. IsFiniteSet(S) /\ Cardinality(S) \in Nat
  BY ArticlesAreCounted
<1>2. IsFiniteSet(S \ {x}) /\ Cardinality(S \ {x}) = Cardinality(S) - 1
  BY <1>1, FS_RemoveElement
<1>3. IsFiniteSet(T) /\ Cardinality(T) <= Cardinality(S \ {x}) /\ Cardinality(T) \in Nat
  BY <1>2, FS_Subset, FS_CardinalityType
<1> QED
  BY <1>1, <1>2, <1>3

-----------------------------------------------------------------------------
(* The quality order                                                        *)

(* The rows the order reads.                                               *)
Readable(r, S) ==
  /\ S \subseteq Articles
  /\ \A a \in S : /\ r[a].source \in Sources
                  /\ r[a].text \in Texts \cup {NoText}
                  /\ r[a].published \in Int

LEMMA KeysAreNumbers ==
  ASSUME NEW r, NEW S, Readable(r, S), NEW a \in S
  PROVE  /\ -Priority[r[a].source] \in Int /\ -Size(r, a) \in Int
         /\ -r[a].published \in Int /\ a \in Int
<1>1. Priority[r[a].source] \in Nat
  BY RulesConstantsOK DEF Readable
<1>2. Size(r, a) \in Nat
  BY RulesConstantsOK DEF Readable, Size
<1>3. r[a].published \in Int /\ a \in Nat
  BY RulesConstantsOK DEF Readable
<1> QED
  BY <1>1, <1>2, <1>3

(* Four numbers are compared from the first to the last.                   *)
LEMMA Lexicographic ==
  ASSUME NEW x1, NEW x2, NEW x3, NEW x4, NEW y1, NEW y2, NEW y3, NEW y4
  PROVE  Precedes(<<x1, x2, x3, x4>>, <<y1, y2, y3, y4>>) <=>
           \/ x1 < y1
           \/ x1 = y1 /\ x2 < y2
           \/ x1 = y1 /\ x2 = y2 /\ x3 < y3
           \/ x1 = y1 /\ x2 = y2 /\ x3 = y3 /\ x4 < y4
<1> DEFINE x == <<x1, x2, x3, x4>>
           y == <<y1, y2, y3, y4>>
<1>1. DOMAIN x = {1, 2, 3, 4}
  OBVIOUS
<1>2. /\ x[1] = x1 /\ x[2] = x2 /\ x[3] = x3 /\ x[4] = x4
      /\ y[1] = y1 /\ y[2] = y2 /\ y[3] = y3 /\ y[4] = y4
  OBVIOUS
<1>3. /\ 1..(1 - 1) = {} /\ 1..(2 - 1) = {1} /\ 1..(3 - 1) = {1, 2} /\ 1..(4 - 1) = {1, 2, 3}
  OBVIOUS
<1> HIDE DEF x, y
<1>4. Precedes(x, y) <=>
        \/ x[1] < y[1] /\ \A j \in 1..(1 - 1) : x[j] = y[j]
        \/ x[2] < y[2] /\ \A j \in 1..(2 - 1) : x[j] = y[j]
        \/ x[3] < y[3] /\ \A j \in 1..(3 - 1) : x[j] = y[j]
        \/ x[4] < y[4] /\ \A j \in 1..(4 - 1) : x[j] = y[j]
  BY <1>1, Zenon DEF Precedes
<1>5. Precedes(x, y) <=>
           \/ x1 < y1
           \/ x1 = y1 /\ x2 < y2
           \/ x1 = y1 /\ x2 = y2 /\ x3 < y3
           \/ x1 = y1 /\ x2 = y2 /\ x3 = y3 /\ x4 < y4
  BY <1>2, <1>3, <1>4
<1> QED
  BY <1>5 DEF x, y

(* The quality order is a strict total order of the articles.              *)
LEMMA QualityIsAnOrder ==
  ASSUME NEW r, NEW S, Readable(r, S)
  PROVE  /\ \A a, b \in S : ~ (Better(r, a, b) /\ Better(r, b, a))
         /\ \A a, b \in S : a # b => Better(r, a, b) \/ Better(r, b, a)
         /\ \A a, b, c \in S : Better(r, a, b) /\ Better(r, b, c) => Better(r, a, c)
<1> DEFINE p(a) == -Priority[r[a].source]
           s(a) == -Size(r, a)
           d(a) == -r[a].published
<1>1. \A a \in S : p(a) \in Int /\ s(a) \in Int /\ d(a) \in Int /\ a \in Int
  BY KeysAreNumbers
<1>2. \A a, b \in S : Better(r, a, b) <=>
        \/ p(a) < p(b)
        \/ p(a) = p(b) /\ s(a) < s(b)
        \/ p(a) = p(b) /\ s(a) = s(b) /\ d(a) < d(b)
        \/ p(a) = p(b) /\ s(a) = s(b) /\ d(a) = d(b) /\ a < b
  <2> TAKE a, b \in S
  <2>1. Better(r, a, b) <=> Precedes(<<p(a), s(a), d(a), a>>, <<p(b), s(b), d(b), b>>)
    BY Zenon DEF Better, QualityKey
  <2> HIDE DEF p, s, d
  <2>2. Precedes(<<p(a), s(a), d(a), a>>, <<p(b), s(b), d(b), b>>) <=>
          \/ p(a) < p(b)
          \/ p(a) = p(b) /\ s(a) < s(b)
          \/ p(a) = p(b) /\ s(a) = s(b) /\ d(a) < d(b)
          \/ p(a) = p(b) /\ s(a) = s(b) /\ d(a) = d(b) /\ a < b
    BY Lexicographic
  <2> QED
    BY <2>1, <2>2
<1> HIDE DEF p, s, d
<1>3. \A a, b \in S : ~ (Better(r, a, b) /\ Better(r, b, a))
  BY <1>1, <1>2
<1>4. \A a, b \in S : a # b => Better(r, a, b) \/ Better(r, b, a)
  BY <1>1, <1>2
<1>5. ASSUME NEW a \in S, NEW b \in S, NEW c \in S, Better(r, a, b), Better(r, b, c)
      PROVE  Better(r, a, c)
  BY <1>1, <1>2, <1>5
<1> QED
  BY <1>3, <1>4, <1>5

(* Best is a member, and better than every other.                          *)
LEMMA BestIsBest ==
  ASSUME NEW r, NEW S, Readable(r, S), S # {}
  PROVE  Best(r, S) \in S /\ \A b \in S \ {Best(r, S)} : Better(r, Best(r, S), b)
<1> DEFINE Has(T) == \E a \in T : \A b \in T \ {a} : Better(r, a, b)
           F == {T \in SUBSET S : T # {} /\ ~ Has(T)}
<1>1. S \subseteq Articles
  BY DEF Readable
<1>2. F = {}
  <2> SUFFICES ASSUME F # {}  PROVE FALSE
    OBVIOUS
  <2>1. F \subseteq SUBSET Articles
    BY <1>1
  <2>2. PICK T \in F : \A U \in F : Cardinality(T) <= Cardinality(U)
    <3> HIDE DEF F
    <3> QED
      BY <2>1, SmallestSet
  <2>3. PICK x \in T : TRUE
    OBVIOUS
  <2>4. T \in SUBSET Articles /\ T \ {x} \in SUBSET (T \ {x}) /\ T \ {x} \in SUBSET Articles
    BY <1>1
  <2>5. Cardinality(T \ {x}) < Cardinality(T)
    BY <2>3, <2>4, Without
  <2>6. Cardinality(T \ {x}) \in Nat /\ Cardinality(T) \in Nat
    BY <2>4, ArticlesAreCounted
  <2>7. T \ {x} \notin F
    <3> HIDE DEF F
    <3> QED
      BY <2>2, <2>5, <2>6
  <2>8. CASE T \ {x} = {}
    BY <2>3, <2>8
  <2>9. CASE Has(T \ {x})
    <3>1. PICK y \in T \ {x} : \A b \in (T \ {x}) \ {y} : Better(r, y, b)
      BY <2>9
    <3>2. x \in S /\ y \in S /\ x # y /\ T \subseteq S
      BY <2>3
    <3>3. Better(r, x, y) \/ Better(r, y, x)
      BY <3>2, QualityIsAnOrder
    <3>4. CASE Better(r, y, x)
      BY <3>1, <3>4
    <3>5. CASE Better(r, x, y)
      <4>1. ASSUME NEW b \in T \ {x}  PROVE Better(r, x, b)
        <5>1. CASE b = y
          BY <3>5, <5>1
        <5>2. CASE b # y
          <6>1. Better(r, y, b) /\ b \in S
            BY <3>1, <3>2, <5>2
          <6> QED
            BY <3>2, <3>5, <6>1, QualityIsAnOrder
        <5> QED
          BY <5>1, <5>2
      <4> QED
        BY <2>3, <4>1
    <3> QED
      BY <3>3, <3>4, <3>5
  <2> QED
    BY <2>7, <2>8, <2>9
<1>3. Has(S)
  BY <1>2
<1> QED
  BY <1>3 DEF Best

-----------------------------------------------------------------------------
(* Duplicates                                                               *)

(* The articles a pass may keep.                                           *)
Outcomes(r, S, same) ==
  {K \in SUBSET S :
     \A a \in S : a \in K <=> \A w \in K : {w, a} \in same => ~ Better(r, w, a)}

(* Every pass has an outcome: the best article is kept, and of the ones    *)
(* that are not the same the outcome of the pass over them.                *)
LEMMA KeptExists ==
  ASSUME NEW r, NEW S, Readable(r, S), NEW same
  PROVE  Outcomes(r, S, same) # {}
<1> DEFINE Is(T, K) == \A a \in T : a \in K <=> \A w \in K : {w, a} \in same => ~ Better(r, w, a)
           F == {T \in SUBSET S : \A K \in SUBSET T : ~ Is(T, K)}
<1>1. S \subseteq Articles
  BY DEF Readable
<1>2. F = {}
  <2> SUFFICES ASSUME F # {}  PROVE FALSE
    OBVIOUS
  <2>1. F \subseteq SUBSET Articles
    BY <1>1
  <2>2. PICK T \in F : \A U \in F : Cardinality(T) <= Cardinality(U)
    <3> HIDE DEF F
    <3> QED
      BY <2>1, SmallestSet
  <2>3. T \subseteq S /\ T # {}
    <3>1. Is({}, {})
      OBVIOUS
    <3> QED
      BY <2>2, <3>1
  <2>4. Readable(r, T)
    BY <2>3 DEF Readable
  <2> DEFINE b == Best(r, T)
             U == {x \in T \ {b} : {b, x} \notin same}
  <2>5. b \in T /\ \A x \in T \ {b} : Better(r, b, x)
    BY <2>3, <2>4, BestIsBest
  <2> HIDE DEF b
  <2>6. Cardinality(U) < Cardinality(T)
    <3>1. T \in SUBSET Articles /\ U \in SUBSET (T \ {b})
      BY <1>1, <2>3
    <3> HIDE DEF U
    <3> QED
      BY <2>5, <3>1, Without
  <2>7. Cardinality(U) \in Nat /\ Cardinality(T) \in Nat
    <3>1. T \in SUBSET Articles /\ U \in SUBSET Articles
      BY <1>1, <2>3
    <3> HIDE DEF U
    <3> QED
      BY <3>1, ArticlesAreCounted
  <2>8. U \notin F
    <3> HIDE DEF F, U
    <3> QED
      BY <2>2, <2>6, <2>7
  <2>9. PICK L \in SUBSET U : Is(U, L)
    BY <2>3, <2>8
  <2> DEFINE K == L \union {b}
  <2>10. K \in SUBSET T
    BY <2>5, <2>9
  <2>11. ASSUME NEW a \in T
         PROVE  a \in K <=> \A w \in K : {w, a} \in same => ~ Better(r, w, a)
    <3>1. CASE a = b
      <4>1. ASSUME NEW w \in K  PROVE ~ Better(r, w, b)
        <5>1. w \in S /\ b \in S /\ (w # b => Better(r, b, w))
          BY <2>3, <2>5, <2>10
        <5> QED
          BY <5>1, QualityIsAnOrder
      <4> QED
        BY <3>1, <4>1
    <3>2. CASE a # b /\ {b, a} \in same
      <4>1. Better(r, b, a) /\ b \in K /\ a \notin U
        BY <2>5, <3>2
      <4> QED
        BY <2>9, <3>2, <4>1
    <3>3. CASE a # b /\ {b, a} \notin same
      <4>1. a \in U
        BY <3>3
      <4>2. a \in L <=> \A w \in L : {w, a} \in same => ~ Better(r, w, a)
        BY <2>9, <4>1
      <4> QED
        BY <3>3, <4>2
    <3> QED
      BY <3>1, <3>2, <3>3
  <2>12. Is(T, K)
    BY <2>11
  <2> QED
    BY <2>2, <2>10, <2>12
<1>3. PICK K \in SUBSET S : Is(S, K)
  <2> HIDE DEF Is
  <2> QED
    BY <1>2
<1>4. K \in Outcomes(r, S, same)
  BY <1>3 DEF Outcomes
<1> QED
  BY <1>4

LEMMA KeptIsKept ==
  ASSUME NEW r, NEW S, Readable(r, S), NEW same
  PROVE  /\ Kept(r, S, same) \subseteq S
         /\ \A a \in S : a \in Kept(r, S, same)
              <=> \A w \in Kept(r, S, same) : {w, a} \in same => ~ Better(r, w, a)
<1>1. Outcomes(r, S, same) # {}
  BY KeptExists
<1>2. Kept(r, S, same) \in Outcomes(r, S, same)
  BY <1>1, Zenon DEF Kept, Outcomes
<1> QED
  BY <1>2 DEF Outcomes

(* A pass keeps some of the primary articles and names, for each one it    *)
(* drops, one it keeps; what earlier passes decided stays.                 *)
LEMMA PassLeadsToKept ==
  ASSUME NEW r, NEW d, Readable(r, d.primary), NEW same
  PROVE  LET e == Pass(r, d, same) IN
         /\ e.primary \subseteq d.primary
         /\ d.of \subseteq e.of
         /\ \A l \in e.of \ d.of : l \in (d.primary \ e.primary) \X e.primary
         /\ \A a \in d.primary \ e.primary : \E w \in e.primary : <<a, w>> \in e.of
<1> DEFINE kept == Kept(r, d.primary, same)
           Winners(a) == {w \in kept : {w, a} \in same /\ Better(r, w, a)}
           e == Pass(r, d, same)
<1>1. /\ e.primary = kept
      /\ e.of = d.of \union {<<a, Best(r, Winners(a))>> : a \in d.primary \ kept}
  BY DEF Pass
<1>2. /\ kept \subseteq d.primary
      /\ \A a \in d.primary : a \notin kept => Winners(a) # {}
  BY KeptIsKept
<1>3. ASSUME NEW a \in d.primary \ kept  PROVE Best(r, Winners(a)) \in kept
  <2>1. Winners(a) # {} /\ Winners(a) \subseteq kept
    BY <1>2
  <2>2. Readable(r, Winners(a))
    BY <1>2, <2>1 DEF Readable
  <2> QED
    BY <2>1, <2>2, BestIsBest
<1> DEFINE winner(a) == Best(r, Winners(a))
<1>4. e.of = d.of \union {<<a, winner(a)>> : a \in d.primary \ kept}
  BY <1>1
<1>5. \A a \in d.primary \ kept : winner(a) \in kept
  BY <1>3
<1> HIDE DEF e, kept, winner
<1> SUFFICES /\ e.primary \subseteq d.primary
             /\ d.of \subseteq e.of
             /\ \A l \in e.of \ d.of : l \in (d.primary \ e.primary) \X e.primary
             /\ \A a \in d.primary \ e.primary : \E w \in e.primary : <<a, w>> \in e.of
  BY DEF e
<1>6. ASSUME NEW l \in e.of \ d.of
      PROVE  l \in (d.primary \ e.primary) \X e.primary
  <2>1. PICK a \in d.primary \ kept : l = <<a, winner(a)>>
    BY <1>4, <1>6
  <2> QED
    BY <1>1, <1>5, <2>1
<1>7. ASSUME NEW a \in d.primary \ e.primary
      PROVE  \E w \in e.primary : <<a, w>> \in e.of
  <2>1. a \in d.primary \ kept /\ e.primary = kept
    BY <1>1, <1>7
  <2>2. winner(a) \in e.primary /\ <<a, winner(a)>> \in e.of
    BY <1>4, <1>5, <2>1
  <2> QED
    BY <2>2
<1> QED
  BY <1>1, <1>2, <1>4, <1>6, <1>7

(* What is closed under the losses of a run.                               *)
Closed(X, of) == \A loss \in of : loss[1] \in X => loss[2] \in X

(* Three passes: the losers are no longer primary, and every set closed    *)
(* under the losses that holds an article holds a primary one.             *)
LEMMA EveryLossLeadsToAPrimary ==
  ASSUME NEW r, NEW S, Readable(r, S)
  PROVE  LET d == Deduplicated(r, S) IN
         /\ d.primary \subseteq S
         /\ d.of \subseteq S \X S
         /\ \A a \in S \ d.primary : \E w \in S : <<a, w>> \in d.of
         /\ \A a \in S : \E w \in d.primary :
              \A X \in SUBSET Articles : a \in X /\ Closed(X, d.of) => w \in X
<1> DEFINE d0 == [primary |-> S, of |-> {}]
           d1 == Pass(r, d0, SameBody(r, S))
           d2 == Pass(r, d1, SameTitle(r, S))
           d3 == Pass(r, d2, NearBody(r, S))
<1>0. Deduplicated(r, S) = d3
  BY DEF Deduplicated
<1>1. d0.primary = S /\ d0.of = {}
  OBVIOUS
<1> HIDE DEF d0
<1> DEFINE Step(d, e) ==
      /\ e.primary \subseteq d.primary
      /\ d.of \subseteq e.of
      /\ \A l \in e.of \ d.of : l \in (d.primary \ e.primary) \X e.primary
      /\ \A a \in d.primary \ e.primary : \E w \in e.primary : <<a, w>> \in e.of
<1>2. Step(d0, d1)
  BY <1>1, PassLeadsToKept
<1> HIDE DEF d1
<1>3. Step(d1, d2)
  <2>1. Readable(r, d1.primary)
    BY <1>1, <1>2 DEF Readable
  <2> QED
    BY <2>1, PassLeadsToKept
<1> HIDE DEF d2
<1>4. Step(d2, d3)
  <2>1. Readable(r, d2.primary)
    BY <1>1, <1>2, <1>3 DEF Readable
  <2> QED
    BY <2>1, PassLeadsToKept
<1> HIDE DEF d3
<1>5. d3.primary \subseteq d2.primary /\ d2.primary \subseteq d1.primary /\ d1.primary \subseteq S
  BY <1>1, <1>2, <1>3, <1>4
<1>6. d3.of \subseteq S \X S
  BY <1>1, <1>2, <1>3, <1>4, <1>5
<1>7. ASSUME NEW a \in S \ d3.primary  PROVE \E w \in S : <<a, w>> \in d3.of
  BY <1>1, <1>2, <1>3, <1>4, <1>5, <1>7
<1>8. \A a \in d2.primary : a \in d3.primary \/ \E w \in d3.primary : <<a, w>> \in d3.of
  BY <1>4
<1>9. \A a \in d1.primary : a \in d2.primary \/ \E w \in d2.primary : <<a, w>> \in d3.of
  BY <1>3, <1>4
<1>10. \A a \in S : a \in d1.primary \/ \E w \in d1.primary : <<a, w>> \in d3.of
  BY <1>1, <1>2, <1>3, <1>4
<1> DEFINE Leads(a, w) == \A X \in SUBSET Articles : a \in X /\ Closed(X, d3.of) => w \in X
<1>11. \A a, w : a = w \/ <<a, w>> \in d3.of => Leads(a, w)
  BY DEF Closed
<1>12. \A a, b, c : Leads(a, b) /\ Leads(b, c) => Leads(a, c)
  OBVIOUS
<1>13. ASSUME NEW a \in S  PROVE \E w \in d3.primary : Leads(a, w)
  <2> HIDE DEF Leads
  <2>1. PICK u \in d1.primary : Leads(a, u)
    BY <1>10, <1>11
  <2>2. PICK v \in d2.primary : Leads(u, v)
    BY <1>9, <1>11
  <2>3. PICK w \in d3.primary : Leads(v, w)
    BY <1>8, <1>11
  <2> QED
    BY <1>12, <2>1, <2>2, <2>3
<1> QED
  BY <1>0, <1>5, <1>6, <1>7, <1>13

-----------------------------------------------------------------------------
(* Events                                                                   *)

(* What edges reach from the articles partitions them.                     *)
LEMMA ReachedPartitions ==
  ASSUME NEW edges, NEW S
  PROVE  /\ \A a \in S : a \in Reached(edges, a, S) /\ Reached(edges, a, S) \subseteq S
         /\ \A a, b \in S : b \in Reached(edges, a, S) =>
              Reached(edges, b, S) = Reached(edges, a, S)
<1> DEFINE R(a) == Reached(edges, a, S)
           Full(X) == \A c \in X, e \in S : {c, e} \in edges => e \in X
<1>1. \A a, b : b \in R(a) <=> b \in S /\ \A X \in SUBSET S : a \in X /\ Full(X) => b \in X
  BY DEF Reached
<1> HIDE DEF R
<1>2. \A a \in S : a \in R(a) /\ R(a) \subseteq S
  BY <1>1
<1>3. \A a \in S : Full(R(a))
  <2> SUFFICES ASSUME NEW a \in S, NEW c \in R(a), NEW e \in S, {c, e} \in edges
               PROVE  e \in R(a)
    OBVIOUS
  <2>1. ASSUME NEW X \in SUBSET S, a \in X, Full(X)  PROVE e \in X
    <3>1. c \in X
      BY <1>1, <2>1
    <3> QED
      BY <2>1, <3>1
  <2> QED
    BY <1>1, <2>1
<1>4. ASSUME NEW a \in S, NEW b \in S, b \in R(a)  PROVE R(b) \subseteq R(a)
  <2>1. R(a) \in SUBSET S /\ b \in R(a) /\ Full(R(a))
    BY <1>2, <1>3, <1>4
  <2> HIDE DEF Full
  <2> QED
    BY <1>1, <2>1
<1>5. ASSUME NEW a \in S, NEW b \in S, b \in R(a)  PROVE a \in R(b)
  <2> SUFFICES ASSUME a \notin R(b)  PROVE FALSE
    OBVIOUS
  <2> DEFINE X == R(a) \ R(b)
  <2>1. X \in SUBSET S /\ a \in X
    BY <1>2
  <2>2. ASSUME NEW c \in X, NEW e \in S, {c, e} \in edges  PROVE e \in X
    <3>1. e \in R(a)
      BY <1>3, <2>2
    <3>2. ASSUME e \in R(b)  PROVE FALSE
      <4>1. {e, c} \in edges /\ c \in S
        <5>1. {e, c} = {c, e}
          OBVIOUS
        <5> QED
          BY <1>2, <2>2, <5>1
      <4>2. c \in R(b)
        BY <1>3, <3>2, <4>1
      <4> QED
        BY <2>2, <4>2
    <3> QED
      BY <3>1, <3>2
  <2>3. Full(X)
    BY <2>2
  <2>4. b \in X
    <3> HIDE DEF X, Full
    <3> QED
      BY <1>1, <1>5, <2>1, <2>3
  <2> QED
    BY <1>2, <2>4
<1>6. \A a, b \in S : b \in R(a) => R(b) = R(a)
  BY <1>4, <1>5
<1> QED
  BY <1>2, <1>6 DEF R

(* The clusters of a set of articles: their members are among the          *)
(* articles, the lead is one of them and the others resemble it; every     *)
(* article is in a cluster, and in no other.                               *)
LEMMA ClustersPartition ==
  ASSUME NEW r, NEW S, Readable(r, S), NEW similar
  PROVE  /\ \A c \in Clusters(r, S, similar) :
              /\ c = [members |-> c.members, lead |-> c.lead]
              /\ c.members \subseteq S /\ c.lead \in c.members
              /\ \A a \in c.members \ {c.lead} : {a, c.lead} \in similar
         /\ \A a \in S : \E c \in Clusters(r, S, similar) : a \in c.members
         /\ \A c, e \in Clusters(r, S, similar), a \in S :
              a \in c.members /\ a \in e.members => c = e
<1> DEFINE edges == Edges(r, similar)
           R(a) == Reached(edges, a, S)
           G(C) == Guarded(r, C, similar)
           All == Clusters(r, S, similar)
           Lead(C) == Best(r, C)
           Held(C) == {a \in C : a = Lead(C) \/ {a, Lead(C)} \in similar}
<1>1. /\ \A a \in S : a \in R(a) /\ R(a) \subseteq S
      /\ \A a, b \in S : b \in R(a) => R(b) = R(a)
  BY ReachedPartitions
<1>2. ASSUME NEW C, C \subseteq S, C # {}
      PROVE  Lead(C) \in C
  <2>1. Readable(r, C)
    BY <1>2 DEF Readable
  <2> QED
    BY <1>2, <2>1, BestIsBest
<1>3. ASSUME NEW C
      PROVE  /\ G(C) = {[members |-> Held(C), lead |-> Lead(C)]}
                         \union {[members |-> {a}, lead |-> a] : a \in C \ Held(C)}
             /\ Held(C) = {a \in C : a = Lead(C) \/ {a, Lead(C)} \in similar}
  BY DEF Guarded
<1>4. \A c : c \in All <=> \E a \in S : c \in G(R(a))
  BY DEF Clusters, Components
<1> HIDE DEF edges, R, G, All, Lead, Held
<1>5. ASSUME NEW C, C \subseteq S, C # {}, NEW c \in G(C)
      PROVE  /\ c = [members |-> c.members, lead |-> c.lead]
             /\ c.members \subseteq C /\ c.lead \in c.members
             /\ \A a \in c.members \ {c.lead} : {a, c.lead} \in similar
  <2>1. CASE c = [members |-> Held(C), lead |-> Lead(C)]
    <3>1. c.members = Held(C) /\ c.lead = Lead(C)
      BY <2>1
    <3>2. Lead(C) \in Held(C) /\ Held(C) \subseteq C
          /\ \A a \in Held(C) \ {Lead(C)} : {a, Lead(C)} \in similar
      BY <1>2, <1>3, <1>5
    <3> QED
      BY <2>1, <3>1, <3>2
  <2>2. ASSUME NEW a \in C \ Held(C), c = [members |-> {a}, lead |-> a]
        PROVE  /\ c = [members |-> c.members, lead |-> c.lead]
               /\ c.members \subseteq C /\ c.lead \in c.members
               /\ \A x \in c.members \ {c.lead} : {x, c.lead} \in similar
    <3>1. c.members = {a} /\ c.lead = a
      BY <2>2
    <3> QED
      BY <2>2, <3>1
  <2> QED
    BY <1>3, <1>5, <2>1, <2>2
<1>6. ASSUME NEW C, NEW a \in C  PROVE \E c \in G(C) : a \in c.members
  <2>1. CASE a \in Held(C)
    <3>1. [members |-> Held(C), lead |-> Lead(C)] \in G(C)
      BY <1>3
    <3> QED
      BY <2>1, <3>1
  <2>2. CASE a \notin Held(C)
    <3>1. [members |-> {a}, lead |-> a] \in G(C)
      BY <1>3, <1>6, <2>2
    <3> QED
      BY <3>1
  <2> QED
    BY <2>1, <2>2
<1>7. ASSUME NEW C, NEW c \in G(C), NEW e \in G(C), NEW a, a \in c.members, a \in e.members
      PROVE  c = e
  <2>1. ASSUME NEW x \in G(C), a \in x.members
        PROVE  x = IF a \in Held(C) THEN [members |-> Held(C), lead |-> Lead(C)]
                   ELSE [members |-> {a}, lead |-> a]
    <3>1. CASE x = [members |-> Held(C), lead |-> Lead(C)]
      <4>1. x.members = Held(C)
        BY <3>1
      <4> QED
        BY <2>1, <3>1, <4>1
    <3>2. ASSUME NEW y \in C \ Held(C), x = [members |-> {y}, lead |-> y]
          PROVE  x = IF a \in Held(C) THEN [members |-> Held(C), lead |-> Lead(C)]
                     ELSE [members |-> {a}, lead |-> a]
      <4>1. x.members = {y}
        BY <3>2
      <4>2. a = y
        BY <2>1, <4>1
      <4> QED
        BY <3>2, <4>2
    <3> QED
      BY <1>3, <2>1, <3>1, <3>2
  <2> QED
    BY <1>7, <2>1
<1>8. \A a \in S : R(a) \subseteq S /\ R(a) # {}
  BY <1>1
<1>9. \A a \in S : \E c \in All : a \in c.members
  BY <1>1, <1>4, <1>6
<1>10. ASSUME NEW c \in All, NEW e \in All, NEW a \in S, a \in c.members, a \in e.members
       PROVE  c = e
  <2>1. PICK x \in S : c \in G(R(x))
    BY <1>4
  <2>2. PICK y \in S : e \in G(R(y))
    BY <1>4
  <2>3. a \in R(x) /\ a \in R(y)
    BY <1>5, <1>8, <1>10, <2>1, <2>2
  <2>4. R(x) = R(y)
    BY <1>1, <2>3
  <2> QED
    BY <1>7, <1>10, <2>1, <2>2, <2>4
<1>11. ASSUME NEW c \in All
       PROVE  /\ c = [members |-> c.members, lead |-> c.lead]
              /\ c.members \subseteq S /\ c.lead \in c.members
              /\ \A a \in c.members \ {c.lead} : {a, c.lead} \in similar
  <2>1. PICK x \in S : c \in G(R(x))
    BY <1>4
  <2>2. /\ c = [members |-> c.members, lead |-> c.lead]
        /\ c.members \subseteq R(x) /\ c.lead \in c.members
        /\ \A a \in c.members \ {c.lead} : {a, c.lead} \in similar
    BY <1>5, <1>8, <2>1
  <2> QED
    BY <1>8, <2>2
<1>12. /\ \A c \in All :
              /\ c = [members |-> c.members, lead |-> c.lead]
              /\ c.members \subseteq S /\ c.lead \in c.members
              /\ \A a \in c.members \ {c.lead} : {a, c.lead} \in similar
       /\ \A a \in S : \E c \in All : a \in c.members
       /\ \A c, e \in All, a \in S : a \in c.members /\ a \in e.members => c = e
  BY <1>9, <1>10, <1>11
<1> QED
  BY <1>12 DEF All

-----------------------------------------------------------------------------
(* The inductive invariant                                                  *)

Stages == {"idle", "collect", "targets", "extract", "filter", "deduplicate", "cluster", "edit"}

RunTypes ==
  [at : Stages, left : Seq(Sources), collected : SUBSET Articles, targets : SUBSET Articles,
   filtered : SUBSET Articles, eligible : SUBSET Articles, primary : SUBSET Articles,
   of : SUBSET (Articles \X Articles), similar : SUBSET SUBSET Articles,
   clusters : SUBSET [key : EventKeys, lead : Articles, members : SUBSET Articles]]

FlowTypes ==
  [at : {"idle", "collect", "extract", "verify"}, left : Seq(Sources),
   collected : SUBSET Articles, targets : SUBSET Articles]

Bounded ==
  /\ today \in Days /\ started \in BOOLEAN
  /\ briefings \in 0..MaxBriefings /\ crashes \in 0..MaxCrashes

(* A row that fits its status.                                             *)
Sound(row) ==
  /\ row.status \in {"eligible", "duplicate"} =>
       (IF row.text = NoText THEN 0 ELSE Length[row.text]) >= MinLength
  /\ row.status = "discovered" => row.text = NoText
  /\ row.status = "duplicate" => row.of # NoArticle

Tabled(T) ==
  /\ T \in [Articles -> RowTypes \cup {NoRow}]
  /\ \A a \in Articles : T[a] # NoRow => Sound(T[a])

Counts == \A k \in EventKeys : events[k] # NoRow => events[k].count \in 1..Cardinality(Articles)

(* The articles the two runs and the lineage speak of have rows.           *)
Existing == {a \in Articles : articles[a] # NoRow}

Held ==
  /\ run \in RunTypes /\ flow \in FlowTypes
  /\ run.collected \cup flow.collected \cup flow.targets \subseteq Existing
  /\ run.targets \subseteq run.collected
  /\ run.at = "extract" => run.targets # {}
  /\ lineage # <<>> => Head(lineage) \subseteq Existing

(* What each checkpoint hands to the next one.                             *)
Parted == run.filtered = run.collected \ run.eligible /\ run.eligible \subseteq run.collected

Checkpointed ==
  /\ run.at = "deduplicate" =>
       Parted /\ \A a \in run.eligible : articles[a].status = "eligible"
  /\ run.at = "cluster" =>
       /\ Parted /\ run.primary \subseteq run.eligible
       /\ \A a \in run.primary : articles[a].status = "eligible"
       /\ \A a \in run.eligible : LostTo(a) \cap run.primary # {}
  /\ EveryArticleIsAccountedFor
  /\ EventsFollowTheEvidence

IInv == Bounded /\ Tabled(articles) /\ Counts /\ Held /\ Checkpointed

-----------------------------------------------------------------------------
(* The rows                                                                 *)

(* A row is not the absence of one.                                        *)
LEMMA RowsDiffer ==
  \A row \in RowTypes : row # NoRow
<1> SUFFICES ASSUME NEW row \in RowTypes  PROVE row # NoRow
  OBVIOUS
<1>1. row.status \in Statuses
  BY DEF RowTypes
<1>2. NoRow.status = "none" /\ "none" \notin Statuses
  BY DEF NoRow, Statuses
<1> QED
  BY <1>1, <1>2

LEMMA CreatedRow ==
  ASSUME NEW s \in Sources, NEW a \in Articles, today \in Days
  PROVE  /\ Created(s, a) \in RowTypes /\ Sound(Created(s, a))
         /\ Created(s, a).event = NoEvent
<1> DEFINE row == Created(s, a)
<1>1. FeedText[a] \in Texts \cup {NoText} /\ FeedDate[a] \in Days \cup {Undated}
  BY NewsConstantsOK
<1>2. /\ row = [status |-> row.status, source |-> row.source, text |-> row.text,
                published |-> row.published, of |-> row.of, event |-> row.event]
      /\ row.status = (IF FeedText[a] = NoText THEN "discovered" ELSE "extracted")
      /\ row.source = s /\ row.text = FeedText[a]
      /\ row.published = (IF FeedDate[a] = Undated THEN today ELSE FeedDate[a])
      /\ row.of = NoArticle /\ row.event = NoEvent
  BY DEF Created
<1> HIDE DEF row
<1>3. row.status \in Statuses /\ row.published \in Days
  BY <1>1, <1>2 DEF Statuses
<1>4. row \in RowTypes
  BY <1>1, <1>2, <1>3 DEF RowTypes
<1>5. Sound(row)
  BY <1>2 DEF Sound
<1> QED
  BY <1>2, <1>4, <1>5 DEF row

(* A row whose status, body, day, duplicate and event change.              *)
Changed(row, status, text, published, of, event) ==
  [status |-> status, source |-> row.source, text |-> text, published |-> published,
   of |-> of, event |-> event]

LEMMA ChangedRow ==
  ASSUME NEW row \in RowTypes, NEW status \in Statuses, NEW text \in Texts \cup {NoText},
         NEW published \in Days, NEW of \in Articles \cup {NoArticle},
         NEW event \in EventKeys \cup {NoEvent}
  PROVE  Changed(row, status, text, published, of, event) \in RowTypes
BY DEF Changed, RowTypes

LEMMA RowFields ==
  ASSUME NEW row \in RowTypes
  PROVE  /\ row = [status |-> row.status, source |-> row.source, text |-> row.text,
                   published |-> row.published, of |-> row.of, event |-> row.event]
         /\ row.status \in Statuses /\ row.source \in Sources
         /\ row.text \in Texts \cup {NoText} /\ row.published \in Days
         /\ row.of \in Articles \cup {NoArticle} /\ row.event \in EventKeys \cup {NoEvent}
BY DEF RowTypes

LEMMA MergedRow ==
  ASSUME NEW row \in RowTypes, Sound(row), NEW a \in Articles
  PROVE  /\ Merged(row, a) \in RowTypes /\ Sound(Merged(row, a))
         /\ Merged(row, a).event = row.event
<1> DEFINE text == IF FeedText[a] = NoText THEN row.text ELSE FeedText[a]
           status == IF text = NoText THEN row.status ELSE "extracted"
           published == IF FeedDate[a] = Undated THEN row.published ELSE FeedDate[a]
           new == Changed(row, status, text, published, row.of, row.event)
<1>1. FeedText[a] \in Texts \cup {NoText} /\ FeedDate[a] \in Days \cup {Undated}
  BY NewsConstantsOK
<1>2. text \in Texts \cup {NoText} /\ status \in Statuses /\ published \in Days
  BY <1>1, RowFields DEF Statuses
<1>3. Merged(row, a) = new
  <2>1. row = [status |-> row.status, source |-> row.source, text |-> row.text,
               published |-> row.published, of |-> row.of, event |-> row.event]
    BY RowFields
  <2>2. Merged(row, a) = [row EXCEPT !.text = text, !.status = status, !.published = published]
    BY <2>1 DEF Merged
  <2> HIDE DEF text, status, published
  <2> QED
    BY <2>1, <2>2 DEF Changed
<1>4. text = NoText => row.text = NoText /\ status = row.status
  BY DEF text
<1>5. text # NoText => status = "extracted"
  OBVIOUS
<1>6. /\ new.status = status /\ new.text = text /\ new.of = row.of /\ new.event = row.event
  <2> HIDE DEF text, status, published
  <2> QED
    BY DEF Changed
<1> HIDE DEF text, status, published
<1>7. new \in RowTypes
  BY <1>2, ChangedRow, RowFields
<1> HIDE DEF new
<1>8. Sound(new)
  <2>1. CASE text = NoText
    BY <1>4, <1>6, <2>1 DEF Sound
  <2>2. CASE text # NoText
    BY <1>5, <1>6, <2>2 DEF Sound
  <2> QED
    BY <2>1, <2>2
<1> QED
  BY <1>3, <1>6, <1>7, <1>8

LEMMA ExtractedRow ==
  ASSUME NEW row \in RowTypes, Sound(row), NEW page \in Pages \cup {Failed}
  PROVE  /\ Extracted(row, page) \in RowTypes /\ Sound(Extracted(row, page))
         /\ Extracted(row, page).event = row.event
<1>1. row = [status |-> row.status, source |-> row.source, text |-> row.text,
             published |-> row.published, of |-> row.of, event |-> row.event]
  BY RowFields
<1>2. CASE page = Failed
  <2> DEFINE new == Changed(row, "extraction_failed", row.text, row.published, row.of, row.event)
  <2>1. Extracted(row, page) = new
    BY <1>1, <1>2 DEF Extracted, Changed
  <2>2. new \in RowTypes
    BY ChangedRow, RowFields DEF Statuses
  <2>3. new.status = "extraction_failed" /\ new.event = row.event
    BY DEF Changed
  <2> HIDE DEF new
  <2> QED
    BY <2>1, <2>2, <2>3 DEF Sound
<1>3. CASE page # Failed
  <2> DEFINE published == IF page.date = Undated THEN row.published ELSE page.date
             new == Changed(row, "extracted", page.text, published, row.of, row.event)
  <2>1. page.text \in Texts /\ page.date \in Days \cup {Undated}
    BY <1>3, NewsConstantsOK
  <2>2. published \in Days
    BY <2>1, RowFields
  <2>3. Extracted(row, page) = [row EXCEPT !.status = "extracted", !.text = page.text,
                                           !.published = published]
    BY <1>1, <1>3 DEF Extracted
  <2> HIDE DEF published
  <2>4. Extracted(row, page) = new
    BY <1>1, <2>3 DEF Changed
  <2>5. new \in RowTypes
    BY <2>1, <2>2, ChangedRow, RowFields DEF Statuses
  <2>6. new.status = "extracted" /\ new.event = row.event
    BY DEF Changed
  <2> HIDE DEF new
  <2> QED
    BY <2>4, <2>5, <2>6 DEF Sound
<1> QED
  BY <1>2, <1>3

(* A table, one row at a time: every row stays or becomes a sound one, and *)
(* none goes away.                                                         *)
LEMMA NextTable ==
  ASSUME NEW T, Tabled(T), NEW U, DOMAIN U = Articles, U = [a \in Articles |-> U[a]],
         \A a \in Articles : U[a] = T[a] \/ (U[a] \in RowTypes /\ Sound(U[a]))
  PROVE  Tabled(U) /\ \A a \in Articles : T[a] # NoRow => U[a] # NoRow
<1>1. \A a \in Articles : U[a] \in RowTypes \cup {NoRow}
  BY DEF Tabled
<1>2. U \in [Articles -> RowTypes \cup {NoRow}]
  BY <1>1
<1>3. \A a \in Articles : U[a] # NoRow => Sound(U[a])
  BY DEF Tabled
<1> QED
  BY <1>2, <1>3, RowsDiffer DEF Tabled

-----------------------------------------------------------------------------
(* The writes to the shared table                                           *)

(* What no write of a source, an extraction or the filter does: take a row *)
(* away, or move an article to another event.                              *)
OnlyDetached ==
  /\ Tabled(articles)'
  /\ Existing \subseteq Existing'
  /\ \A a \in Articles : articles'[a].event \in {articles[a].event, NoEvent}

LEMMA CollectRows ==
  ASSUME Tabled(articles), today \in Days, NEW s \in Sources, NEW days, NEW found,
         Collect(s, days, found)
  PROVE  OnlyDetached /\ found \subseteq Existing'
<1>1. found \subseteq Articles
  BY NewsConstantsOK DEF Collect, Candidates
<1>2. articles' = [a \in Articles |-> IF a \notin found THEN articles[a]
                                      ELSE IF articles[a] = NoRow THEN Created(s, a)
                                      ELSE Merged(articles[a], a)]
  BY DEF Collect, Upserted
<1>3. \A a \in Articles : articles[a] # NoRow => articles[a] \in RowTypes /\ Sound(articles[a])
  BY DEF Tabled
<1>4. ASSUME NEW a \in Articles
      PROVE  /\ articles'[a] = articles[a] \/ (articles'[a] \in RowTypes /\ Sound(articles'[a]))
             /\ a \in found => articles'[a] \in RowTypes
             /\ articles'[a].event \in {articles[a].event, NoEvent}
  <2>1. CASE a \notin found
    <3>1. articles'[a] = articles[a]
      BY <1>2, <2>1
    <3> QED
      BY <2>1, <3>1
  <2>2. CASE a \in found /\ articles[a] = NoRow
    <3>1. articles'[a] = Created(s, a)
      BY <1>2, <2>2
    <3> QED
      BY <3>1, CreatedRow
  <2>3. CASE a \in found /\ articles[a] # NoRow
    <3>1. articles'[a] = Merged(articles[a], a)
      BY <1>2, <2>3
    <3> QED
      BY <1>3, <2>3, <3>1, MergedRow
  <2> QED
    BY <2>1, <2>2, <2>3
<1>5. DOMAIN articles' = Articles /\ articles' = [a \in Articles |-> articles'[a]]
  BY <1>2
<1>6. Tabled(articles') /\ \A a \in Articles : articles[a] # NoRow => articles'[a] # NoRow
  BY <1>4, <1>5, NextTable
<1>7. found \subseteq Existing'
  BY <1>1, <1>4, RowsDiffer DEF Existing
<1> QED
  BY <1>4, <1>6, <1>7 DEF OnlyDetached, Existing

(* An extraction of some articles that have rows.                          *)
LEMMA ExtractRows ==
  ASSUME Tabled(articles), NEW S, S \subseteq Existing,
         NEW page, \A a \in S : page[a] \in Pages \cup {Failed},
         articles' = [a \in Articles |-> IF a \in S THEN Extracted(articles[a], page[a])
                                         ELSE articles[a]]
  PROVE  OnlyDetached
<1>1. \A a \in Articles : articles[a] # NoRow => articles[a] \in RowTypes /\ Sound(articles[a])
  BY DEF Tabled
<1>2. ASSUME NEW a \in Articles
      PROVE  /\ articles'[a] = articles[a] \/ (articles'[a] \in RowTypes /\ Sound(articles'[a]))
             /\ articles'[a].event \in {articles[a].event, NoEvent}
  <2>1. CASE a \notin S
    <3>1. articles'[a] = articles[a]
      BY <2>1
    <3> QED
      BY <3>1
  <2>2. CASE a \in S
    <3>1. articles'[a] = Extracted(articles[a], page[a])
      BY <2>2
    <3>2. articles[a] \in RowTypes /\ Sound(articles[a])
      BY <1>1, <2>2 DEF Existing
    <3> QED
      BY <2>2, <3>1, <3>2, ExtractedRow
  <2> QED
    BY <2>1, <2>2
<1>3. DOMAIN articles' = Articles /\ articles' = [a \in Articles |-> articles'[a]]
  OBVIOUS
<1>4. Tabled(articles') /\ \A a \in Articles : articles[a] # NoRow => articles'[a] # NoRow
  BY <1>2, <1>3, NextTable
<1> QED
  BY <1>2, <1>4 DEF OnlyDetached, Existing

(* What the filter lets through has a body of the least length.            *)
LEMMA EligibleIsLongEnough ==
  ASSUME NEW ids, NEW minimum, NEW a \in Eligible(ids, minimum), Size(articles, a) \in Nat
  PROVE  Size(articles, a) >= MinLength
<1>1. FilterReason(articles, a, today, minimum) = "none"
  BY DEF Eligible
<1>2. ~ (Size(articles, a) < MinLength)
  BY <1>1 DEF FilterReason
<1> QED
  BY <1>2, RulesConstantsOK

LEMMA FilterRows ==
  ASSUME Tabled(articles), NEW ids, ids \subseteq Existing, NEW minimum,
         articles' = FilteredRows(ids, minimum)
  PROVE  OnlyDetached /\ \A a \in Eligible(ids, minimum) : articles'[a].status = "eligible"
<1> DEFINE status(a) == IF a \in Eligible(ids, minimum) THEN "eligible" ELSE "filtered"
           new(a) == Changed(articles[a], status(a), articles[a].text, articles[a].published,
                             NoArticle, NoEvent)
<1>1. \A a \in Articles : articles[a] # NoRow => articles[a] \in RowTypes /\ Sound(articles[a])
  BY DEF Tabled
<1>2. ids \subseteq Articles /\ Eligible(ids, minimum) \subseteq ids
  BY DEF Existing, Eligible
<1>3. articles' = [a \in Articles |->
                     IF a \notin ids THEN articles[a]
                     ELSE [articles[a] EXCEPT !.status = status(a), !.of = NoArticle,
                                              !.event = NoEvent]]
  BY DEF FilteredRows
<1>4. ASSUME NEW a \in ids
      PROVE  articles'[a] = new(a) /\ articles[a] \in RowTypes
  <2>1. a \in Articles /\ articles[a] \in RowTypes
    BY <1>1, <1>2 DEF Existing
  <2>2. articles[a] = [status |-> articles[a].status, source |-> articles[a].source,
                       text |-> articles[a].text, published |-> articles[a].published,
                       of |-> articles[a].of, event |-> articles[a].event]
    BY <2>1, RowFields
  <2>3. articles'[a] = [articles[a] EXCEPT !.status = status(a), !.of = NoArticle,
                                           !.event = NoEvent]
    BY <1>3, <2>1
  <2> HIDE DEF status
  <2> QED
    BY <2>1, <2>2, <2>3 DEF Changed
<1>5. ASSUME NEW a \in ids
      PROVE  /\ articles'[a] \in RowTypes /\ Sound(articles'[a])
             /\ articles'[a].status = status(a) /\ articles'[a].event = NoEvent
  <2>1. status(a) \in Statuses
    BY DEF Statuses
  <2>2. articles[a] \in RowTypes
    BY <1>4
  <2>3. new(a) \in RowTypes
    <3> HIDE DEF status
    <3> QED
      BY <2>1, <2>2, ChangedRow, RowFields
  <2>4. new(a).status = status(a) /\ new(a).text = articles[a].text /\ new(a).event = NoEvent
    <3> HIDE DEF status
    <3> QED
      BY DEF Changed
  <2>5. a \in Eligible(ids, minimum) =>
          (IF articles[a].text = NoText THEN 0 ELSE Length[articles[a].text]) >= MinLength
    <3>1. Size(articles, a) \in Nat
      BY <2>2, RulesConstantsOK, RowFields DEF Size
    <3> QED
      BY <3>1, EligibleIsLongEnough DEF Size
  <2>6. status(a) \in {"eligible", "filtered"} /\ (status(a) = "eligible" => a \in Eligible(ids, minimum))
    OBVIOUS
  <2> HIDE DEF status, new
  <2>7. Sound(new(a))
    BY <2>4, <2>5, <2>6 DEF Sound
  <2> QED
    BY <1>4, <2>3, <2>4, <2>7
<1>6. ASSUME NEW a \in Articles
      PROVE  /\ articles'[a] = articles[a] \/ (articles'[a] \in RowTypes /\ Sound(articles'[a]))
             /\ articles'[a].event \in {articles[a].event, NoEvent}
  <2>1. CASE a \notin ids
    <3>1. articles'[a] = articles[a]
      BY <1>3, <2>1
    <3> QED
      BY <3>1
  <2>2. CASE a \in ids
    BY <1>5, <2>2
  <2> QED
    BY <2>1, <2>2
<1>7. DOMAIN articles' = Articles /\ articles' = [a \in Articles |-> articles'[a]]
  BY <1>3
<1>8. Tabled(articles') /\ \A a \in Articles : articles[a] # NoRow => articles'[a] # NoRow
  BY <1>6, <1>7, NextTable
<1>9. \A a \in Eligible(ids, minimum) : articles'[a].status = "eligible"
  BY <1>2, <1>5
<1> QED
  BY <1>6, <1>8, <1>9 DEF OnlyDetached, Existing

LEMMA RowsAreReadable ==
  ASSUME Tabled(articles), NEW S, S \subseteq Existing
  PROVE  Readable(articles, S)
<1>1. \A a \in S : a \in Articles /\ articles[a] \in RowTypes
  BY DEF Existing, Tabled
<1>2. Days \subseteq Int
  BY NewsConstantsOK DEF Days
<1> QED
  BY <1>1, <1>2, RowFields DEF Readable

-----------------------------------------------------------------------------
(* Steps                                                                    *)

(* Before the duplicate checkpoint nothing has been handed on.             *)
LEMMA NothingHandedOn ==
  ASSUME run'.at \notin {"deduplicate", "cluster", "edit"}
  PROVE  Checkpointed'
BY DEF Checkpointed, EveryArticleIsAccountedFor, EventsFollowTheEvidence

LEMMA InitInv ==
  Init => IInv
<1> SUFFICES ASSUME Init  PROVE IInv
  OBVIOUS
<1>1. run = Idle /\ flow = NoFlow /\ lineage = <<>> /\ articles = [a \in Articles |-> NoRow]
      /\ events = [k \in EventKeys |-> NoRow]
  BY DEF Init
<1>2. Bounded
  <2>1. LastDay \in Nat /\ MaxBriefings \in Nat /\ MaxCrashes \in Nat
    BY NewsConstantsOK
  <2>2. today = 0 /\ started = FALSE /\ briefings = 0 /\ crashes = 0
    BY DEF Init
  <2>3. today \in Days
    BY <2>1, <2>2 DEF Days
  <2>4. briefings \in 0..MaxBriefings /\ crashes \in 0..MaxCrashes
    BY <2>1, <2>2
  <2> QED
    BY <2>2, <2>3, <2>4, Zenon DEF Bounded
<1>3. Tabled(articles)
  BY <1>1 DEF Tabled
<1>4. Counts
  BY <1>1 DEF Counts
<1>5. Idle \in RunTypes /\ NoFlow \in FlowTypes
  BY DEF Idle, NoFlow, RunTypes, FlowTypes, Stages
<1>6. /\ run.at = "idle" /\ run.collected = {} /\ run.targets = {}
      /\ flow.collected = {} /\ flow.targets = {}
  BY <1>1 DEF Idle, NoFlow
<1>7. Held
  BY <1>1, <1>5, <1>6 DEF Held
<1>8. Checkpointed
  BY <1>6 DEF Checkpointed, EveryArticleIsAccountedFor, EventsFollowTheEvidence
<1> QED
  BY <1>2, <1>3, <1>4, <1>7, <1>8 DEF IInv

(* The worker's run takes a step that is not a checkpoint's.               *)
LEMMA RunStep ==
  ASSUME IInv, OnlyDetached, UNCHANGED <<events, flow>>, run' \in RunTypes,
         run'.at \notin {"deduplicate", "cluster", "edit"},
         run'.collected \subseteq Existing', run'.targets \subseteq run'.collected,
         run'.at = "extract" => run'.targets # {},
         lineage' # <<>> => Head(lineage') \subseteq Existing',
         Bounded'
  PROVE  IInv'
<1>1. Counts'
  BY DEF IInv, Counts
<1>2. Held'
  BY DEF IInv, Held, OnlyDetached
<1>3. Tabled(articles)'
  BY DEF OnlyDetached
<1>4. Checkpointed'
  BY NothingHandedOn
<1> QED
  BY <1>1, <1>2, <1>3, <1>4 DEF IInv

(* The briefing takes one while the loop is free.                          *)
LEMMA FlowStep ==
  ASSUME IInv, OnlyDetached, UNCHANGED <<events, run, lineage>>, LoopIsFree,
         flow' \in FlowTypes,
         flow'.collected \cup flow'.targets \subseteq Existing',
         Bounded'
  PROVE  IInv'
<1>1. Counts'
  BY DEF IInv, Counts
<1>2. Held'
  <2>1. run' \in RunTypes /\ run'.targets \subseteq run'.collected
        /\ (run'.at = "extract" => run'.targets # {})
    BY DEF IInv, Held
  <2>2. run'.collected \subseteq Existing'
    BY DEF IInv, Held, OnlyDetached
  <2>3. lineage' # <<>> => Head(lineage') \subseteq Existing'
    BY DEF IInv, Held, OnlyDetached
  <2> QED
    BY <2>1, <2>2, <2>3 DEF Held
<1>3. Tabled(articles)'
  BY DEF OnlyDetached
<1>4. Checkpointed'
  <2>1. CASE run.at # "edit"
    <3>1. run'.at \notin {"deduplicate", "cluster", "edit"}
      BY <2>1 DEF LoopIsFree, Uninterrupted, Checkpoints
    <3> QED
      BY <3>1, NothingHandedOn
  <2>2. CASE run.at = "edit"
    <3>1. EveryArticleIsAccountedFor'
      <4>1. \A a : LostTo(a)' = LostTo(a)
        BY DEF LostTo
      <4> QED
        BY <4>1 DEF IInv, Checkpointed, EveryArticleIsAccountedFor
    <3>2. EventsFollowTheEvidence /\ run.clusters \subseteq [key : EventKeys, lead : Articles, members : SUBSET Articles]
      BY DEF IInv, Checkpointed, Held, RunTypes
    <3>3. /\ \A a \in run.primary : Cardinality({c \in run.clusters : a \in c.members}) = 1
          /\ \A c \in run.clusters :
               /\ c.lead \in c.members
               /\ \A a \in c.members \ {c.lead} : {a, c.lead} \in run.similar
               /\ events[c.key].lead = c.lead /\ events[c.key].count = Cardinality(c.members)
               /\ \A a \in c.members : articles[a].event \in {c.key, NoEvent}
      BY <2>2, <3>2 DEF EventsFollowTheEvidence
    <3>4. \A c \in run.clusters : \A a \in c.members : articles'[a].event \in {c.key, NoEvent}
      BY <3>2, <3>3 DEF OnlyDetached
    <3>5. EventsFollowTheEvidence'
      BY <3>3, <3>4 DEF EventsFollowTheEvidence
    <3> QED
      BY <2>2, <3>1, <3>5 DEF Checkpointed
  <2> QED
    BY <2>1, <2>2
<1> QED
  BY <1>1, <1>2, <1>3, <1>4 DEF IInv

LEMMA SameBounds ==
  ASSUME IInv, UNCHANGED bounds
  PROVE  Bounded'
BY DEF IInv, Bounded, bounds

LEMMA SameRows ==
  ASSUME IInv, UNCHANGED articles
  PROVE  OnlyDetached
BY DEF IInv, OnlyDetached, Existing

LEMMA StartStep ==
  ASSUME IInv, Start  PROVE IInv'
<1>1. run' = [Idle EXCEPT !.at = "collect", !.left = EnabledSources] /\ lineage' = <<>>
      /\ UNCHANGED <<articles, events, flow>>
  BY DEF Start
<1>2. /\ run' \in RunTypes /\ run'.at = "collect" /\ run'.collected = {} /\ run'.targets = {}
  BY <1>1, SelectionsAreOfSources DEF RunTypes, Idle, Stages
<1>3. Bounded'
  BY DEF IInv, Start, Bounded
<1> QED
  BY <1>1, <1>2, <1>3, SameRows, RunStep

LEMMA CollectSourceStep ==
  ASSUME IInv, CollectSource  PROVE IInv'
<1>1. PICK found \in SUBSET Lists[Head(run.left)] :
        /\ Collect(Head(run.left), CollectionDays, found)
        /\ run' = [run EXCEPT !.left = Tail(@), !.collected = @ \cup found,
                              !.at = IF Len(run.left) = 1 THEN "targets" ELSE @]
  BY DEF CollectSource
<1>2. /\ UNCHANGED <<events, flow, lineage, bounds>> /\ run.at = "collect" /\ run.left # <<>>
      /\ run \in RunTypes
  BY DEF CollectSource, IInv, Held
<1>3. run.left \in Seq(Sources) /\ run.collected \subseteq Articles /\ run.targets \subseteq run.collected
  BY <1>2 DEF RunTypes, IInv, Held
<1>4. Head(run.left) \in Sources /\ Tail(run.left) \in Seq(Sources)
  BY <1>2, <1>3
<1>5. OnlyDetached /\ found \subseteq Existing'
  BY <1>1, <1>4, CollectRows DEF IInv, Bounded
<1>6. found \subseteq Articles
  BY <1>4, NewsConstantsOK
<1>7. run' \in RunTypes
  BY <1>1, <1>2, <1>3, <1>4, <1>6 DEF RunTypes, Stages
<1>8. /\ run'.at \in {"collect", "targets"} /\ run'.collected = run.collected \cup found
      /\ run'.targets = run.targets
  BY <1>1, <1>2 DEF RunTypes
<1>9. run'.collected \subseteq Existing' /\ (lineage' # <<>> => Head(lineage') \subseteq Existing')
  BY <1>2, <1>5, <1>8 DEF IInv, Held, OnlyDetached
<1>10. run'.targets \subseteq run'.collected
  BY <1>3, <1>8
<1>11. run'.at \notin {"deduplicate", "cluster", "edit"} /\ run'.at # "extract"
  BY <1>8
<1>12. Bounded'
  BY <1>2, SameBounds
<1> QED
  BY <1>2, <1>5, <1>7, <1>9, <1>10, <1>11, <1>12, RunStep

LEMMA FindTargetsStep ==
  ASSUME IInv, FindTargets  PROVE IInv'
<1> DEFINE T == ExtractionTargets(run.collected)
<1>1. /\ run' = [run EXCEPT !.targets = T, !.at = IF T = {} THEN "filter" ELSE "extract"]
      /\ UNCHANGED <<articles, events, flow, lineage, bounds>>
  BY DEF FindTargets
<1>2. T \subseteq run.collected
  BY DEF ExtractionTargets
<1> HIDE DEF T
<1>3. run \in RunTypes
  BY DEF IInv, Held
<1>4. run' \in RunTypes /\ run'.targets = T /\ run'.collected = run.collected
      /\ run'.at = IF T = {} THEN "filter" ELSE "extract"
  BY <1>1, <1>2, <1>3 DEF RunTypes, Stages
<1>5. OnlyDetached
  BY <1>1, SameRows
<1>6. run'.collected \subseteq Existing' /\ (lineage' # <<>> => Head(lineage') \subseteq Existing')
  BY <1>1, <1>4, <1>5 DEF IInv, Held, OnlyDetached
<1>7. Bounded'
  BY <1>1, SameBounds
<1> QED
  BY <1>1, <1>2, <1>4, <1>5, <1>6, <1>7, RunStep

LEMMA ExtractStep ==
  ASSUME IInv, Extract  PROVE IInv'
<1> DEFINE a == Min(run.targets)
<1>1. PICK page \in Pages \cup {Failed} : articles' = [articles EXCEPT ![a] = Extracted(@, page)]
  BY DEF Extract
<1>2. /\ run' = [run EXCEPT !.targets = @ \ {a}, !.at = IF run.targets = {a} THEN "filter" ELSE @]
      /\ run.at = "extract" /\ UNCHANGED <<events, flow, lineage, bounds>>
  BY DEF Extract
<1>3. /\ run \in RunTypes /\ run.targets # {} /\ run.targets \subseteq run.collected
      /\ run.collected \subseteq Existing /\ Tabled(articles)
  BY <1>2 DEF IInv, Held
<1>4. a \in run.targets
  <2>1. run.targets \subseteq Nat
    BY <1>3, RulesConstantsOK DEF RunTypes
  <2> QED
    BY <1>3, <2>1, MinIsMember
<1> HIDE DEF a
<1>5. OnlyDetached
  <2> DEFINE S == {a}
             pages == [x \in {a} |-> page]
  <2>1. S \subseteq Existing /\ a \in Articles
    BY <1>3, <1>4 DEF Existing
  <2>2. \A x \in S : pages[x] \in Pages \cup {Failed}
    OBVIOUS
  <2>3. articles' = [x \in Articles |-> IF x \in S THEN Extracted(articles[x], pages[x]) ELSE articles[x]]
    BY <1>1, <1>3, <2>1 DEF Tabled
  <2> HIDE DEF S, pages
  <2> QED
    BY <1>3, <2>1, <2>2, <2>3, ExtractRows
<1>6. /\ run' \in RunTypes /\ run'.targets = run.targets \ {a} /\ run'.collected = run.collected
      /\ run'.at = IF run.targets = {a} THEN "filter" ELSE "extract"
  BY <1>2, <1>3 DEF RunTypes, Stages
<1>7. run'.at = "extract" => run'.targets # {}
  BY <1>3, <1>4, <1>6
<1>8. run'.collected \subseteq Existing' /\ (lineage' # <<>> => Head(lineage') \subseteq Existing')
  BY <1>2, <1>5, <1>6 DEF IInv, Held, OnlyDetached
<1>9. Bounded'
  BY <1>2, SameBounds
<1>10. run'.targets \subseteq run'.collected /\ run'.at \notin {"deduplicate", "cluster", "edit"}
  BY <1>3, <1>6
<1> QED
  BY <1>2, <1>5, <1>6, <1>7, <1>8, <1>9, <1>10, RunStep

LEMMA EndRunStep ==
  ASSUME IInv, EndRun  PROVE IInv'
<1>1. run' = Idle /\ UNCHANGED <<articles, events, flow, lineage, bounds>>
  BY DEF EndRun
<1>2. /\ run' \in RunTypes /\ run'.at = "idle" /\ run'.collected = {} /\ run'.targets = {}
  BY <1>1 DEF RunTypes, Idle, Stages
<1>3. OnlyDetached
  BY <1>1, SameRows
<1>4. lineage' # <<>> => Head(lineage') \subseteq Existing'
  BY <1>1, <1>3 DEF IInv, Held, OnlyDetached
<1>5. Bounded'
  BY <1>1, SameBounds
<1> QED
  BY <1>1, <1>2, <1>3, <1>4, <1>5, RunStep

(* The filter: what it lets through is handed to the duplicate checkpoint. *)
LEMMA FilterStep ==
  ASSUME IInv, Filter  PROVE IInv'
<1> DEFINE E == Eligible(run.collected, 0)
<1>1. /\ articles' = FilteredRows(run.collected, 0)
      /\ run' = [run EXCEPT !.eligible = E, !.filtered = run.collected \ E, !.at = "deduplicate"]
      /\ UNCHANGED <<events, flow, lineage, bounds>>
  BY DEF Filter
<1>2. /\ run \in RunTypes /\ run.collected \subseteq Existing /\ Tabled(articles)
      /\ run.targets \subseteq run.collected
  BY DEF IInv, Held
<1>3. OnlyDetached /\ \A a \in E : articles'[a].status = "eligible"
  BY <1>1, <1>2, FilterRows
<1>4. E \subseteq run.collected
  BY DEF Eligible
<1> HIDE DEF E
<1>5. /\ run' \in RunTypes /\ run'.at = "deduplicate" /\ run'.collected = run.collected
      /\ run'.targets = run.targets /\ run'.eligible = E /\ run'.filtered = run.collected \ E
  BY <1>1, <1>2, <1>4 DEF RunTypes, Stages
<1>6. Held'
  <2>1. run'.collected \subseteq Existing' /\ run'.targets \subseteq run'.collected
    BY <1>2, <1>3, <1>5 DEF OnlyDetached
  <2>2. /\ flow' \in FlowTypes /\ flow'.collected \cup flow'.targets \subseteq Existing'
        /\ (lineage' # <<>> => Head(lineage') \subseteq Existing')
    BY <1>1, <1>3 DEF IInv, Held, OnlyDetached
  <2> QED
    BY <1>5, <2>1, <2>2 DEF Held
<1>7. Checkpointed'
  BY <1>3, <1>4, <1>5 DEF Checkpointed, Parted, EveryArticleIsAccountedFor, EventsFollowTheEvidence
<1>8. Counts' /\ Bounded'
  BY <1>1, SameBounds DEF IInv, Counts
<1> QED
  BY <1>3, <1>6, <1>7, <1>8 DEF IInv, OnlyDetached

(* The duplicate checkpoint: nothing ran since the filter, so every        *)
(* eligible article is loaded, and its losses lead to a primary one.       *)
LEMMA DeduplicateStep ==
  ASSUME IInv, Deduplicate  PROVE IInv'
<1> DEFINE S == run.eligible
           d == Deduplicated(articles, S)
           lost(a) == CHOOSE w \in Articles : <<a, w>> \in d.of
<1>1. /\ run \in RunTypes /\ run.collected \subseteq Existing /\ Tabled(articles)
      /\ run.targets \subseteq run.collected /\ run.at = "deduplicate"
      /\ Parted /\ \A a \in S : articles[a].status = "eligible"
  BY DEF IInv, Held, Checkpointed, Deduplicate
<1>2. S \subseteq Existing /\ S \subseteq Articles /\ S \subseteq run.collected
  BY <1>1 DEF Parted, Existing
<1>3. Loaded(run.eligible) = S
  BY <1>1 DEF Loaded
<1>4. /\ articles' =
           [a \in Articles |->
              IF a \in d.primary THEN [articles[a] EXCEPT !.of = NoArticle, !.event = NoEvent]
              ELSE IF \E w \in Articles : <<a, w>> \in d.of
              THEN [articles[a] EXCEPT !.status = "duplicate", !.event = NoEvent, !.of = lost(a)]
              ELSE articles[a]]
      /\ run' = [run EXCEPT !.primary = d.primary, !.of = d.of, !.at = "cluster"]
      /\ UNCHANGED <<events, flow, lineage, bounds>>
  BY <1>3 DEF Deduplicate
<1>5. /\ d.primary \subseteq S
      /\ d.of \subseteq S \X S
      /\ \A a \in S : \E w \in d.primary :
           \A X \in SUBSET Articles : a \in X /\ Closed(X, d.of) => w \in X
  <2>1. Readable(articles, S)
    BY <1>1, <1>2, RowsAreReadable
  <2> QED
    BY <2>1, EveryLossLeadsToAPrimary
<1> HIDE DEF d
<1>6. ASSUME NEW a \in d.primary
      PROVE  /\ articles'[a] \in RowTypes /\ Sound(articles'[a])
             /\ articles'[a].status = "eligible"
  <2> DEFINE new == Changed(articles[a], "eligible", articles[a].text, articles[a].published,
                            NoArticle, NoEvent)
  <2>1. a \in Articles /\ articles[a] \in RowTypes /\ Sound(articles[a])
        /\ articles[a].status = "eligible"
    BY <1>1, <1>2, <1>5 DEF Existing, Tabled
  <2>2. articles[a] = [status |-> articles[a].status, source |-> articles[a].source,
                       text |-> articles[a].text, published |-> articles[a].published,
                       of |-> articles[a].of, event |-> articles[a].event]
    BY <2>1, RowFields
  <2>3. articles'[a] = [articles[a] EXCEPT !.of = NoArticle, !.event = NoEvent]
    BY <1>4, <2>1
  <2>4. articles'[a] = new
    BY <2>1, <2>2, <2>3 DEF Changed
  <2>5. new \in RowTypes
    BY <2>1, ChangedRow, RowFields DEF Statuses
  <2>6. new.status = "eligible" /\ new.text = articles[a].text
    BY DEF Changed
  <2> HIDE DEF new
  <2>7. Sound(new)
    BY <2>1, <2>6 DEF Sound
  <2> QED
    BY <2>4, <2>5, <2>6, <2>7
<1>7. ASSUME NEW a \in Articles \ d.primary, \E w \in Articles : <<a, w>> \in d.of
      PROVE  articles'[a] \in RowTypes /\ Sound(articles'[a])
  <2> DEFINE new == Changed(articles[a], "duplicate", articles[a].text, articles[a].published,
                            lost(a), NoEvent)
  <2>1. a \in S
    BY <1>5, <1>7
  <2>2. articles[a] \in RowTypes /\ Sound(articles[a]) /\ articles[a].status = "eligible"
    BY <1>1, <1>2, <2>1 DEF Existing, Tabled
  <2>3. lost(a) \in Articles /\ lost(a) # NoArticle
    BY <1>7, RulesConstantsOK DEF NoArticle
  <2>4. articles[a] = [status |-> articles[a].status, source |-> articles[a].source,
                       text |-> articles[a].text, published |-> articles[a].published,
                       of |-> articles[a].of, event |-> articles[a].event]
    BY <2>2, RowFields
  <2>5. articles'[a] = [articles[a] EXCEPT !.status = "duplicate", !.event = NoEvent, !.of = lost(a)]
    BY <1>4, <1>7
  <2> HIDE DEF lost
  <2>6. articles'[a] = new
    BY <2>4, <2>5 DEF Changed
  <2>7. new \in RowTypes
    BY <2>2, <2>3, ChangedRow, RowFields DEF Statuses
  <2>8. new.status = "duplicate" /\ new.text = articles[a].text /\ new.of = lost(a)
    BY DEF Changed
  <2> HIDE DEF new
  <2>9. Sound(new)
    BY <2>2, <2>3, <2>8 DEF Sound
  <2> QED
    BY <2>6, <2>7, <2>9
<1> HIDE DEF lost
<1>8. ASSUME NEW a \in Articles
      PROVE  articles'[a] = articles[a] \/ (articles'[a] \in RowTypes /\ Sound(articles'[a]))
  <2>1. CASE a \in d.primary
    BY <1>6, <2>1
  <2>2. CASE a \notin d.primary /\ \E w \in Articles : <<a, w>> \in d.of
    BY <1>7, <2>2
  <2>3. CASE a \notin d.primary /\ ~ \E w \in Articles : <<a, w>> \in d.of
    BY <1>4, <2>3
  <2> QED
    BY <2>1, <2>2, <2>3
<1>9. DOMAIN articles' = Articles /\ articles' = [a \in Articles |-> articles'[a]]
  BY <1>4
<1>10. Tabled(articles') /\ Existing \subseteq Existing'
  <2>1. Tabled(articles') /\ \A a \in Articles : articles[a] # NoRow => articles'[a] # NoRow
    BY <1>1, <1>8, <1>9, NextTable
  <2> QED
    BY <2>1 DEF Existing
<1>11. /\ run' \in RunTypes /\ run'.at = "cluster" /\ run'.collected = run.collected
       /\ run'.targets = run.targets /\ run'.eligible = S /\ run'.filtered = run.filtered
       /\ run'.primary = d.primary /\ run'.of = d.of
  <2>1. d.primary \in SUBSET Articles /\ d.of \in SUBSET (Articles \X Articles)
    BY <1>2, <1>5
  <2>2. run' = [run EXCEPT !.primary = d.primary, !.of = d.of, !.at = "cluster"]
        /\ run \in RunTypes
    BY <1>1, <1>4
  <2> QED
    BY <2>1, <2>2 DEF RunTypes, Stages
<1>12. Held'
  <2>1. run'.collected \subseteq Existing' /\ run'.targets \subseteq run'.collected
    BY <1>1, <1>10, <1>11
  <2>2. /\ flow' \in FlowTypes /\ flow'.collected \cup flow'.targets \subseteq Existing'
        /\ (lineage' # <<>> => Head(lineage') \subseteq Existing')
    BY <1>4, <1>10 DEF IInv, Held
  <2> QED
    BY <1>11, <2>1, <2>2 DEF Held
<1>13. ASSUME NEW a \in S  PROVE LostTo(a)' \cap d.primary # {}
  <2>1. PICK w \in d.primary : \A X \in SUBSET Articles : a \in X /\ Closed(X, d.of) => w \in X
    BY <1>5
  <2>2. w \in Articles
    BY <1>2, <1>5
  <2>3. w \in LostTo(a)'
    BY <1>11, <2>1, <2>2 DEF LostTo, Closed
  <2> QED
    BY <2>3
<1>14. Checkpointed'
  <2>1. Parted'
    BY <1>1, <1>11 DEF Parted
  <2>2. \A a \in run'.primary : articles'[a].status = "eligible"
    BY <1>6, <1>11
  <2>3. \A a \in run'.eligible : LostTo(a)' \cap run'.primary # {}
    BY <1>11, <1>13
  <2>4. run'.primary \subseteq run'.eligible
    BY <1>5, <1>11
  <2> QED
    BY <1>11, <2>1, <2>2, <2>3, <2>4
       DEF Checkpointed, EveryArticleIsAccountedFor, EventsFollowTheEvidence
<1>15. Counts' /\ Bounded'
  BY <1>4, SameBounds DEF IInv, Counts
<1> QED
  BY <1>10, <1>12, <1>14, <1>15 DEF IInv

(* The cluster checkpoint: every primary article is loaded, the clusters   *)
(* partition them, and no two clusters share the key of their event.       *)
LEMMA ClusterStep ==
  ASSUME IInv, Cluster  PROVE IInv'
<1> DEFINE S == run.primary
           C(z) == Clusters(articles, S, z)
           of(z, a) == CHOOSE c \in C(z) : a \in c.members
           by(z, k) == CHOOSE c \in C(z) : EventKey(c) = k
           entry(c) == [key |-> EventKey(c), lead |-> c.lead, members |-> c.members]
<1>1. /\ run \in RunTypes /\ run.collected \subseteq Existing /\ Tabled(articles)
      /\ run.targets \subseteq run.collected /\ run.at = "cluster"
      /\ Parted /\ S \subseteq run.eligible /\ \A a \in S : articles[a].status = "eligible"
      /\ \A a \in run.eligible : LostTo(a) \cap S # {}
  BY DEF IInv, Held, Checkpointed, Cluster
<1>2. S \subseteq Existing /\ S \subseteq Articles
  BY <1>1 DEF Parted, Existing
<1>3. Loaded(run.primary) = S
  BY <1>1 DEF Loaded
<1>4. /\ \E z \in SUBSET Pairs(S) :
           /\ events' = [k \in EventKeys |->
                           IF \E c \in C(z) : EventKey(c) = k
                           THEN [status |-> "candidate", lead |-> by(z, k).lead,
                                 count |-> Cardinality(by(z, k).members)]
                           ELSE events[k]]
           /\ articles' = [a \in Articles |->
                             IF a \in S THEN [articles[a] EXCEPT !.event = EventKey(of(z, a))]
                             ELSE articles[a]]
           /\ run' = [run EXCEPT !.similar = z, !.at = "edit",
                                 !.clusters = {entry(c) : c \in C(z)}]
      /\ UNCHANGED <<flow, lineage, bounds>>
  <2> DEFINE Writes(L) ==
        /\ \E z \in SUBSET Pairs(L) :
             /\ events' = [k \in EventKeys |->
                             IF \E c \in Clusters(articles, L, z) : EventKey(c) = k
                             THEN LET c == CHOOSE c \in Clusters(articles, L, z) : EventKey(c) = k
                                  IN  [status |-> "candidate", lead |-> c.lead,
                                       count |-> Cardinality(c.members)]
                             ELSE events[k]]
             /\ articles' =
                  [a \in Articles |->
                     IF a \in L
                     THEN [articles[a] EXCEPT
                             !.event = EventKey(CHOOSE c \in Clusters(articles, L, z) :
                                                  a \in c.members)]
                     ELSE articles[a]]
             /\ run' = [run EXCEPT !.similar = z, !.at = "edit",
                                   !.clusters = {entry(c) : c \in Clusters(articles, L, z)}]
        /\ UNCHANGED <<flow, lineage, bounds>>
  <2>1. Writes(Loaded(run.primary))
    BY Zenon DEF Cluster
  <2>2. Writes(S)
    <3> HIDE DEF Writes
    <3> QED
      BY <1>3, <2>1
  <2> QED
    BY <2>2, Zenon
<1>5. PICK z \in SUBSET Pairs(S) :
           /\ events' = [k \in EventKeys |->
                           IF \E c \in C(z) : EventKey(c) = k
                           THEN [status |-> "candidate", lead |-> by(z, k).lead,
                                 count |-> Cardinality(by(z, k).members)]
                           ELSE events[k]]
           /\ articles' = [a \in Articles |->
                             IF a \in S THEN [articles[a] EXCEPT !.event = EventKey(of(z, a))]
                             ELSE articles[a]]
           /\ run' = [run EXCEPT !.similar = z, !.at = "edit",
                                 !.clusters = {entry(c) : c \in C(z)}]
  BY <1>4
<1> DEFINE K == C(z)
           home(a) == of(z, a)
           key(c) == EventKey(c)
<1>6. /\ \A c \in K : /\ c.members \subseteq S /\ c.lead \in c.members
                      /\ \A a \in c.members \ {c.lead} : {a, c.lead} \in z
      /\ \A a \in S : \E c \in K : a \in c.members
      /\ \A c, e \in K, a \in S : a \in c.members /\ a \in e.members => c = e
  <2>1. Readable(articles, S)
    BY <1>1, <1>2, RowsAreReadable
  <2> QED
    BY <2>1, ClustersPartition
<1>7. \A a \in S : home(a) \in K /\ a \in home(a).members
  BY <1>6
<1>8. \A c \in K : \A a \in c.members : home(a) = c
  BY <1>6, <1>7
<1>9. ASSUME NEW c \in K
      PROVE  /\ key(c) \in EventKeys /\ key(c)[2] \in c.members
             /\ IsFiniteSet(c.members) /\ Cardinality(c.members) \in 1..Cardinality(Articles)
  <2>1. c.members \subseteq Articles /\ c.members # {} /\ c.lead \in Existing
    BY <1>2, <1>6
  <2>2. Min(c.members) \in c.members
    <3>1. c.members \subseteq Nat
      BY <2>1, RulesConstantsOK
    <3> QED
      BY <2>1, <3>1, MinIsMember
  <2>3. articles[c.lead].published \in Days
    BY <1>1, <2>1, RowFields DEF Existing, Tabled
  <2>4. key(c) = <<articles[c.lead].published, Min(c.members)>>
    BY DEF EventKey
  <2>5. IsFiniteSet(c.members) /\ Cardinality(c.members) <= Cardinality(Articles)
    BY <2>1, RulesConstantsOK, FS_Subset
  <2>6. Cardinality(c.members) \in Nat /\ Cardinality(c.members) # 0 /\ Cardinality(Articles) \in Nat
    BY <2>1, <2>5, RulesConstantsOK, FS_CardinalityType, FS_EmptySet
  <2> HIDE DEF key
  <2>7. key(c) \in EventKeys /\ key(c)[2] \in c.members
    BY <2>1, <2>2, <2>3, <2>4 DEF EventKeys
  <2> QED
    BY <2>5, <2>6, <2>7
<1>10. \A c, e \in K : key(c) = key(e) => c = e
  <2> SUFFICES ASSUME NEW c \in K, NEW e \in K, key(c) = key(e)  PROVE c = e
    OBVIOUS
  <2> HIDE DEF K, key
  <2>1. key(c)[2] \in c.members /\ key(c)[2] \in e.members /\ key(c)[2] \in S
    BY <1>6, <1>9
  <2> QED
    BY <1>6, <2>1
<1>11. \A c \in K : by(z, key(c)) = c
  BY <1>10
<1>12. /\ events' = [k \in EventKeys |->
                       IF \E c \in K : key(c) = k
                       THEN [status |-> "candidate", lead |-> by(z, k).lead,
                             count |-> Cardinality(by(z, k).members)]
                       ELSE events[k]]
       /\ articles' = [a \in Articles |->
                         IF a \in S THEN [articles[a] EXCEPT !.event = key(home(a))]
                         ELSE articles[a]]
       /\ run' = [run EXCEPT !.similar = z, !.at = "edit", !.clusters = {entry(c) : c \in K}]
  BY <1>5
<1>13. \A c \in K : entry(c).key = key(c) /\ entry(c).lead = c.lead /\ entry(c).members = c.members
                    /\ entry(c) \in [key : EventKeys, lead : Articles, members : SUBSET Articles]
  BY <1>2, <1>6, <1>9
<1> DEFINE found(k) == by(z, k)
           listed == {entry(c) : c \in K}
<1>14. \A k \in EventKeys : (\E c \in K : key(c) = k) => found(k) \in K
  BY <1>11
<1>15. \A c \in K : events'[key(c)].lead = c.lead /\ events'[key(c)].count = Cardinality(c.members)
  <2> HIDE DEF K, key, found
  <2> QED
    BY <1>9, <1>11, <1>12 DEF found
<1>16. ASSUME NEW k \in EventKeys, events'[k] # NoRow
       PROVE  events'[k].count \in 1..Cardinality(Articles)
  <2>1. CASE \E c \in K : key(c) = k
    BY <1>9, <1>15, <2>1
  <2>2. CASE ~ \E c \in K : key(c) = k
    <3>1. events'[k] = events[k]
      BY <1>12, <2>2
    <3> QED
      BY <1>16, <3>1 DEF IInv, Counts
  <2> QED
    BY <2>1, <2>2
<1> HIDE DEF K, home, key, entry, found, C, of, by, listed
<1>17. ASSUME NEW a \in S
       PROVE  /\ articles'[a] \in RowTypes /\ Sound(articles'[a])
              /\ articles'[a].event = key(home(a))
  <2> DEFINE new == Changed(articles[a], articles[a].status, articles[a].text,
                            articles[a].published, articles[a].of, key(home(a)))
  <2>1. a \in Articles /\ articles[a] \in RowTypes /\ Sound(articles[a])
    BY <1>1, <1>2 DEF Existing, Tabled
  <2>2. articles[a] = [status |-> articles[a].status, source |-> articles[a].source,
                       text |-> articles[a].text, published |-> articles[a].published,
                       of |-> articles[a].of, event |-> articles[a].event]
    BY <2>1, RowFields
  <2>3. articles'[a] = [articles[a] EXCEPT !.event = key(home(a))]
    BY <1>12, <2>1
  <2>4. articles'[a] = new
    BY <2>2, <2>3 DEF Changed
  <2>5. key(home(a)) \in EventKeys
    BY <1>7, <1>9
  <2>6. new \in RowTypes
    BY <2>1, <2>5, ChangedRow, RowFields
  <2>7. /\ new.status = articles[a].status /\ new.text = articles[a].text
        /\ new.of = articles[a].of /\ new.event = key(home(a))
    BY DEF Changed
  <2> HIDE DEF new
  <2>8. Sound(new)
    BY <2>1, <2>7 DEF Sound
  <2> QED
    BY <2>4, <2>6, <2>7, <2>8
<1>18. ASSUME NEW a \in Articles
       PROVE  articles'[a] = articles[a] \/ (articles'[a] \in RowTypes /\ Sound(articles'[a]))
  <2>1. CASE a \in S
    BY <1>17, <2>1
  <2>2. CASE a \notin S
    BY <1>12, <2>2
  <2> QED
    BY <2>1, <2>2
<1>19. DOMAIN articles' = Articles /\ articles' = [a \in Articles |-> articles'[a]]
  BY <1>12
<1>20. Tabled(articles') /\ Existing \subseteq Existing'
  <2>1. Tabled(articles') /\ \A a \in Articles : articles[a] # NoRow => articles'[a] # NoRow
    BY <1>1, <1>18, <1>19, NextTable
  <2> QED
    BY <2>1 DEF Existing
<1>21. listed \subseteq [key : EventKeys, lead : Articles, members : SUBSET Articles]
       /\ \A x \in listed : \E c \in K : x = entry(c)
  BY <1>13 DEF listed
<1>22. /\ run' \in RunTypes /\ run'.at = "edit" /\ run'.collected = run.collected
       /\ run'.targets = run.targets /\ run'.filtered = run.filtered
       /\ run'.primary = S /\ run'.of = run.of
       /\ run'.similar = z /\ run'.clusters = listed
  <2>1. z \in SUBSET SUBSET Articles
    BY <1>2 DEF Pairs
  <2>2. run' = [run EXCEPT !.similar = z, !.at = "edit", !.clusters = listed] /\ run \in RunTypes
    BY <1>1, <1>12 DEF listed
  <2>3. listed \in SUBSET [key : EventKeys, lead : Articles, members : SUBSET Articles]
    BY <1>21
  <2> QED
    BY <2>1, <2>2, <2>3 DEF RunTypes, Stages
<1>23. Held'
  <2>1. run'.collected \subseteq Existing' /\ run'.targets \subseteq run'.collected
    BY <1>1, <1>20, <1>22
  <2>2. /\ flow' \in FlowTypes /\ flow'.collected \cup flow'.targets \subseteq Existing'
        /\ (lineage' # <<>> => Head(lineage') \subseteq Existing')
    BY <1>4, <1>20 DEF IInv, Held
  <2> QED
    BY <1>22, <2>1, <2>2 DEF Held
<1>24. EveryArticleIsAccountedFor'
  <2> SUFFICES ASSUME NEW a \in run.collected \ run.filtered
               PROVE  \E c \in listed : LostTo(a)' \cap c.members # {}
    BY <1>22 DEF EveryArticleIsAccountedFor
  <2>1. a \in run.eligible
    BY <1>1 DEF Parted
  <2>2. LostTo(a)' = LostTo(a)
    BY <1>22 DEF LostTo
  <2>3. PICK w \in S : w \in LostTo(a)
    BY <1>1, <2>1
  <2>4. PICK c \in K : w \in c.members
    BY <1>6
  <2>5. entry(c) \in listed /\ entry(c).members = c.members
    BY <1>13 DEF listed
  <2> QED
    BY <2>2, <2>3, <2>4, <2>5
<1>25. ASSUME NEW a \in S
       PROVE  Cardinality({x \in listed : a \in x.members}) = 1
  <2>1. home(a) \in K /\ a \in home(a).members
    BY <1>7
  <2>2. \A x \in listed : a \in x.members <=> x = entry(home(a))
    BY <1>6, <1>13, <1>21, <2>1
  <2>3. entry(home(a)) \in listed
    BY <2>1 DEF listed
  <2>4. {x \in listed : a \in x.members} = {entry(home(a))}
    BY <2>2, <2>3
  <2> QED
    BY <2>4, FS_Singleton
<1>26. ASSUME NEW x \in listed
       PROVE  /\ x.lead \in x.members
              /\ \A a \in x.members \ {x.lead} : {a, x.lead} \in z
              /\ events'[x.key].lead = x.lead /\ events'[x.key].count = Cardinality(x.members)
              /\ \A a \in x.members : articles'[a].event \in {x.key, NoEvent}
  <2>1. PICK c \in K : x = entry(c)
    BY <1>21
  <2>2. x.key = key(c) /\ x.lead = c.lead /\ x.members = c.members
    BY <1>13, <2>1
  <2>3. \A a \in c.members : articles'[a].event = key(c)
    BY <1>6, <1>8, <1>17
  <2> QED
    BY <1>6, <1>15, <2>2, <2>3
<1>27. EventsFollowTheEvidence'
  BY <1>22, <1>25, <1>26 DEF EventsFollowTheEvidence
<1>28. Checkpointed'
  BY <1>22, <1>24, <1>27 DEF Checkpointed
<1>29. Counts' /\ Bounded'
  BY <1>4, <1>16, SameBounds DEF Counts
<1> QED
  BY <1>20, <1>23, <1>28, <1>29 DEF IInv

LEMMA FlowStartStep ==
  ASSUME IInv, FlowStart  PROVE IInv'
<1>1. /\ LoopIsFree /\ flow' = [NoFlow EXCEPT !.at = "collect", !.left = BriefingSources]
      /\ UNCHANGED <<articles, events, run, lineage, today, started, crashes>>
      /\ briefings < MaxBriefings /\ briefings' = briefings + 1
  BY DEF FlowStart
<1>2. flow' \in FlowTypes /\ flow'.collected = {} /\ flow'.targets = {}
  BY <1>1, SelectionsAreOfSources DEF FlowTypes, NoFlow
<1>3. OnlyDetached
  BY <1>1, SameRows
<1>4. Bounded'
  <2>1. MaxBriefings \in Nat /\ briefings \in 0..MaxBriefings
    BY NewsConstantsOK DEF IInv, Bounded
  <2>2. briefings' \in 0..MaxBriefings
    BY <1>1, <2>1
  <2> QED
    BY <1>1, <2>2 DEF IInv, Bounded
<1> QED
  BY <1>1, <1>2, <1>3, <1>4, FlowStep

LEMMA FlowCollectStep ==
  ASSUME IInv, FlowCollect  PROVE IInv'
<1>1. PICK found \in SUBSET Lists[Head(flow.left)] :
        /\ Collect(Head(flow.left), BriefingAge, found)
        /\ flow' = [flow EXCEPT !.left = Tail(@), !.collected = @ \cup found]
  BY DEF FlowCollect
<1>2. /\ UNCHANGED <<events, run, lineage, bounds>> /\ LoopIsFree /\ flow.left # <<>>
      /\ flow \in FlowTypes
  BY DEF FlowCollect, IInv, Held
<1>3. flow.left \in Seq(Sources) /\ flow.collected \subseteq Articles
  BY <1>2 DEF FlowTypes
<1>4. Head(flow.left) \in Sources /\ Tail(flow.left) \in Seq(Sources)
  BY <1>2, <1>3
<1>5. OnlyDetached /\ found \subseteq Existing'
  BY <1>1, <1>4, CollectRows DEF IInv, Bounded
<1>6. found \subseteq Articles
  BY <1>4, NewsConstantsOK
<1>7. /\ flow' \in FlowTypes /\ flow'.collected = flow.collected \cup found
      /\ flow'.targets = flow.targets
  BY <1>1, <1>2, <1>3, <1>4, <1>6 DEF FlowTypes
<1>8. flow'.collected \cup flow'.targets \subseteq Existing'
  BY <1>5, <1>7 DEF IInv, Held, OnlyDetached
<1>9. Bounded'
  BY <1>2, SameBounds
<1> QED
  BY <1>2, <1>5, <1>7, <1>8, <1>9, FlowStep

LEMMA FlowFetchStep ==
  ASSUME IInv, FlowFetch  PROVE IInv'
<1> DEFINE T == ExtractionTargets(flow.collected)
<1>1. /\ LoopIsFree /\ flow' = [flow EXCEPT !.targets = T, !.at = "extract"]
      /\ UNCHANGED <<articles, events, run, lineage, bounds>>
  BY DEF FlowFetch
<1>2. T \subseteq flow.collected
  BY DEF ExtractionTargets
<1> HIDE DEF T
<1>3. flow \in FlowTypes
  BY DEF IInv, Held
<1>4. flow' \in FlowTypes /\ flow'.collected = flow.collected /\ flow'.targets = T
  BY <1>1, <1>2, <1>3 DEF FlowTypes
<1>5. OnlyDetached
  BY <1>1, SameRows
<1>6. flow'.collected \cup flow'.targets \subseteq Existing'
  BY <1>2, <1>4, <1>5 DEF IInv, Held, OnlyDetached
<1>7. Bounded'
  BY <1>1, SameBounds
<1> QED
  BY <1>1, <1>4, <1>5, <1>6, <1>7, FlowStep

LEMMA FlowExtractStep ==
  ASSUME IInv, FlowExtract  PROVE IInv'
<1>1. PICK page \in [flow.targets -> Pages \cup {Failed}] :
        /\ articles' = [a \in Articles |-> IF a \in flow.targets THEN Extracted(articles[a], page[a])
                                           ELSE articles[a]]
        /\ flow' = [flow EXCEPT !.collected = @ \ {a \in flow.targets : page[a] = Failed},
                                !.at = "verify"]
  BY DEF FlowExtract
<1>2. /\ UNCHANGED <<events, run, lineage, bounds>> /\ LoopIsFree
      /\ flow \in FlowTypes /\ Tabled(articles)
      /\ flow.collected \subseteq Existing /\ flow.targets \subseteq Existing
  BY DEF FlowExtract, IInv, Held
<1>3. \A a \in flow.targets : page[a] \in Pages \cup {Failed}
  OBVIOUS
<1>4. OnlyDetached
  BY <1>1, <1>2, <1>3, ExtractRows
<1>5. /\ flow' \in FlowTypes /\ flow'.collected \subseteq flow.collected
      /\ flow'.targets = flow.targets
  BY <1>1, <1>2 DEF FlowTypes
<1>6. flow'.collected \cup flow'.targets \subseteq Existing'
  BY <1>2, <1>4, <1>5 DEF OnlyDetached
<1>7. Bounded'
  BY <1>2, SameBounds
<1> QED
  BY <1>2, <1>4, <1>5, <1>6, <1>7, FlowStep

(* The briefing's filter, at any point of the worker's run at which the    *)
(* loop is free: it takes articles out of events and puts none in.         *)
LEMMA FlowFilterStep ==
  ASSUME IInv, FlowFilter  PROVE IInv'
<1>1. PICK reached \in SUBSET (flow.collected \ flow.targets) :
        articles' = FilteredRows(reached \cup (flow.collected \cap flow.targets), BriefingAge)
  BY DEF FlowFilter
<1>2. /\ UNCHANGED <<events, run, lineage, bounds>> /\ LoopIsFree /\ flow' = NoFlow
      /\ Tabled(articles) /\ flow.collected \subseteq Existing
  BY DEF FlowFilter, IInv, Held
<1>3. reached \cup (flow.collected \cap flow.targets) \subseteq Existing
  BY <1>2
<1>4. OnlyDetached
  BY <1>1, <1>2, <1>3, FilterRows
<1>5. flow' \in FlowTypes /\ flow'.collected = {} /\ flow'.targets = {}
  BY <1>2 DEF FlowTypes, NoFlow
<1>6. Bounded'
  BY <1>2, SameBounds
<1> QED
  BY <1>2, <1>4, <1>5, <1>6, FlowStep

(* A crash forgets both runs; the collected set is in the checkpoints.     *)
LEMMA CrashStep ==
  ASSUME IInv, Crash  PROVE IInv'
<1>1. /\ run' = Idle /\ flow' = NoFlow /\ UNCHANGED <<articles, events, today, briefings>>
      /\ crashes < MaxCrashes /\ crashes' = crashes + 1
      /\ lineage' = (IF run.at = "collect" THEN <<>> ELSE <<run.collected>>)
      /\ started' = (run.at # "collect")
  BY DEF Crash
<1>2. /\ run' \in RunTypes /\ run'.at = "idle" /\ run'.collected = {} /\ run'.targets = {}
      /\ flow' \in FlowTypes /\ flow'.collected = {} /\ flow'.targets = {}
  BY <1>1 DEF RunTypes, FlowTypes, Idle, NoFlow, Stages
<1>3. OnlyDetached
  BY <1>1, SameRows
<1>4. lineage' # <<>> => Head(lineage') \subseteq Existing'
  BY <1>1, <1>3 DEF IInv, Held, OnlyDetached
<1>5. Held'
  BY <1>2, <1>4 DEF Held
<1>6. Bounded'
  <2>1. MaxCrashes \in Nat /\ crashes \in 0..MaxCrashes
    BY NewsConstantsOK DEF IInv, Bounded
  <2>2. crashes' \in 0..MaxCrashes
    BY <1>1, <2>1
  <2>3. started' \in BOOLEAN
    BY <1>1
  <2> QED
    BY <1>1, <2>2, <2>3 DEF IInv, Bounded
<1>7. Checkpointed'
  BY <1>2, NothingHandedOn
<1>8. Counts'
  BY <1>1 DEF IInv, Counts
<1> QED
  BY <1>3, <1>5, <1>6, <1>7, <1>8 DEF IInv, OnlyDetached

LEMMA RecoverStep ==
  ASSUME IInv, Recover  PROVE IInv'
<1>1. /\ run' = [Idle EXCEPT !.at = "targets", !.collected = Head(lineage)] /\ lineage' = <<>>
      /\ UNCHANGED <<articles, events, flow, bounds>>
      /\ Head(lineage) \subseteq Existing
  BY DEF Recover, IInv, Held
<1>2. Head(lineage) \subseteq Articles
  BY <1>1 DEF Existing
<1>3. /\ run' \in RunTypes /\ run'.at = "targets" /\ run'.collected = Head(lineage)
      /\ run'.targets = {}
  <2> DEFINE C == Head(lineage)
  <2>1. run' = [Idle EXCEPT !.at = "targets", !.collected = C] /\ C \in SUBSET Articles
    BY <1>1, <1>2
  <2> HIDE DEF C
  <2>2. run' \in RunTypes /\ run'.at = "targets" /\ run'.collected = C /\ run'.targets = {}
    <3>1. Idle \in RunTypes /\ Idle.targets = {}
      BY DEF RunTypes, Idle, Stages
    <3>2. "targets" \in Stages
      BY DEF Stages
    <3> HIDE DEF Idle
    <3> QED
      BY <2>1, <3>1, <3>2 DEF RunTypes
  <2> QED
    BY <2>2 DEF C
<1>4. OnlyDetached
  BY <1>1, SameRows
<1>5. run'.collected \subseteq Existing'
  BY <1>1, <1>3, <1>4 DEF OnlyDetached
<1>6. Bounded'
  BY <1>1, SameBounds
<1> QED
  BY <1>1, <1>3, <1>4, <1>5, <1>6, RunStep

LEMMA NextDayStep ==
  ASSUME IInv, NextDay  PROVE IInv'
<1>1. /\ UNCHANGED <<articles, events, run, flow, lineage, briefings, crashes>>
      /\ today < LastDay /\ today' = today + 1 /\ started' = FALSE /\ run.at = "idle"
  BY DEF NextDay
<1>2. OnlyDetached
  BY <1>1, SameRows
<1>3. /\ run' \in RunTypes /\ run'.targets \subseteq run'.collected
      /\ run'.collected \subseteq Existing'
      /\ (lineage' # <<>> => Head(lineage') \subseteq Existing')
  BY <1>1, <1>2 DEF IInv, Held, OnlyDetached
<1>4. Bounded'
  <2>1. LastDay \in Nat /\ today \in 0..LastDay
    BY NewsConstantsOK DEF IInv, Bounded, Days
  <2>2. today' \in Days
    BY <1>1, <2>1 DEF Days
  <2>3. started' \in BOOLEAN
    BY <1>1
  <2> QED
    BY <1>1, <2>2, <2>3 DEF IInv, Bounded
<1> QED
  BY <1>1, <1>2, <1>3, <1>4, RunStep

LEMMA StutterStep ==
  ASSUME IInv, UNCHANGED vars  PROVE IInv'
<1>1. UNCHANGED <<articles, events, run, flow, lineage, bounds>>
  BY DEF vars
<1>2. Bounded'
  BY <1>1, SameBounds
<1>3. Tabled(articles)' /\ Counts'
  BY <1>1 DEF IInv, Counts
<1>4. Held'
  BY <1>1 DEF IInv, Held, Existing
<1>5. \A a : LostTo(a)' = LostTo(a)
  BY <1>1 DEF LostTo
<1>6. EveryArticleIsAccountedFor'
  BY <1>1, <1>5 DEF IInv, Checkpointed, EveryArticleIsAccountedFor
<1>7. EventsFollowTheEvidence'
  BY <1>1 DEF IInv, Checkpointed, EventsFollowTheEvidence
<1>8. run'.at = "cluster" => \A a \in run'.eligible : LostTo(a)' \cap run'.primary # {}
  BY <1>1, <1>5 DEF IInv, Checkpointed
<1>9. Checkpointed'
  BY <1>1, <1>6, <1>7, <1>8 DEF IInv, Checkpointed, Parted
<1> QED
  BY <1>2, <1>3, <1>4, <1>9 DEF IInv

LEMMA NextInv ==
  IInv /\ [Next]_vars => IInv'
<1> SUFFICES ASSUME IInv, [Next]_vars  PROVE IInv'
  OBVIOUS
<1>1. CASE Pipeline
  BY <1>1, StartStep, CollectSourceStep, FindTargetsStep, ExtractStep, FilterStep,
     DeduplicateStep, ClusterStep, EndRunStep DEF Pipeline
<1>2. CASE Flow
  BY <1>2, FlowStartStep, FlowCollectStep, FlowFetchStep, FlowExtractStep, FlowFilterStep
     DEF Flow
<1>3. CASE Process
  BY <1>3, CrashStep, RecoverStep, NextDayStep DEF Process
<1>4. CASE UNCHANGED vars
  BY <1>4, StutterStep
<1> QED
  BY <1>1, <1>2, <1>3, <1>4 DEF Next

LEMMA Invariance ==
  Spec => []IInv
<1>1. Init => IInv
  BY InitInv
<1>2. IInv /\ [Next]_vars => IInv'
  BY NextInv
<1> QED
  BY <1>1, <1>2, PTL DEF Spec

-----------------------------------------------------------------------------
(* Theorems                                                                 *)

(* Whatever the sources list, the pages hold and the two runs write in     *)
(* between, the rows keep their shape: nothing eligible or duplicate is    *)
(* shorter than the filter allows, every stored event counts articles that *)
(* exist, and a run never speaks of an article without a row.              *)
THEOREM TypeCorrect == Spec => []TypeOK
<1>1. IInv => TypeOK
  <2> SUFFICES ASSUME IInv  PROVE TypeOK
    OBVIOUS
  <2>1. ASSUME NEW a \in Articles, articles[a] # NoRow
        PROVE  /\ articles[a] \in RowTypes
               /\ articles[a].status \in {"eligible", "duplicate"} => Size(articles, a) >= MinLength
               /\ articles[a].status = "discovered" => articles[a].text = NoText
               /\ articles[a].status = "duplicate" => articles[a].of # NoArticle
    <3>1. articles[a] \in RowTypes /\ Sound(articles[a])
      BY <2>1 DEF IInv, Tabled
    <3> QED
      BY <3>1 DEF Sound, Size
  <2>2. \A k \in EventKeys : events[k] # NoRow => events[k].count \in 1..Cardinality(Articles)
    BY DEF IInv, Counts
  <2>3. Rows(run.collected \cup flow.collected) = run.collected \cup flow.collected
    BY DEF IInv, Held, Rows, Existing
  <2> QED
    BY <2>1, <2>2, <2>3 DEF TypeOK, IInv, Bounded, Held
<1> QED
  BY <1>1, Invariance, PTL

(* No article a run has collected is lost on its way to the editors, for   *)
(* every likeness of bodies and titles, every cosine, every interleaving   *)
(* with the briefing and every crash: the chain of the articles it lost to *)
(* (pipeline/steps, news/deduplication.py) ends in an event.      *)
THEOREM NothingIsLost == Spec => []EveryArticleIsAccountedFor
<1>1. IInv => EveryArticleIsAccountedFor
  BY DEF IInv, Checkpointed
<1> QED
  BY <1>1, Invariance, PTL

(* The events the editors read are a partition of the primary articles,    *)
(* each told by its own representative, and neither the rows of another    *)
(* run under the same key nor the briefing's writes make an article point  *)
(* at a different event (news/clustering.py, news/service.py).    *)
THEOREM EventsAreAPartition == Spec => []EventsFollowTheEvidence
<1>1. IInv => EventsFollowTheEvidence
  BY DEF IInv, Checkpointed
<1> QED
  BY <1>1, Invariance, PTL

===============================================================================
