------------------------------ MODULE LoopProofs ------------------------------
(***************************************************************************)
(* Lemmas about loops, for every body, start and sequence.                 *)
(***************************************************************************)
EXTENDS Loops, Integers, SequenceTheorems, FiniteSetTheorems, WellFoundedInduction, TLAPS

-----------------------------------------------------------------------------
(* Numbers                                                                  *)

(* Every set of numbers that is not empty has a least one.                 *)
LEMMA LeastNumber ==
  ASSUME NEW T, T \subseteq Nat, T # {}
  PROVE  \E x \in T : \A y \in T : x <= y
<1> DEFINE R == OpToRel(<, Nat)
<1>1. IsWellFoundedOn(R, Nat)
  BY NatLessThanWellFounded
<1>2. R = {ss \in Nat \X Nat : ss[1] < ss[2]}
  BY DEF OpToRel
<1>3. \A x, y \in Nat : x < y => <<x, y>> \in R
  BY <1>2
<1> HIDE DEF R
<1>4. PICK x \in T : \A y \in T : ~ (<<y, x>> \in R)
  BY <1>1, WFMin, Zenon
<1>5. ASSUME NEW y \in T  PROVE x <= y
  <2>1. ~ (<<y, x>> \in R) /\ x \in Nat /\ y \in Nat
    BY <1>4
  <2>2. ~ (y < x)
    BY <1>3, <2>1, Zenon
  <2> QED
    BY <2>1, <2>2
<1> QED
  BY <1>5

(* Induction over the places of a loop.                                    *)
LEMMA Upwards ==
  ASSUME NEW n \in Nat, NEW S, 0 \in S,
         \A k \in 1..n : k - 1 \in S => k \in S
  PROVE  \A k \in 0..n : k \in S
<1> SUFFICES ASSUME NEW m \in 0..n, m \notin S PROVE FALSE
  OBVIOUS
<1> DEFINE T == {k \in 0..n : k \notin S}
<1>1. T \subseteq Nat /\ T # {}
  OBVIOUS
<1>2. PICK k \in T : \A j \in T : k <= j
  <2> HIDE DEF T
  <2> QED
    BY <1>1, LeastNumber
<1>3. k \in 1..n /\ k - 1 \in 0..n
  BY <1>2
<1>4. k - 1 \notin T
  BY <1>2, <1>3
<1> QED
  BY <1>2, <1>3, <1>4

-----------------------------------------------------------------------------
(* Loops                                                                    *)

(* A loop goes through a value after each item.                            *)
LEMMA LoopHasValues ==
  ASSUME NEW T, NEW s \in Seq(T), NEW body, NEW start
  PROVE  \E after :
           /\ after = [k \in 0..Len(s) |-> IF k = 0 THEN start ELSE body[after[k - 1]][s[k]]]
           /\ Loop(body, start, s) = after[Len(s)]
<1> DEFINE Runs(h, n) == h = [k \in 0..n |-> IF k = 0 THEN start ELSE body[h[k - 1]][s[k]]]
           Reached == {n \in 0..Len(s) : \E h : Runs(h, n)}
<1>1. Len(s) \in Nat
  OBVIOUS
<1>2. 0 \in Reached
  <2>1. Runs([k \in 0..0 |-> start], 0)
    OBVIOUS
  <2> HIDE DEF Runs
  <2>2. 0 \in 0..Len(s)
    BY <1>1
  <2> QED
    BY <2>1, <2>2
<1>3. ASSUME NEW n \in 1..Len(s), n - 1 \in Reached
      PROVE  n \in Reached
  <2>1. PICK h : Runs(h, n - 1)
    BY <1>3
  <2> DEFINE g == [k \in 0..n |-> IF k = n THEN body[h[n - 1]][s[n]] ELSE h[k]]
  <2>2. ASSUME NEW k \in 0..n
        PROVE  g[k] = IF k = 0 THEN start ELSE body[g[k - 1]][s[k]]
    <3>1. CASE k = n
      BY <1>3, <3>1
    <3>2. CASE k # n
      <4>1. k \in 0..(n - 1) /\ g[k] = h[k]
        BY <3>2
      <4>2. h[k] = IF k = 0 THEN start ELSE body[h[k - 1]][s[k]]
        BY <2>1, <4>1, Zenon
      <4>3. k # 0 => k - 1 \in 0..n /\ k - 1 # n /\ g[k - 1] = h[k - 1]
        BY <4>1
      <4> QED
        BY <4>1, <4>2, <4>3
    <3> QED
      BY <3>1, <3>2
  <2>3. Runs(g, n)
    BY <2>2
  <2> HIDE DEF Runs, g
  <2>4. n \in 0..Len(s)
    BY <1>1
  <2> QED
    BY <2>3, <2>4
<1>4. Len(s) \in Reached
  <2> HIDE DEF Reached
  <2>1. \A k \in 0..Len(s) : k \in Reached
    BY <1>1, <1>2, <1>3, Upwards
  <2> QED
    BY <1>1, <2>1
<1> DEFINE after == CHOOSE h : Runs(h, Len(s))
<1>5. Runs(after, Len(s))
  BY <1>4
<1>6. Loop(body, start, s) = after[Len(s)]
  BY DEF Loop
<1> QED
  BY <1>5, <1>6

(* What a loop keeps: I[k] holds after k items.                            *)
LEMMA LoopKeeps ==
  ASSUME NEW T, NEW s \in Seq(T), NEW body, NEW start, NEW I,
         start \in I[0],
         \A k \in 1..Len(s) : \A x \in I[k - 1] : body[x][s[k]] \in I[k]
  PROVE  Loop(body, start, s) \in I[Len(s)]
<1>1. PICK after :
        /\ after = [k \in 0..Len(s) |-> IF k = 0 THEN start ELSE body[after[k - 1]][s[k]]]
        /\ Loop(body, start, s) = after[Len(s)]
  BY LoopHasValues
<1>2. \A k \in 0..Len(s) : after[k] = IF k = 0 THEN start ELSE body[after[k - 1]][s[k]]
  BY <1>1, Zenon
<1> DEFINE Good == {k \in 0..Len(s) : after[k] \in I[k]}
<1>3. Len(s) \in Nat
  OBVIOUS
<1>4. 0 \in Good
  BY <1>2, <1>3
<1>5. \A k \in 1..Len(s) : k - 1 \in Good => k \in Good
  BY <1>2, <1>3
<1>6. Len(s) \in Good
  <2> HIDE DEF Good
  <2>1. \A k \in 0..Len(s) : k \in Good
    BY <1>3, <1>4, <1>5, Upwards
  <2> QED
    BY <1>3, <2>1
<1> QED
  BY <1>1, <1>6

(* A loop over one item more.                                              *)
LEMMA LoopUnrolls ==
  ASSUME NEW T, NEW s \in Seq(T), NEW x \in T, NEW body, NEW start
  PROVE  Loop(body, start, Append(s, x)) = body[Loop(body, start, s)][x]
<1> DEFINE t == Append(s, x)
<1>1. /\ t \in Seq(T) /\ Len(s) \in Nat /\ Len(t) = Len(s) + 1 /\ t[Len(s) + 1] = x
      /\ \A i \in 1..Len(s) : t[i] = s[i]
  OBVIOUS
<1> HIDE DEF t
<1>2. PICK after :
        /\ after = [k \in 0..Len(s) |-> IF k = 0 THEN start ELSE body[after[k - 1]][s[k]]]
        /\ Loop(body, start, s) = after[Len(s)]
  BY LoopHasValues
<1>3. \A k \in 0..Len(s) : after[k] = IF k = 0 THEN start ELSE body[after[k - 1]][s[k]]
  BY <1>2, Zenon
<1>4. PICK longer :
        /\ longer = [k \in 0..Len(t) |-> IF k = 0 THEN start ELSE body[longer[k - 1]][t[k]]]
        /\ Loop(body, start, t) = longer[Len(t)]
  <2>1. t \in Seq(T)
    BY <1>1
  <2> QED
    BY <2>1, LoopHasValues
<1>5. \A k \in 0..Len(t) : longer[k] = IF k = 0 THEN start ELSE body[longer[k - 1]][t[k]]
  BY <1>4, Zenon
<1> DEFINE Same == {k \in 0..Len(s) : after[k] = longer[k]}
<1>6. 0 \in Same
  BY <1>1, <1>3, <1>5
<1>7. \A k \in 1..Len(s) : k - 1 \in Same => k \in Same
  BY <1>1, <1>3, <1>5
<1>8. Len(s) \in Same
  <2> HIDE DEF Same
  <2>1. \A k \in 0..Len(s) : k \in Same
    BY <1>1, <1>6, <1>7, Upwards
  <2> QED
    BY <1>1, <2>1
<1>9. longer[Len(s) + 1] = body[longer[Len(s)]][x]
  <2>1. Len(s) + 1 \in 0..Len(t) /\ Len(s) + 1 # 0 /\ (Len(s) + 1) - 1 = Len(s)
    BY <1>1
  <2> QED
    BY <1>1, <1>5, <2>1
<1> QED
  BY <1>1, <1>2, <1>4, <1>8, <1>9 DEF t

-----------------------------------------------------------------------------
(* Sequences and what they list                                             *)

(* What a sequence of members of T has at its places.                      *)
LEMMA Sequences ==
  ASSUME NEW T, NEW s \in Seq(T)
  PROVE  /\ Len(s) \in Nat /\ DOMAIN s = 1..Len(s)
         /\ ToSet(s) = {s[i] : i \in 1..Len(s)} /\ ToSet(s) \subseteq T
         /\ \A i \in 1..Len(s) : s[i] \in T /\ s[i] \in ToSet(s)
         /\ \A x \in ToSet(s) : \E i \in 1..Len(s) : s[i] = x
BY DEF ToSet

(* A sequence is one of the set it lists, and of any set that includes it. *)
LEMMA SequenceOfItsItems ==
  ASSUME NEW T, NEW s \in Seq(T), NEW S, ToSet(s) \subseteq S
  PROVE  s \in Seq(S)
<1>1. /\ Len(s) \in Nat /\ s \in [1..Len(s) -> T]
      /\ \A i \in 1..Len(s) : s[i] \in S
  BY Sequences, LenProperties
<1>2. s \in [1..Len(s) -> S]
  BY <1>1
<1> QED
  BY <1>1, <1>2, SeqDef

(* The empty sequence.                                                     *)
LEMMA Empty ==
  /\ \A T : <<>> \in Seq(T)
  /\ Len(<<>>) = 0 /\ ToSet(<<>>) = {} /\ IsInjective(<<>>)
BY DEF ToSet, IsInjective

(* One item more.                                                          *)
LEMMA Longer ==
  ASSUME NEW T, NEW s \in Seq(T), NEW x \in T
  PROVE  LET t == Append(s, x) IN
         /\ t \in Seq(T) /\ Len(t) = Len(s) + 1 /\ t[Len(s) + 1] = x
         /\ \A i \in 1..Len(s) : t[i] = s[i]
         /\ ToSet(t) = ToSet(s) \cup {x}
         /\ IsInjective(s) /\ x \notin ToSet(s) => IsInjective(t)
<1> DEFINE t == Append(s, x)
<1>1. /\ t \in Seq(T) /\ Len(t) = Len(s) + 1 /\ t[Len(s) + 1] = x
      /\ \A i \in 1..Len(s) : t[i] = s[i]
  OBVIOUS
<1>2. Len(s) \in Nat /\ DOMAIN s = 1..Len(s) /\ DOMAIN t = 1..(Len(s) + 1)
  BY <1>1
<1> HIDE DEF t
<1>3. ToSet(t) = ToSet(s) \cup {x}
  <2>1. ASSUME NEW y \in ToSet(t)  PROVE y \in ToSet(s) \cup {x}
    <3>1. PICK i \in 1..(Len(s) + 1) : y = t[i]
      BY <1>2, <2>1 DEF ToSet
    <3>2. i = Len(s) + 1 \/ i \in 1..Len(s)
      BY <1>2
    <3> QED
      BY <1>1, <1>2, <3>1, <3>2 DEF ToSet
  <2>2. x \in ToSet(t)
    BY <1>1, <1>2 DEF ToSet
  <2>3. ASSUME NEW i \in 1..Len(s)  PROVE s[i] \in ToSet(t)
    <3>1. i \in 1..(Len(s) + 1)
      BY <1>2
    <3> QED
      BY <1>1, <1>2, <3>1 DEF ToSet
  <2>4. ToSet(s) = {s[i] : i \in 1..Len(s)}
    BY <1>2 DEF ToSet
  <2> QED
    BY <2>1, <2>2, <2>3, <2>4
<1>4. ASSUME IsInjective(s), x \notin ToSet(s)  PROVE IsInjective(t)
  <2> SUFFICES ASSUME NEW i \in 1..(Len(s) + 1), NEW j \in 1..(Len(s) + 1), t[i] = t[j]
               PROVE  i = j
    BY <1>2 DEF IsInjective
  <2>1. \A k \in 1..Len(s) : t[k] # x
    BY <1>1, <1>2, <1>4 DEF ToSet
  <2>2. CASE i \in 1..Len(s) /\ j \in 1..Len(s)
    BY <1>1, <1>2, <1>4, <2>2 DEF IsInjective
  <2>3. CASE i = Len(s) + 1 \/ j = Len(s) + 1
    BY <1>1, <1>2, <2>1, <2>3
  <2> QED
    BY <1>2, <2>2, <2>3
<1> QED
  BY <1>1, <1>3, <1>4 DEF t

(* Backwards.                                                              *)
LEMMA Backwards ==
  ASSUME NEW T, NEW s \in Seq(T)
  PROVE  LET t == Reverse(s) IN t \in Seq(T) /\ Len(t) = Len(s) /\ ToSet(t) = ToSet(s)
<1> DEFINE t == Reverse(s)
<1>1. Len(s) \in Nat /\ \A i \in 1..Len(s) : (Len(s) - i) + 1 \in 1..Len(s)
  OBVIOUS
<1>2. t = [i \in 1..Len(s) |-> s[(Len(s) - i) + 1]]
  BY DEF Reverse
<1>3. t \in Seq(T) /\ Len(t) = Len(s) /\ \A i \in 1..Len(s) : t[i] = s[(Len(s) - i) + 1]
  BY <1>1, <1>2
<1> HIDE DEF t
<1>4. ToSet(t) = {t[i] : i \in 1..Len(s)} /\ ToSet(s) = {s[i] : i \in 1..Len(s)}
  BY <1>3, Sequences
<1>5. \A i \in 1..Len(s) : t[i] \in ToSet(s)
  BY <1>1, <1>3, <1>4
<1>6. ASSUME NEW i \in 1..Len(s)  PROVE s[i] \in ToSet(t)
  <2>1. (Len(s) - i) + 1 \in 1..Len(s) /\ (Len(s) - ((Len(s) - i) + 1)) + 1 = i
    BY <1>1
  <2>2. t[(Len(s) - i) + 1] = s[i]
    BY <1>3, <2>1
  <2> QED
    BY <1>4, <2>1, <2>2
<1> QED
  BY <1>3, <1>4, <1>5, <1>6 DEF t

(* The first n items.                                                      *)
LEMMA FirstItems ==
  ASSUME NEW T, NEW s \in Seq(T), NEW n \in Nat
  PROVE  LET t == FirstOf(s, n) IN
         /\ t \in Seq(T) /\ Len(t) = Lesser(n, Len(s)) /\ Len(t) <= n /\ Len(t) <= Len(s)
         /\ \A i \in 1..Len(t) : t[i] = s[i]
         /\ ToSet(t) \subseteq ToSet(s)
         /\ IsInjective(s) => IsInjective(t)
         /\ Len(s) <= n => t = s
<1> DEFINE m == Lesser(n, Len(s))
           t == SubSeq(s, 1, m)
<1>1. m \in 0..Len(s) /\ m <= n /\ (Len(s) <= n => m = Len(s)) /\ Len(s) \in Nat
  BY DEF Lesser
<1> HIDE DEF m
<1>2. t \in Seq(T) /\ Len(t) = m /\ \A i \in 1..m : t[i] = s[i]
  BY <1>1
<1>3. DOMAIN s = 1..Len(s) /\ DOMAIN t = 1..m
  BY <1>2
<1> HIDE DEF t
<1>4. \A i \in 1..m : i \in 1..Len(s)
  BY <1>1
<1>5. ToSet(t) \subseteq ToSet(s)
  <2> SUFFICES ASSUME NEW i \in 1..m  PROVE t[i] \in ToSet(s)
    BY <1>3 DEF ToSet
  <2> QED
    BY <1>2, <1>3, <1>4 DEF ToSet
<1>6. ASSUME IsInjective(s)  PROVE IsInjective(t)
  <2> SUFFICES ASSUME NEW i \in 1..m, NEW j \in 1..m, t[i] = t[j]  PROVE i = j
    BY <1>3 DEF IsInjective
  <2> QED
    BY <1>2, <1>3, <1>4, <1>6 DEF IsInjective
<1>7. Len(s) <= n => t = s
  BY <1>1, <1>2, SeqEqual
<1> QED
  BY <1>1, <1>2, <1>5, <1>6, <1>7 DEF t, m, FirstOf

(* A sequence without repetition is as long as what it lists.              *)
LEMMA LengthCounts ==
  ASSUME NEW T, NEW s \in Seq(T), IsInjective(s)
  PROVE  IsFiniteSet(ToSet(s)) /\ Cardinality(ToSet(s)) = Len(s)
<1>1. Len(s) \in Nat /\ DOMAIN s = 1..Len(s) /\ s \in [1..Len(s) -> ToSet(s)]
  <2>1. s \in Seq(ToSet(s))
    BY SequenceOfItsItems
  <2> QED
    BY <2>1, LenProperties
<1>2. s \in Bijection(1..Len(s), ToSet(s))
  BY <1>1 DEF IsInjective, ToSet, Bijection, Injection, Surjection
<1>3. ExistsBijection(1..Len(s), ToSet(s))
  BY <1>2 DEF ExistsBijection
<1>4. Cardinality(ToSet(s)) = Len(s)
  BY <1>1, <1>3, FS_CountingElements
<1>5. IsFiniteSet(ToSet(s))
  BY <1>1, <1>3, FS_NatBijection
<1> QED
  BY <1>4, <1>5

-----------------------------------------------------------------------------
(* The passes that several algorithms share                                 *)

(* What the first k items are.                                             *)
LEMMA OneItemMore ==
  ASSUME NEW s, NEW k \in Nat \ {0}
  PROVE  {s[i] : i \in 1..k} = {s[i] : i \in 1..(k - 1)} \cup {s[k]}
<1>1. \A i : i \in 1..k <=> i \in 1..(k - 1) \/ i = k
  OBVIOUS
<1> QED
  BY <1>1, Zenon

(* r lists members of s, and of two of them the one s lists first.         *)
InOrderOf(r, s) ==
  /\ ToSet(r) \subseteq ToSet(s)
  /\ \A i, j \in 1..Len(r) : i < j => \E p, q \in 1..Len(s) : p < q /\ s[p] = r[i] /\ s[q] = r[j]

(* What keeps the order of a list without repetitions repeats nothing.     *)
LEMMA OrderKeepsInjective ==
  ASSUME NEW T, NEW s \in Seq(T), NEW r \in Seq(T), IsInjective(s), InOrderOf(r, s)
  PROVE  IsInjective(r)
<1>1. /\ Len(s) \in Nat /\ DOMAIN s = 1..Len(s)
      /\ Len(r) \in Nat /\ DOMAIN r = 1..Len(r)
  BY Sequences
<1>2. ASSUME NEW i \in 1..Len(r), NEW j \in 1..Len(r), i < j  PROVE r[i] # r[j]
  <2>1. PICK p \in 1..Len(s), q \in 1..Len(s) : p < q /\ s[p] = r[i] /\ s[q] = r[j]
    BY <1>2 DEF InOrderOf
  <2>2. p # q
    BY <2>1
  <2> QED
    BY <1>1, <2>1, <2>2 DEF IsInjective
<1>3. \A i, j \in 1..Len(r) : r[i] = r[j] => ~ (i < j) /\ ~ (j < i)
  BY <1>2
<1>4. \A i, j \in 1..Len(r) : ~ (i < j) /\ ~ (j < i) => i = j
  BY <1>1
<1> QED
  BY <1>1, <1>3, <1>4 DEF IsInjective

(* Those picks the members of S, each as often as s lists it.              *)
LEMMA ThoseAreListed ==
  ASSUME NEW T, NEW s \in Seq(T), NEW S
  PROVE  LET r == Those(s, S) IN
         /\ r \in Seq(T) /\ ToSet(r) = ToSet(s) \cap S
         /\ InOrderOf(r, s) /\ (IsInjective(s) => IsInjective(r))
<1> DEFINE X == ToSet(s)
           before(k) == {s[i] : i \in 1..k}
           I == [k \in 0..Len(s) |->
                  {r \in Seq(X) :
                     /\ ToSet(r) = before(k) \cap S
                     /\ \A i, j \in 1..Len(r) : i < j =>
                          \E p, q \in 1..k : p < q /\ s[p] = r[i] /\ s[q] = r[j]}]
           body == [kept \in Seq(X) |-> [x \in X |-> IF x \in S THEN Append(kept, x) ELSE kept]]
<1>1. s \in Seq(X) /\ Len(s) \in Nat /\ X = before(Len(s))
  BY SequenceOfItsItems, Sequences
<1>2. <<>> \in I[0]
  BY <1>1, Empty
<1>3. ASSUME NEW k \in 1..Len(s), NEW r \in I[k - 1]
      PROVE  body[r][s[k]] \in I[k]
  <2>1. k - 1 \in 0..Len(s) /\ k \in 0..Len(s)
    BY <1>1
  <2>2. /\ r \in Seq(X) /\ ToSet(r) = before(k - 1) \cap S
        /\ \A i, j \in 1..Len(r) : i < j =>
             \E p, q \in 1..(k - 1) : p < q /\ s[p] = r[i] /\ s[q] = r[j]
    BY <1>3, <2>1
  <2>3. s[k] \in X /\ before(k) = before(k - 1) \cup {s[k]}
    <3>1. k \in Nat \ {0}
      BY <1>1
    <3> QED
      BY <1>1, <3>1, OneItemMore, Sequences
  <2>4. body[r][s[k]] = IF s[k] \in S THEN Append(r, s[k]) ELSE r
    BY <2>2, <2>3
  <2> HIDE DEF body, X
  <2> SUFFICES ASSUME NEW t, t = body[r][s[k]]
               PROVE  /\ t \in Seq(X) /\ ToSet(t) = before(k) \cap S
                      /\ \A i, j \in 1..Len(t) : i < j =>
                           \E p, q \in 1..k : p < q /\ s[p] = t[i] /\ s[q] = t[j]
    BY <2>1
  <2> HIDE DEF I
  <2>5. CASE s[k] \notin S
    <3>1. t = r /\ ToSet(t) = before(k) \cap S
      BY <2>2, <2>3, <2>4, <2>5
    <3>2. \A p \in 1..(k - 1) : p \in 1..k
      BY <1>1
    <3>3. ASSUME NEW i \in 1..Len(t), NEW j \in 1..Len(t), i < j
          PROVE  \E p, q \in 1..k : p < q /\ s[p] = t[i] /\ s[q] = t[j]
      <4>1. PICK p \in 1..(k - 1), q \in 1..(k - 1) : p < q /\ s[p] = r[i] /\ s[q] = r[j]
        BY <2>2, <3>1, <3>3
      <4> QED
        BY <3>1, <3>2, <4>1
    <3> QED
      BY <2>2, <3>1, <3>3
  <2>6. CASE s[k] \in S
    <3>1. /\ t \in Seq(X) /\ Len(t) = Len(r) + 1 /\ t[Len(r) + 1] = s[k]
          /\ \A i \in 1..Len(r) : t[i] = r[i]
          /\ ToSet(t) = ToSet(r) \cup {s[k]}
      BY <2>2, <2>3, <2>4, <2>6, Longer
    <3>2. ToSet(t) = before(k) \cap S
      BY <2>2, <2>3, <2>6, <3>1
    <3>3. ASSUME NEW i \in 1..Len(t), NEW j \in 1..Len(t), i < j
          PROVE  \E p, q \in 1..k : p < q /\ s[p] = t[i] /\ s[q] = t[j]
      <4>1. Len(r) \in Nat /\ i \in 1..Len(r) /\ (j \in 1..Len(r) \/ j = Len(r) + 1)
        BY <2>2, <3>1, <3>3, Sequences
      <4>2. CASE j \in 1..Len(r)
        <5>1. PICK p \in 1..(k - 1), q \in 1..(k - 1) : p < q /\ s[p] = r[i] /\ s[q] = r[j]
          BY <2>2, <3>3, <4>1, <4>2
        <5>2. p \in 1..k /\ q \in 1..k
          BY <1>1, <5>1
        <5> QED
          BY <3>1, <4>1, <4>2, <5>1, <5>2
      <4>3. CASE j = Len(r) + 1
        <5>1. r[i] \in before(k - 1)
          BY <2>2, <4>1, Sequences
        <5>2. PICK p \in 1..(k - 1) : s[p] = r[i]
          BY <5>1
        <5>3. k \in Nat \ {0}
          BY <1>1
        <5>4. p \in 1..k /\ k \in 1..k /\ p < k
          BY <5>2, <5>3
        <5> QED
          BY <3>1, <4>1, <4>3, <5>2, <5>4
      <4> QED
        BY <4>1, <4>2, <4>3
    <3> QED
      BY <3>1, <3>2, <3>3
  <2> QED
    BY <2>5, <2>6
<1>4. Those(s, S) = Loop(body, <<>>, s)
  BY DEF Those
<1>5. Those(s, S) \in I[Len(s)]
  <2> HIDE DEF I, body
  <2> QED
    BY <1>2, <1>3, <1>4, LoopKeeps
<1> DEFINE r == Those(s, S)
<1>6. /\ r \in Seq(X) /\ ToSet(r) = X \cap S
      /\ \A i, j \in 1..Len(r) : i < j =>
           \E p, q \in 1..Len(s) : p < q /\ s[p] = r[i] /\ s[q] = r[j]
  BY <1>1, <1>5
<1> HIDE DEF r
<1>7. InOrderOf(r, s)
  BY <1>6 DEF InOrderOf
<1>8. r \in Seq(T)
  <2>1. X \subseteq T
    BY Sequences
  <2> QED
    BY <1>6, <2>1, SeqMonotonic
<1>9. IsInjective(s) => IsInjective(r)
  BY <1>7, <1>8, OrderKeepsInjective
<1> QED
  BY <1>6, <1>7, <1>8, <1>9 DEF r

(* Distinct lists the same once.                                           *)
LEMMA DistinctIsInjective ==
  ASSUME NEW T, NEW s \in Seq(T)
  PROVE  LET r == Distinct(s) IN r \in Seq(T) /\ ToSet(r) = ToSet(s) /\ IsInjective(r)
<1> DEFINE X == ToSet(s)
           before(k) == {s[i] : i \in 1..k}
           I == [k \in 0..Len(s) |-> {r \in Seq(X) : ToSet(r) = before(k) /\ IsInjective(r)}]
           body == [kept \in Seq(X) |->
                      [x \in X |-> IF x \in ToSet(kept) THEN kept ELSE Append(kept, x)]]
<1>1. s \in Seq(X) /\ Len(s) \in Nat /\ X = before(Len(s)) /\ X \subseteq T
  BY SequenceOfItsItems, Sequences
<1>2. <<>> \in I[0]
  BY <1>1, Empty
<1>3. ASSUME NEW k \in 1..Len(s), NEW r \in I[k - 1]
      PROVE  body[r][s[k]] \in I[k]
  <2>1. k - 1 \in 0..Len(s) /\ k \in 0..Len(s)
    BY <1>1
  <2>2. r \in Seq(X) /\ ToSet(r) = before(k - 1) /\ IsInjective(r)
    BY <1>3, <2>1
  <2>3. s[k] \in X /\ before(k) = before(k - 1) \cup {s[k]}
    <3>1. k \in Nat \ {0}
      BY <1>1
    <3> QED
      BY <1>1, <3>1, OneItemMore, Sequences
  <2>4. body[r][s[k]] = IF s[k] \in ToSet(r) THEN r ELSE Append(r, s[k])
    BY <2>2, <2>3
  <2> HIDE DEF body, before, I, X
  <2>5. /\ Append(r, s[k]) \in Seq(X) /\ ToSet(Append(r, s[k])) = ToSet(r) \cup {s[k]}
        /\ s[k] \notin ToSet(r) => IsInjective(Append(r, s[k]))
    BY <2>2, <2>3, Longer
  <2> USE DEF before, I, X
  <2>6. /\ body[r][s[k]] \in Seq(X) /\ ToSet(body[r][s[k]]) = before(k)
        /\ IsInjective(body[r][s[k]])
    BY <2>2, <2>3, <2>4, <2>5
  <2> QED
    BY <2>1, <2>6
<1>4. Distinct(s) = Loop(body, <<>>, s)
  BY DEF Distinct
<1>5. Distinct(s) \in I[Len(s)]
  <2> HIDE DEF I, body
  <2> QED
    BY <1>2, <1>3, <1>4, LoopKeeps
<1>6. Distinct(s) \in Seq(X) /\ ToSet(Distinct(s)) = X /\ IsInjective(Distinct(s))
  BY <1>1, <1>5
<1> QED
  BY <1>1, <1>6, SeqMonotonic

(* One list after the other.                                               *)
LEMMA Joined ==
  ASSUME NEW T, NEW s \in Seq(T), NEW t \in Seq(T)
  PROVE  s \o t \in Seq(T) /\ Len(s \o t) = Len(s) + Len(t) /\ ToSet(s \o t) = ToSet(s) \cup ToSet(t)
<1> DEFINE u == s \o t
<1>1. /\ u \in Seq(T) /\ Len(u) = Len(s) + Len(t)
      /\ \A i \in 1..(Len(s) + Len(t)) : u[i] = IF i <= Len(s) THEN s[i] ELSE t[i - Len(s)]
  BY ConcatProperties
<1> HIDE DEF u
<1>2. /\ Len(s) \in Nat /\ Len(t) \in Nat /\ ToSet(s) = {s[i] : i \in 1..Len(s)}
      /\ ToSet(t) = {t[i] : i \in 1..Len(t)} /\ ToSet(u) = {u[i] : i \in 1..(Len(s) + Len(t))}
  BY <1>1, Sequences
<1>3. ASSUME NEW i \in 1..(Len(s) + Len(t))  PROVE u[i] \in ToSet(s) \cup ToSet(t)
  <2>1. CASE i <= Len(s)
    BY <1>1, <1>2, <2>1
  <2>2. CASE ~ (i <= Len(s))
    <3>1. i - Len(s) \in 1..Len(t)
      BY <1>2, <2>2
    <3> QED
      BY <1>1, <1>2, <2>2, <3>1
  <2> QED
    BY <2>1, <2>2
<1>4. ASSUME NEW i \in 1..Len(s)  PROVE s[i] \in ToSet(u)
  <2>1. i \in 1..(Len(s) + Len(t)) /\ u[i] = s[i]
    BY <1>1, <1>2
  <2> QED
    BY <1>2, <2>1
<1>5. ASSUME NEW i \in 1..Len(t)  PROVE t[i] \in ToSet(u)
  <2>1. i + Len(s) \in 1..(Len(s) + Len(t)) /\ ~ (i + Len(s) <= Len(s)) /\ (i + Len(s)) - Len(s) = i
    BY <1>2
  <2>2. u[i + Len(s)] = t[i]
    BY <1>1, <2>1
  <2> QED
    BY <1>2, <2>1, <2>2
<1>6. ToSet(u) \subseteq ToSet(s) \cup ToSet(t)
  BY <1>2, <1>3
<1>7. ToSet(s) \subseteq ToSet(u) /\ ToSet(t) \subseteq ToSet(u)
  BY <1>2, <1>4, <1>5
<1> QED
  BY <1>1, <1>6, <1>7 DEF u

(* Sets that share nothing are counted apart.                              *)
LEMMA CountedApart ==
  ASSUME NEW S, NEW T, IsFiniteSet(S), IsFiniteSet(T), S \cap T = {}
  PROVE  IsFiniteSet(S \cup T) /\ Cardinality(S \cup T) = Cardinality(S) + Cardinality(T)
<1>1. Cardinality(S \cap T) = 0 /\ Cardinality(S) \in Nat /\ Cardinality(T) \in Nat
  BY FS_EmptySet, FS_CardinalityType
<1>2. /\ IsFiniteSet(S \cup T)
      /\ Cardinality(S \cup T) = Cardinality(S) + Cardinality(T) - Cardinality(S \cap T)
  BY FS_Union
<1> QED
  BY <1>1, <1>2

(* Two sequences with nothing in common, one after the other.              *)
LEMMA JoinedApart ==
  ASSUME NEW T, NEW s \in Seq(T), NEW t \in Seq(T), IsInjective(s), IsInjective(t),
         ToSet(s) \cap ToSet(t) = {}
  PROVE  IsInjective(s \o t)
<1> DEFINE u == s \o t
<1>1. /\ u \in Seq(T) /\ Len(u) = Len(s) + Len(t)
      /\ \A i \in 1..(Len(s) + Len(t)) : u[i] = IF i <= Len(s) THEN s[i] ELSE t[i - Len(s)]
  BY ConcatProperties
<1>2. /\ Len(s) \in Nat /\ Len(t) \in Nat
      /\ DOMAIN s = 1..Len(s) /\ DOMAIN t = 1..Len(t)
      /\ \A i \in 1..Len(s) : s[i] \in ToSet(s)
      /\ \A i \in 1..Len(t) : t[i] \in ToSet(t)
  BY Sequences
<1> HIDE DEF u
<1>3. DOMAIN u = 1..(Len(s) + Len(t))
  BY <1>1
<1>4. ASSUME NEW i \in 1..(Len(s) + Len(t)), NEW j \in 1..(Len(s) + Len(t)), u[i] = u[j], i <= j
      PROVE  i = j
  <2>1. CASE j <= Len(s)
    <3>1. i \in 1..Len(s) /\ j \in 1..Len(s) /\ s[i] = s[j]
      BY <1>1, <1>2, <1>4, <2>1
    <3> QED
      BY <1>2, <3>1 DEF IsInjective
  <2>2. CASE i <= Len(s) /\ j > Len(s)
    <3>1. i \in 1..Len(s) /\ j - Len(s) \in 1..Len(t)
      BY <1>2, <2>2
    <3>2. u[i] = s[i] /\ u[j] = t[j - Len(s)]
      BY <1>1, <1>2, <2>2
    <3>3. s[i] \in ToSet(s) /\ s[i] \in ToSet(t)
      BY <1>2, <1>4, <3>1, <3>2
    <3> QED
      BY <3>3
  <2>3. CASE i > Len(s)
    <3>1. i - Len(s) \in 1..Len(t) /\ j - Len(s) \in 1..Len(t)
      BY <1>2, <1>4, <2>3
    <3>2. u[i] = t[i - Len(s)] /\ u[j] = t[j - Len(s)]
      BY <1>1, <1>2, <1>4, <2>3
    <3>3. i - Len(s) = j - Len(s)
      BY <1>2, <1>4, <3>1, <3>2 DEF IsInjective
    <3> QED
      BY <1>2, <3>3
  <2> QED
    BY <1>2, <1>4, <2>1, <2>2, <2>3
<1>5. ASSUME NEW i \in 1..(Len(s) + Len(t)), NEW j \in 1..(Len(s) + Len(t)), u[i] = u[j]
      PROVE  i = j
  <2>1. CASE i <= j
    BY <1>4, <1>5, <2>1
  <2>2. CASE j <= i
    BY <1>4, <1>5, <2>2
  <2> QED
    BY <1>2, <2>1, <2>2
<1>6. IsInjective(u)
  BY <1>3, <1>5 DEF IsInjective
<1> QED
  BY <1>6 DEF u

(* A list has finitely many members.                                       *)
LEMMA ListsAreFinite ==
  ASSUME NEW T, NEW s \in Seq(T)
  PROVE  IsFiniteSet(ToSet(s))
<1> DEFINE r == Distinct(s)
<1>1. r \in Seq(T) /\ ToSet(r) = ToSet(s) /\ IsInjective(r)
  BY DistinctIsInjective
<1> HIDE DEF r
<1> QED
  BY <1>1, LengthCounts

-----------------------------------------------------------------------------
(* Order                                                                    *)

Before(s, a, b) == \E p, q \in 1..Len(s) : p < q /\ s[p] = a /\ s[q] = b

(* Of two items of a list without repetitions, one is the earlier.         *)
LEMMA BeforeIsStrict ==
  ASSUME NEW T, NEW s \in Seq(T), IsInjective(s), NEW a, NEW b, Before(s, a, b)
  PROVE  ~ Before(s, b, a) /\ a \in ToSet(s) /\ b \in ToSet(s)
<1>1. /\ Len(s) \in Nat /\ DOMAIN s = 1..Len(s)
      /\ \A i \in 1..Len(s) : s[i] \in ToSet(s)
  BY Sequences
<1>2. PICK p \in 1..Len(s), q \in 1..Len(s) : p < q /\ s[p] = a /\ s[q] = b
  BY DEF Before
<1>3. ASSUME NEW m \in 1..Len(s), NEW n \in 1..Len(s), m < n, s[m] = b, s[n] = a  PROVE FALSE
  <2>1. m = q /\ n = p
    BY <1>1, <1>2, <1>3 DEF IsInjective
  <2> QED
    BY <1>1, <1>2, <1>3, <2>1
<1> QED
  BY <1>1, <1>2, <1>3 DEF Before

(* A sequence in the order of another one orders its items the same way.   *)
LEMMA OrderIsShared ==
  ASSUME NEW T, NEW s \in Seq(T), NEW r \in Seq(T), IsInjective(s), InOrderOf(r, s),
         NEW a \in ToSet(r), NEW b \in ToSet(r)
  PROVE  Before(r, a, b) <=> Before(s, a, b)
<1>1. /\ Len(r) \in Nat /\ \A x \in ToSet(r) : \E i \in 1..Len(r) : r[i] = x
  BY Sequences
<1>2. \A x, y : Before(r, x, y) => Before(s, x, y)
  BY SMTT(30) DEF Before, InOrderOf
<1>3. ASSUME Before(s, a, b)  PROVE Before(r, a, b)
  <2>1. PICK p \in 1..Len(r) : r[p] = a
    BY <1>1
  <2>2. PICK q \in 1..Len(r) : r[q] = b
    BY <1>1
  <2>3. CASE p < q
    BY <2>1, <2>2, <2>3 DEF Before
  <2>4. CASE p = q
    <3>1. Before(s, a, a)
      BY <1>3, <2>1, <2>2, <2>4
    <3> QED
      BY <3>1, BeforeIsStrict
  <2>5. CASE q < p
    <3>1. Before(r, b, a)
      BY <2>1, <2>2, <2>5 DEF Before
    <3>2. Before(s, b, a)
      BY <1>2, <3>1
    <3> QED
      BY <1>3, <3>2, BeforeIsStrict
  <2> QED
    BY <1>1, <2>3, <2>4, <2>5
<1> QED
  BY <1>2, <1>3

(* The first n of a sequence are those with fewer than n before them.      *)
LEMMA Leading ==
  ASSUME NEW T, NEW r \in Seq(T), IsInjective(r), NEW n \in Nat
  PROVE  LET t == FirstOf(r, n) IN
         /\ IsFiniteSet(ToSet(t)) /\ Cardinality(ToSet(t)) = Lesser(n, Len(r))
         /\ ToSet(t) \subseteq ToSet(r)
         /\ \A a, b : b \in ToSet(t) /\ Before(r, a, b) => a \in ToSet(t)
         /\ \A a \in ToSet(r) : a \in ToSet(t) <=> Cardinality({x \in ToSet(r) : Before(r, x, a)}) < n
<1> DEFINE t == FirstOf(r, n)
<1>1. /\ t \in Seq(T) /\ Len(t) = Lesser(n, Len(r)) /\ Len(t) <= n /\ Len(t) <= Len(r)
      /\ \A i \in 1..Len(t) : t[i] = r[i]
      /\ ToSet(t) \subseteq ToSet(r)
      /\ IsInjective(t)
  BY FirstItems
<1>2. /\ Len(r) \in Nat /\ DOMAIN r = 1..Len(r) /\ ToSet(r) = {r[i] : i \in 1..Len(r)}
      /\ \A i \in 1..Len(r) : r[i] \in ToSet(r)
      /\ \A x \in ToSet(r) : \E i \in 1..Len(r) : r[i] = x
  BY Sequences
<1> HIDE DEF t
<1>3. Len(t) \in Nat /\ ToSet(t) = {t[i] : i \in 1..Len(t)}
  BY <1>1, Sequences
<1>4. IsFiniteSet(ToSet(t)) /\ Cardinality(ToSet(t)) = Len(t)
  BY <1>1, LengthCounts
<1>5. ASSUME NEW q \in 1..Len(r)  PROVE r[q] \in ToSet(t) <=> q <= n
  <2>1. ASSUME q <= n  PROVE r[q] \in ToSet(t)
    <3>1. q \in 1..Len(t)
      BY <1>1, <1>2, <1>3, <2>1 DEF Lesser
    <3> QED
      BY <1>1, <1>3, <3>1
  <2>2. ASSUME r[q] \in ToSet(t)  PROVE q <= n
    <3>1. PICK i \in 1..Len(t) : t[i] = r[q]
      BY <1>3, <2>2
    <3>2. i \in 1..Len(r) /\ r[i] = r[q]
      BY <1>1, <1>2, <1>3, <3>1, SMTT(30)
    <3>3. i = q
      BY <1>2, <3>2 DEF IsInjective
    <3> QED
      BY <1>1, <1>3, <3>1, <3>3
  <2> QED
    BY <2>1, <2>2
<1>6. ASSUME NEW a, NEW b \in ToSet(t), Before(r, a, b)  PROVE a \in ToSet(t)
  <2>1. PICK p \in 1..Len(r), q \in 1..Len(r) : p < q /\ r[p] = a /\ r[q] = b
    BY <1>6 DEF Before
  <2>2. q <= n
    BY <1>5, <1>6, <2>1
  <2>3. p <= n
    BY <1>2, <2>1, <2>2
  <2> QED
    BY <1>5, <2>1, <2>3
<1>7. ASSUME NEW a \in ToSet(r)
      PROVE  a \in ToSet(t) <=> Cardinality({x \in ToSet(r) : Before(r, x, a)}) < n
  <2> DEFINE B == {x \in ToSet(r) : Before(r, x, a)}
  <2>1. PICK q \in 1..Len(r) : r[q] = a
    BY <1>2
  <2>2. q - 1 \in Nat /\ q \in Nat
    BY <1>2
  <2> DEFINE u == FirstOf(r, q - 1)
  <2>3. /\ u \in Seq(T) /\ Len(u) = Lesser(q - 1, Len(r))
        /\ \A i \in 1..Len(u) : u[i] = r[i]
        /\ IsInjective(u)
    BY <2>2, FirstItems
  <2> HIDE DEF u
  <2>4. Len(u) = q - 1
    BY <1>2, <2>2, <2>3 DEF Lesser
  <2>5. ToSet(u) = {u[i] : i \in 1..Len(u)} /\ Cardinality(ToSet(u)) = Len(u)
    BY <2>3, Sequences, LengthCounts
  <2>6. B = ToSet(u)
    <3>1. ASSUME NEW x \in B  PROVE x \in ToSet(u)
      <4>1. PICK i \in 1..Len(r), j \in 1..Len(r) : i < j /\ r[i] = x /\ r[j] = a
        BY <3>1 DEF Before
      <4>2. j = q
        BY <1>2, <2>1, <4>1 DEF IsInjective
      <4>3. i \in 1..Len(u) /\ u[i] = x
        <5>1. i \in Nat /\ 1 <= i /\ i < q
          BY <1>2, <4>1, <4>2
        <5>2. i \in 1..Len(u)
          BY <2>2, <2>4, <5>1
        <5> QED
          BY <2>3, <4>1, <5>2
      <4> QED
        BY <2>5, <4>3
    <3>2. ASSUME NEW x \in ToSet(u)  PROVE x \in B
      <4>1. PICK i \in 1..Len(u) : u[i] = x
        BY <2>5
      <4>2. i \in 1..Len(r) /\ i < q /\ r[i] = x
        BY <1>2, <2>2, <2>3, <2>4, <4>1
      <4>3. Before(r, x, a)
        BY <2>1, <4>2 DEF Before
      <4> QED
        BY <1>2, <4>2, <4>3
    <3> QED
      BY <3>1, <3>2
  <2>7. Cardinality(B) = q - 1
    BY <2>4, <2>5, <2>6
  <2>8. a \in ToSet(t) <=> q <= n
    BY <1>5, <2>1
  <2> HIDE DEF B
  <2>9. Cardinality(B) < n <=> q <= n
    BY <2>2, <2>7
  <2> QED
    BY <2>8, <2>9 DEF B
<1> QED
  BY <1>1, <1>4, <1>6, <1>7 DEF t

(* The first n members of S in s.                                          *)
LEMMA LeadingOf ==
  ASSUME NEW T, NEW s \in Seq(T), IsInjective(s), NEW S, NEW n \in Nat
  PROVE  LET t == FirstOf(Those(s, S), n)
             X == ToSet(s) \cap S
         IN  /\ IsFiniteSet(X) /\ IsFiniteSet(ToSet(t)) /\ ToSet(t) \subseteq X
             /\ Cardinality(X) \in Nat /\ Cardinality(ToSet(t)) \in Nat
             /\ Cardinality(ToSet(t)) = Lesser(n, Cardinality(X))
             /\ \A a \in X : \A b \in ToSet(t) : Before(s, a, b) => a \in ToSet(t)
             /\ \A a \in X : a \in ToSet(t) <=> Cardinality({x \in X : Before(s, x, a)}) < n
<1> DEFINE r == Those(s, S)
           t == FirstOf(r, n)
           X == ToSet(s) \cap S
<1>1. r \in Seq(T) /\ ToSet(r) = X /\ InOrderOf(r, s) /\ IsInjective(r)
  BY ThoseAreListed
<1> HIDE DEF r, X
<1>2. /\ IsFiniteSet(ToSet(t)) /\ Cardinality(ToSet(t)) = Lesser(n, Len(r))
      /\ ToSet(t) \subseteq ToSet(r)
      /\ \A a, b : b \in ToSet(t) /\ Before(r, a, b) => a \in ToSet(t)
      /\ \A a \in ToSet(r) : a \in ToSet(t) <=> Cardinality({x \in ToSet(r) : Before(r, x, a)}) < n
  BY <1>1, Leading
<1> HIDE DEF t
<1>3. IsFiniteSet(X) /\ Cardinality(X) = Len(r)
  BY <1>1, LengthCounts
<1>4. \A a \in X : \A b \in X : Before(r, a, b) <=> Before(s, a, b)
  <2>1. ASSUME NEW a \in X, NEW b \in X  PROVE Before(r, a, b) <=> Before(s, a, b)
    <3>1. a \in ToSet(r) /\ b \in ToSet(r)
      BY <1>1
    <3> QED
      BY <1>1, <3>1, OrderIsShared
  <2> QED
    BY <2>1
<1>5. \A a \in X : {x \in ToSet(r) : Before(r, x, a)} = {x \in X : Before(s, x, a)}
  BY <1>1, <1>4
<1>6. \A a \in X : a \in ToSet(t) <=> Cardinality({x \in X : Before(s, x, a)}) < n
  BY <1>1, <1>2, <1>5
<1>7. \A a \in X : \A b \in ToSet(t) : Before(s, a, b) => a \in ToSet(t)
  BY <1>1, <1>2, <1>4
<1>8. Cardinality(X) \in Nat /\ Cardinality(ToSet(t)) \in Nat
  BY <1>2, <1>3, FS_CardinalityType
<1> QED
  BY <1>1, <1>2, <1>3, <1>6, <1>7, <1>8 DEF X, r, t

===============================================================================
