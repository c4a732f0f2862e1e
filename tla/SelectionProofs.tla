--------------------------- MODULE SelectionProofs ---------------------------
(***************************************************************************)
(* Theorems about the editorial selection, for any events, rankings,       *)
(* quotas, sources and budget.                                             *)
(***************************************************************************)
EXTENDS EventSelection, LoopProofs

(* The quotas and the ranking by weight, as their assumption has them.     *)
LEMMA Limits ==
  /\ ByWeight \in Seq(Events) /\ IsInjective(ByWeight)
  /\ MaxCandidates \in Nat \ {0} /\ MaxSelected \in Nat \ {0} /\ MaxAI \in Nat \ {0}
  /\ MaxSources \in Nat \ {0} /\ MaxEvidence \in Nat \ {0} /\ MinPublishable \in Nat \ {0}
  /\ MinDomestic \in Nat /\ MinRecruitment \in Nat
BY SelectionConstantsOK

-----------------------------------------------------------------------------
(* Totals                                                                   *)

(* t[k] is the total of the first k items.                                 *)
Adds(t, f, s) == t[0] = 0 /\ \A k \in 1..Len(s) : t[k] = t[k - 1] + f[s[k]]

(* A total is reached item by item.                                        *)
LEMMA TotalInSteps ==
  ASSUME NEW P, NEW f \in [P -> Nat], NEW s \in Seq(P)
  PROVE  \E t \in [0..Len(s) -> Nat] :
           /\ t[0] = 0 /\ \A k \in 1..Len(s) : t[k] = t[k - 1] + f[s[k]]
           /\ Total(f, s) = t[Len(s)]
<1> DEFINE body == [n \in Nat |-> [p \in DOMAIN f |-> n + f[p]]]
<1>1. Total(f, s) = Loop(body, 0, s)
  BY DEF Total
<1>2. \A n \in Nat : \A p \in P : body[n][p] = n + f[p]
  OBVIOUS
<1> HIDE DEF body
<1>3. PICK t : /\ t = [k \in 0..Len(s) |-> IF k = 0 THEN 0 ELSE body[t[k - 1]][s[k]]]
               /\ Loop(body, 0, s) = t[Len(s)]
  BY LoopHasValues
<1>4. /\ DOMAIN t = 0..Len(s)
      /\ \A k \in 0..Len(s) : t[k] = IF k = 0 THEN 0 ELSE body[t[k - 1]][s[k]]
  BY <1>3, Zenon
<1>5. Len(s) \in Nat /\ \A k \in 1..Len(s) : s[k] \in P
  BY Sequences
<1> DEFINE Good == {k \in 0..Len(s) : t[k] \in Nat}
<1>6. 0 \in Good
  <2>1. 0 \in 0..Len(s)
    BY <1>5
  <2>2. t[0] = 0
    BY <1>4, <2>1
  <2> QED
    BY <2>1, <2>2
<1> DEFINE Step(k) == k \in 0..Len(s) /\ k - 1 \in 0..Len(s) /\ t[k] = body[t[k - 1]][s[k]]
<1>11. \A k \in 1..Len(s) : Step(k)
  BY <1>4, <1>5
<1>7. ASSUME NEW k \in 1..Len(s), k - 1 \in Good  PROVE k \in Good
  <2>1. t[k - 1] \in Nat /\ s[k] \in P /\ Step(k) /\ f[s[k]] \in Nat
    BY <1>5, <1>7, <1>11
  <2>2. t[k] = t[k - 1] + f[s[k]]
    BY <1>2, <2>1
  <2> QED
    BY <2>1, <2>2
<1>8. \A k \in 0..Len(s) : t[k] \in Nat
  <2> HIDE DEF Good
  <2>1. \A k \in 0..Len(s) : k \in Good
    BY <1>5, <1>6, <1>7, Upwards
  <2> QED
    BY <2>1 DEF Good
<1>9. t \in [0..Len(s) -> Nat]
  <2>1. t = [k \in 0..Len(s) |-> t[k]]
    BY <1>3
  <2> QED
    BY <1>8, <2>1
<1>10. t[0] = 0 /\ \A k \in 1..Len(s) : t[k] = t[k - 1] + f[s[k]]
  <2>1. ASSUME NEW k \in 1..Len(s)  PROVE t[k] = t[k - 1] + f[s[k]]
    BY <1>2, <1>5, <1>8, <1>11
  <2> QED
    BY <1>4, <1>5, <2>1
<1> QED
  BY <1>1, <1>3, <1>9, <1>10

(* ... and by one way only.                                                *)
LEMMA TotalByAnySteps ==
  ASSUME NEW P, NEW f \in [P -> Nat], NEW s \in Seq(P), NEW t,
         Adds(t, f, s)
  PROVE  Total(f, s) = t[Len(s)]
<1>1. PICK u \in [0..Len(s) -> Nat] :
        /\ u[0] = 0 /\ \A k \in 1..Len(s) : u[k] = u[k - 1] + f[s[k]]
        /\ Total(f, s) = u[Len(s)]
  BY TotalInSteps
<1>2. Len(s) \in Nat
  OBVIOUS
<1> DEFINE Same == {k \in 0..Len(s) : t[k] = u[k]}
<1>3. 0 \in Same /\ \A k \in 1..Len(s) : k - 1 \in Same => k \in Same
  BY <1>1, <1>2 DEF Adds
<1>4. \A k \in 0..Len(s) : k \in Same
  <2> HIDE DEF Same
  <2> QED
    BY <1>2, <1>3, Upwards
<1> QED
  BY <1>1, <1>2, <1>4

(* What bounds the items bounds the totals.                                *)
LEMMA TotalsCompare ==
  ASSUME NEW P, NEW f \in [P -> Nat], NEW g \in [P -> Nat], NEW s \in Seq(P),
         NEW A \in Nat, NEW B \in Nat, NEW C \in Int,
         \A p \in ToSet(s) : f[p] * A <= g[p] * B + C
  PROVE  /\ Total(f, s) \in Nat /\ Total(g, s) \in Nat
         /\ Total(f, s) * A <= Total(g, s) * B + Len(s) * C
<1>1. PICK t \in [0..Len(s) -> Nat] :
        /\ t[0] = 0 /\ \A k \in 1..Len(s) : t[k] = t[k - 1] + f[s[k]]
        /\ Total(f, s) = t[Len(s)]
  BY TotalInSteps
<1>2. PICK u \in [0..Len(s) -> Nat] :
        /\ u[0] = 0 /\ \A k \in 1..Len(s) : u[k] = u[k - 1] + g[s[k]]
        /\ Total(g, s) = u[Len(s)]
  BY TotalInSteps
<1>3. Len(s) \in Nat /\ \A k \in 1..Len(s) : s[k] \in P /\ s[k] \in ToSet(s)
  BY Sequences
<1> DEFINE Good == {k \in 0..Len(s) : t[k] * A <= u[k] * B + k * C}
<1>4. 0 \in Good
  BY <1>1, <1>2, <1>3
<1>5. ASSUME NEW k \in 1..Len(s), k - 1 \in Good  PROVE k \in Good
  <2> DEFINE x == t[k - 1]
             y == u[k - 1]
             v == f[s[k]]
             w == g[s[k]]
  <2>1. x \in Nat /\ y \in Nat /\ v \in Nat /\ w \in Nat /\ k \in Nat /\ k \in 0..Len(s)
    <3>1. k - 1 \in 0..Len(s) /\ k \in Nat /\ k \in 0..Len(s) /\ s[k] \in P
      BY <1>3
    <3> QED
      BY <3>1
  <2>2. x * A <= y * B + (k - 1) * C /\ v * A <= w * B + C
    BY <1>3, <1>5
  <2>3. t[k] = x + v /\ u[k] = y + w
    BY <1>1, <1>2
  <2> HIDE DEF x, y, v, w
  <2>4. (x + v) * A = x * A + v * A /\ (y + w) * B = y * B + w * B /\ k * C = (k - 1) * C + C
    BY <2>1
  <2>5. (x + v) * A <= (y + w) * B + k * C
    BY <2>1, <2>2, <2>4
  <2> QED
    BY <2>1, <2>3, <2>5
<1>6. \A k \in 0..Len(s) : k \in Good
  <2> HIDE DEF Good
  <2> QED
    BY <1>3, <1>4, <1>5, Upwards
<1>7. Len(s) \in 0..Len(s)
  BY <1>3
<1> QED
  BY <1>1, <1>2, <1>6, <1>7

(* The items one by one.                                                   *)
LEMMA TotalBounds ==
  ASSUME NEW P, NEW f \in [P -> Nat], NEW s \in Seq(P)
  PROVE  /\ Total(f, s) \in Nat
         /\ (\A p \in ToSet(s) : f[p] <= 1) => Total(f, s) <= Len(s)
         /\ (\A p \in ToSet(s) : f[p] >= 1) => Total(f, s) >= Len(s)
<1>1. ToSet(s) \subseteq P /\ Len(s) \in Nat
  BY Sequences
<1>2. \A p \in ToSet(s) : f[p] * 0 <= f[p] * 0 + 0
  BY <1>1
<1>3. Total(f, s) \in Nat
  BY <1>2, TotalsCompare
<1>4. ASSUME \A p \in ToSet(s) : f[p] <= 1  PROVE Total(f, s) <= Len(s)
  <2>1. \A p \in ToSet(s) : f[p] * 1 <= f[p] * 0 + 1
    BY <1>1, <1>4
  <2>2. Total(f, s) * 1 <= Total(f, s) * 0 + Len(s) * 1
    BY <2>1, TotalsCompare
  <2> QED
    BY <1>1, <1>3, <2>2
<1>5. ASSUME \A p \in ToSet(s) : f[p] >= 1  PROVE Total(f, s) >= Len(s)
  <2>1. \A p \in ToSet(s) : f[p] * 0 <= f[p] * 1 + (-1)
    BY <1>1, <1>5
  <2> DEFINE C == -1
  <2>2. C \in Int /\ 0 \in Nat /\ 1 \in Nat
    OBVIOUS
  <2>3. \A p \in ToSet(s) : f[p] * 0 <= f[p] * 1 + C
    BY <2>1
  <2>4. Total(f, s) * 0 <= Total(f, s) * 1 + Len(s) * C
    <3> HIDE DEF C
    <3> QED
      BY <2>2, <2>3, TotalsCompare
  <2> QED
    BY <1>1, <1>3, <2>4
<1> QED
  BY <1>3, <1>4, <1>5

(* g is f with the value v at p.                                           *)
Changed(g, f, p, v) == g = [f EXCEPT ![p] = v]

(* ... and the total is the old one, with v in place of the item at p.     *)
Rewritten(g, f, s, p, v) == Total(g, s) = Total(f, s) - f[p] + v

(* A change of one item changes the total by as much.                      *)
LEMMA TotalChanges ==
  ASSUME NEW P, NEW f \in [P -> Nat], NEW s \in Seq(P), IsInjective(s),
         NEW p \in ToSet(s), NEW v \in Nat, NEW g, Changed(g, f, p, v)
  PROVE  g \in [P -> Nat] /\ Rewritten(g, f, s, p, v)
<1>1. PICK t \in [0..Len(s) -> Nat] :
        /\ t[0] = 0 /\ \A k \in 1..Len(s) : t[k] = t[k - 1] + f[s[k]]
        /\ Total(f, s) = t[Len(s)]
  BY TotalInSteps
<1>2. /\ Len(s) \in Nat /\ DOMAIN s = 1..Len(s)
      /\ \A k \in 1..Len(s) : s[k] \in P
  BY Sequences
<1>3. PICK m \in 1..Len(s) : s[m] = p
  BY Sequences
<1>4. p \in P /\ g \in [P -> Nat] /\ g[p] = v /\ \A q \in P : q # p => g[q] = f[q]
  BY <1>2, <1>3 DEF Changed
<1>5. \A k \in 1..Len(s) : s[k] = p <=> k = m
  BY <1>2, <1>3 DEF IsInjective
<1> DEFINE u == [k \in 0..Len(s) |-> IF k < m THEN t[k] ELSE t[k] - f[p] + v]
<1>6. u[0] = 0 /\ u[Len(s)] = t[Len(s)] - f[p] + v
  BY <1>1, <1>2, <1>3
<1>7. ASSUME NEW k \in 1..Len(s)  PROVE u[k] = u[k - 1] + g[s[k]]
  <2>1. k \in 0..Len(s) /\ k - 1 \in 0..Len(s) /\ t[k] = t[k - 1] + f[s[k]]
    BY <1>1, <1>2
  <2>2. t[k - 1] \in Nat /\ f[s[k]] \in Nat /\ f[p] \in Nat /\ m \in Nat
    <3>1. s[k] \in P /\ m \in Nat
      BY <1>2
    <3>2. f[s[k]] \in Nat /\ f[p] \in Nat
      BY <1>4, <3>1
    <3>3. t[k - 1] \in Nat
      BY <2>1
    <3> QED
      BY <3>1, <3>2, <3>3
  <2>3. CASE k = m
    <3>1. u[k - 1] = t[k - 1] /\ u[k] = t[k] - f[p] + v /\ g[s[k]] = v /\ s[k] = p
      BY <1>3, <1>4, <2>1, <2>3
    <3> QED
      BY <2>1, <2>2, <3>1
  <2>4. CASE k < m
    <3>1. u[k - 1] = t[k - 1] /\ u[k] = t[k] /\ g[s[k]] = f[s[k]]
      BY <1>2, <1>4, <1>5, <2>1, <2>2, <2>4
    <3> QED
      BY <2>1, <3>1
  <2>5. CASE k > m
    <3>1. /\ u[k - 1] = t[k - 1] - f[p] + v /\ u[k] = t[k] - f[p] + v
          /\ g[s[k]] = f[s[k]]
      BY <1>2, <1>4, <1>5, <2>1, <2>2, <2>5, SMTT(30)
    <3> QED
      BY <2>1, <2>2, <3>1, SMTT(30)
  <2> QED
    BY <2>2, <2>3, <2>4, <2>5
<1> HIDE DEF u
<1>8. Total(g, s) = u[Len(s)]
  <2>1. Adds(u, g, s)
    BY <1>6, <1>7 DEF Adds
  <2> QED
    BY <1>4, <2>1, TotalByAnySteps
<1> QED
  BY <1>1, <1>4, <1>6, <1>8 DEF Rewritten

(* More items, more in total.                                              *)
LEMMA TotalGrows ==
  ASSUME NEW P, NEW f \in [P -> Nat], NEW s \in Seq(P), NEW r \in Seq(P)
  PROVE  Total(f, s) <= Total(f, s \o r)
<1> DEFINE w == s \o r
<1>1. /\ w \in Seq(P) /\ Len(w) = Len(s) + Len(r)
      /\ \A i \in 1..(Len(s) + Len(r)) : w[i] = IF i <= Len(s) THEN s[i] ELSE r[i - Len(s)]
  BY ConcatProperties
<1>2. Len(s) \in Nat /\ Len(r) \in Nat
  OBVIOUS
<1> HIDE DEF w
<1>3. PICK t \in [0..Len(w) -> Nat] :
        /\ t[0] = 0 /\ \A k \in 1..Len(w) : t[k] = t[k - 1] + f[w[k]]
        /\ Total(f, w) = t[Len(w)]
  BY <1>1, TotalInSteps
<1>4. Total(f, s) = t[Len(s)]
  <2>1. \A k \in 1..Len(s) : k \in 1..Len(w) /\ w[k] = s[k]
    BY <1>1, <1>2
  <2>2. Adds(t, f, s)
    BY <1>3, <2>1 DEF Adds
  <2> QED
    BY <2>2, TotalByAnySteps
<1> DEFINE Good == {k \in 0..Len(r) : t[Len(s)] <= t[Len(s) + k]}
<1>5. 0 \in Good
  <2>1. Len(s) \in 0..Len(w)
    BY <1>1, <1>2
  <2>2. t[Len(s)] \in Nat
    BY <2>1
  <2> QED
    BY <1>2, <2>2
<1>6. ASSUME NEW k \in 1..Len(r), k - 1 \in Good  PROVE k \in Good
  <2>1. /\ Len(s) + k \in 1..Len(w) /\ Len(s) + (k - 1) \in 0..Len(w) /\ Len(s) \in 0..Len(w)
        /\ (Len(s) + k) - 1 = Len(s) + (k - 1) /\ k \in 0..Len(r)
    BY <1>1, <1>2
  <2>2. t[Len(s) + k] = t[Len(s) + (k - 1)] + f[w[Len(s) + k]]
    BY <1>3, <2>1
  <2>3. f[w[Len(s) + k]] \in Nat
    BY <1>1, <2>1
  <2>4. t[Len(s)] \in Nat /\ t[Len(s) + (k - 1)] \in Nat /\ t[Len(s)] <= t[Len(s) + (k - 1)]
    BY <1>6, <2>1
  <2>5. t[Len(s)] <= t[Len(s) + k]
    <3> DEFINE before == t[Len(s) + (k - 1)]
               more == f[w[Len(s) + k]]
               begin == t[Len(s)]
    <3>1. t[Len(s) + k] = before + more /\ more \in Nat /\ begin \in Nat /\ before \in Nat
          /\ begin <= before
      BY <2>2, <2>3, <2>4
    <3> HIDE DEF before, more
    <3>2. begin \in Nat
      BY <3>1
    <3> HIDE DEF begin
    <3>3. begin <= before + more
      BY <3>1, <3>2
    <3> QED
      BY <3>1, <3>3 DEF begin
  <2> QED
    BY <2>1, <2>5
<1>7. \A k \in 0..Len(r) : k \in Good
  <2> HIDE DEF Good
  <2> QED
    BY <1>2, <1>5, <1>6, Upwards
<1>8. Len(s) + Len(r) = Len(w) /\ Len(r) \in 0..Len(r)
  BY <1>1, <1>2
<1>9. t[Len(s)] <= t[Len(s) + Len(r)]
  BY <1>7, <1>8
<1>10. Total(f, s) <= Total(f, w)
  BY <1>3, <1>4, <1>8, <1>9
<1> QED
  BY <1>10 DEF w

-----------------------------------------------------------------------------
(* The evidence budget                                                      *)

(* Cutting the other excerpts leaves each a character and takes no more    *)
(* than the excess.                                                        *)
Spared(g, f, slots) ==
  /\ \A p \in ToSet(slots) : g[p] >= 1 /\ g[p] <= f[p] /\ (p[2] = 1 => g[p] = f[p])
  /\ Total(f, slots) >= MaxEvidence => Total(g, slots) >= MaxEvidence
  /\ Total(g, slots) > MaxEvidence => \A p \in ToSet(slots) : p[2] # 1 => g[p] = 1

(* The pass from the end of the list is such a cut.                        *)
LEMMA TrimmingSparesRepresentatives ==
  ASSUME NEW P, NEW f \in [P -> Nat], NEW slots \in Seq(P), IsInjective(slots),
         \A p \in ToSet(slots) : f[p] >= 1
  PROVE  LET g == TrimNonrepresentatives(f, slots) IN
         g \in [P -> Nat] /\ Spared(g, f, slots)
<1> DEFINE r == Reverse(slots)
           X == ToSet(slots)
           Keeps(g) ==
             /\ \A p \in X : g[p] >= 1 /\ g[p] <= f[p] /\ (p[2] = 1 => g[p] = f[p])
             /\ Total(f, slots) >= MaxEvidence => Total(g, slots) >= MaxEvidence
           Done(g, k) ==
             Total(g, slots) > MaxEvidence => \A i \in 1..k : r[i][2] # 1 => g[r[i]] = 1
           I == [k \in 0..Len(r) |-> {g \in [P -> Nat] : Keeps(g) /\ Done(g, k)}]
           body == [g \in [DOMAIN f -> Nat] |-> [p \in DOMAIN f |->
                      IF p[2] = 1 \/ Total(g, slots) - MaxEvidence <= 0 THEN g
                      ELSE [g EXCEPT ![p] = @ - Lesser(@ - 1, Total(g, slots) - MaxEvidence)]]]
<1>1. /\ r \in Seq(P) /\ Len(r) \in Nat /\ ToSet(r) = X /\ X \subseteq P
      /\ \A i \in 1..Len(r) : r[i] \in X
      /\ \A p \in X : \E i \in 1..Len(r) : r[i] = p
  <2>1. r \in Seq(P) /\ ToSet(r) = X
    BY Backwards
  <2> HIDE DEF r
  <2> QED
    BY <2>1, Sequences
<1>2. TrimNonrepresentatives(f, slots) = Loop(body, f, r)
  BY DEF TrimNonrepresentatives, Pass
<1>3. DOMAIN f = P /\ MaxEvidence \in Nat
  BY Limits
<1> HIDE DEF r
<1>4. f \in I[0]
  <2>1. Keeps(f)
    BY <1>1
  <2>2. Done(f, 0)
    OBVIOUS
  <2> HIDE DEF Keeps, Done
  <2> QED
    BY <1>1, <2>1, <2>2
<1>5. ASSUME NEW k \in 1..Len(r), NEW g \in I[k - 1]
      PROVE  body[g][r[k]] \in I[k]
  <2>1. k - 1 \in 0..Len(r) /\ k \in 0..Len(r)
    BY <1>1
  <2>2. g \in [P -> Nat] /\ Keeps(g) /\ Done(g, k - 1)
    BY <1>5, <2>1
  <2> DEFINE p == r[k]
             n == Total(g, slots)
             h == body[g][p]
  <2>3. p \in X /\ p \in P /\ n \in Nat
    BY <1>1, <2>2, TotalBounds
  <2>4. h = IF p[2] = 1 \/ n - MaxEvidence <= 0 THEN g
            ELSE [g EXCEPT ![p] = g[p] - Lesser(g[p] - 1, n - MaxEvidence)]
    BY <1>3, <2>2, <2>3
  <2> HIDE DEF body, h, p, n, X
  <2> SUFFICES h \in [P -> Nat] /\ Keeps(h) /\ Done(h, k)
    <3> HIDE DEF Keeps, Done
    <3>1. I[k] = {x \in [P -> Nat] : Keeps(x) /\ Done(x, k)}
      BY <2>1
    <3> QED
      BY <3>1 DEF h, p
  <2>5. CASE p[2] = 1 \/ n - MaxEvidence <= 0
    <3>1. h = g
      BY <2>4, <2>5
    <3>2. Done(g, k)
      <4> SUFFICES ASSUME n > MaxEvidence, NEW i \in 1..k, r[i][2] # 1  PROVE g[r[i]] = 1
        BY DEF n
      <4>1. i # k
        BY <1>3, <2>3, <2>5 DEF p
      <4>2. i \in 1..(k - 1)
        BY <1>1, <4>1
      <4> QED
        BY <2>2, <4>2 DEF n
    <3> QED
      BY <2>2, <3>1, <3>2
  <2>6. CASE ~ (p[2] = 1 \/ n - MaxEvidence <= 0)
    <3> DEFINE v == g[p] - Lesser(g[p] - 1, n - MaxEvidence)
    <3>1. /\ g[p] \in Nat /\ g[p] >= 1 /\ v \in Nat /\ v >= 1 /\ v <= g[p]
          /\ n - g[p] + v >= MaxEvidence /\ (n - g[p] + v > MaxEvidence => v = 1)
      BY <1>3, <2>2, <2>3, <2>6, SMTT(30) DEF Lesser
    <3> HIDE DEF v
    <3>2. h = [g EXCEPT ![p] = v]
      BY <2>4, <2>6 DEF v
    <3>3. h \in [P -> Nat] /\ Total(h, slots) = n - g[p] + v
      <4>1. p \in ToSet(slots)
        BY <2>3 DEF X
      <4>2. g \in [P -> Nat] /\ v \in Nat
        BY <2>2, <3>1
      <4>3. h \in [P -> Nat] /\ Total(h, slots) = Total(g, slots) - g[p] + v
        <5> HIDE DEF I, Keeps, Done
        <5>1. Changed(h, g, p, v)
          BY <3>2 DEF Changed
        <5>2. h \in [P -> Nat] /\ Rewritten(h, g, slots, p, v)
          BY <4>1, <4>2, <5>1, TotalChanges
        <5> QED
          BY <5>2 DEF Rewritten
      <4> QED
        BY <4>3 DEF n
    <3>4. h[p] = v /\ \A q \in P : q # p => h[q] = g[q]
      BY <2>2, <2>3, <3>2
    <3>5. ASSUME NEW q \in X  PROVE h[q] >= 1 /\ h[q] <= f[q] /\ (q[2] = 1 => h[q] = f[q])
      <4>1. CASE q = p
        <5>1. g[p] <= f[p] /\ f[p] \in Nat /\ p[2] # 1
          BY <2>2, <2>3, <2>6
        <5> QED
          BY <3>1, <3>4, <4>1, <5>1
      <4>2. CASE q # p
        BY <1>1, <2>2, <3>4, <4>2
      <4> QED
        BY <4>1, <4>2
    <3>6. Done(h, k)
      <4> SUFFICES ASSUME Total(h, slots) > MaxEvidence, NEW i \in 1..k, r[i][2] # 1
                   PROVE  h[r[i]] = 1
        OBVIOUS
      <4>1. CASE r[i] = p
        BY <3>1, <3>3, <3>4, <4>1
      <4>2. CASE r[i] # p
        <5>1. i \in 1..(k - 1) /\ r[i] \in P
          BY <1>1, <4>2 DEF p
        <5>2. n > MaxEvidence
          BY <1>3, <2>3, <2>6
        <5> QED
          BY <2>2, <3>4, <4>2, <5>1, <5>2 DEF n
      <4> QED
        BY <4>1, <4>2
    <3> QED
      BY <3>1, <3>3, <3>5, <3>6
  <2> QED
    BY <2>5, <2>6
<1>6. Loop(body, f, r) \in I[Len(r)]
  <2> HIDE DEF I, body
  <2>1. \A k \in 1..Len(r) : \A g \in I[k - 1] : body[g][r[k]] \in I[k]
    BY <1>5
  <2> QED
    BY <1>1, <1>4, <2>1, LoopKeeps
<1> DEFINE g == Loop(body, f, r)
<1> HIDE DEF g, body, X
<1>7. g \in [P -> Nat] /\ Keeps(g) /\ Done(g, Len(r))
  <2> HIDE DEF Keeps, Done
  <2> QED
    BY <1>1, <1>6 DEF g
<1>8. Total(g, slots) > MaxEvidence => \A p \in X : p[2] # 1 => g[p] = 1
  <2> SUFFICES ASSUME Total(g, slots) > MaxEvidence, NEW p \in X, p[2] # 1  PROVE g[p] = 1
    OBVIOUS
  <2>1. PICK i \in 1..Len(r) : r[i] = p
    BY <1>1
  <2>2. \A j \in 1..Len(r) : r[j][2] # 1 => g[r[j]] = 1
    BY <1>7
  <2> QED
    BY <2>1, <2>2
<1> QED
  BY <1>2, <1>7, <1>8 DEF g, X, Spared

(* Excerpts cut no further than to one character.                          *)
Cuts(g, f, S) == \A p \in S : g[p] >= 1 /\ g[p] <= f[p]

(* One pass downwards never passes the budget, and takes something away    *)
(* when there is something to take.                                        *)
LEMMA ShrinkingTakesSome ==
  ASSUME NEW P, NEW f \in [P -> Nat], NEW slots \in Seq(P), IsInjective(slots),
         \A p \in ToSet(slots) : f[p] >= 1
  PROVE  LET g == Shrink(f, slots) IN
         /\ g \in [P -> Nat] /\ Cuts(g, f, ToSet(slots))
         /\ Total(f, slots) <= MaxEvidence => g = f
         /\ Total(f, slots) > MaxEvidence => Total(g, slots) >= MaxEvidence
         /\ Total(f, slots) > MaxEvidence /\ Len(slots) <= MaxEvidence =>
              Total(g, slots) < Total(f, slots)
<1> DEFINE r == Reverse(slots)
           X == ToSet(slots)
           t == Total(f, slots)
           Keeps(g) ==
             /\ Cuts(g, f, X)
             /\ t <= MaxEvidence => g = f
             /\ t > MaxEvidence => Total(g, slots) >= MaxEvidence
             /\ Total(g, slots) <= t
           Done(g, k) ==
             t > MaxEvidence /\ Total(g, slots) = t => g = f /\ \A i \in 1..k : f[r[i]] <= 1
           I == [k \in 0..Len(r) |-> {g \in [P -> Nat] : Keeps(g) /\ Done(g, k)}]
           body == [g \in [DOMAIN f -> Nat] |-> [p \in DOMAIN f |->
                      IF g[p] > 1 /\ Total(g, slots) > MaxEvidence THEN [g EXCEPT ![p] = @ - 1] ELSE g]]
<1>1. /\ r \in Seq(P) /\ Len(r) \in Nat /\ ToSet(r) = X /\ X \subseteq P
      /\ \A i \in 1..Len(r) : r[i] \in X
      /\ \A p \in X : \E i \in 1..Len(r) : r[i] = p
  <2>1. r \in Seq(P) /\ ToSet(r) = X
    BY Backwards
  <2> HIDE DEF r
  <2> QED
    BY <2>1, Sequences
<1>2. Shrink(f, slots) = Loop(body, f, r)
  BY DEF Shrink, Pass
<1>3. DOMAIN f = P /\ MaxEvidence \in Nat /\ t \in Nat
  BY Limits, TotalBounds
<1> HIDE DEF r
<1>4. f \in I[0]
  <2>1. Keeps(f)
    BY <1>1, <1>3 DEF Cuts
  <2>2. Done(f, 0)
    OBVIOUS
  <2> HIDE DEF Keeps, Done
  <2> QED
    BY <1>1, <2>1, <2>2
<1>5. ASSUME NEW k \in 1..Len(r), NEW g \in I[k - 1]
      PROVE  body[g][r[k]] \in I[k]
  <2>1. k - 1 \in 0..Len(r) /\ k \in 0..Len(r)
    BY <1>1
  <2>2. g \in [P -> Nat] /\ Keeps(g) /\ Done(g, k - 1)
    BY <1>5, <2>1
  <2> DEFINE p == r[k]
             n == Total(g, slots)
             h == body[g][p]
  <2>3. p \in X /\ p \in P /\ n \in Nat
    BY <1>1, <2>2, TotalBounds
  <2>4. h = IF g[p] > 1 /\ n > MaxEvidence THEN [g EXCEPT ![p] = g[p] - 1] ELSE g
    BY <1>3, <2>2, <2>3
  <2> HIDE DEF body, h, p, n, X, t
  <2> SUFFICES h \in [P -> Nat] /\ Keeps(h) /\ Done(h, k)
    <3> HIDE DEF Keeps, Done
    <3>1. I[k] = {x \in [P -> Nat] : Keeps(x) /\ Done(x, k)}
      BY <2>1
    <3> QED
      BY <3>1 DEF h, p
  <2>5. CASE ~ (g[p] > 1 /\ n > MaxEvidence)
    <3>1. h = g
      BY <2>4, <2>5
    <3>2. Done(g, k)
      <4> SUFFICES ASSUME t > MaxEvidence, n = t  PROVE g = f /\ \A i \in 1..k : f[r[i]] <= 1
        BY DEF n
      <4>1. g = f /\ \A i \in 1..(k - 1) : f[r[i]] <= 1
        BY <2>2 DEF n
      <4>2. f[r[k]] <= 1
        <5>1. f[p] \in Nat /\ ~ (f[p] > 1)
          BY <2>3, <2>5, <4>1
        <5> QED
          BY <5>1 DEF p
      <4>3. \A i \in 1..k : i = k \/ i \in 1..(k - 1)
        BY <1>1
      <4> QED
        BY <4>1, <4>2, <4>3
    <3> QED
      BY <2>2, <3>1, <3>2
  <2>6. CASE g[p] > 1 /\ n > MaxEvidence
    <3> DEFINE v == g[p] - 1
    <3>1. g[p] \in Nat /\ v \in Nat /\ v >= 1 /\ v <= g[p] /\ n - g[p] + v = n - 1
      BY <2>2, <2>3, <2>6
    <3>2. h = [g EXCEPT ![p] = v]
      BY <2>4, <2>6
    <3> HIDE DEF v
    <3>3. h \in [P -> Nat] /\ Total(h, slots) = n - 1
      <4>1. p \in ToSet(slots)
        BY <2>3 DEF X
      <4>2. g \in [P -> Nat] /\ v \in Nat
        BY <2>2, <3>1
      <4>3. h \in [P -> Nat] /\ Total(h, slots) = Total(g, slots) - g[p] + v
        <5> HIDE DEF I, Keeps, Done
        <5>1. Changed(h, g, p, v)
          BY <3>2 DEF Changed
        <5>2. h \in [P -> Nat] /\ Rewritten(h, g, slots, p, v)
          BY <4>1, <4>2, <5>1, TotalChanges
        <5> QED
          BY <5>2 DEF Rewritten
      <4> QED
        BY <3>1, <4>3 DEF n
    <3>4. h[p] = v /\ \A q \in P : q # p => h[q] = g[q]
      BY <2>2, <2>3, <3>2
    <3>5. Cuts(h, f, X)
      <4> SUFFICES ASSUME NEW q \in X  PROVE h[q] >= 1 /\ h[q] <= f[q]
        BY DEF Cuts
      <4>1. CASE q = p
        <5>1. g[p] <= f[p] /\ f[p] \in Nat
          BY <2>2, <2>3 DEF Cuts
        <5> QED
          BY <3>1, <3>4, <4>1, <5>1
      <4>2. CASE q # p
        BY <1>1, <2>2, <3>4, <4>2 DEF Cuts
      <4> QED
        BY <4>1, <4>2
    <3>6. t > MaxEvidence
      <4>1. n <= t
        BY <2>2 DEF n
      <4> QED
        BY <1>3, <2>3, <2>6, <4>1
    <3>7. Keeps(h) /\ Done(h, k)
      <4>1. n <= t
        BY <2>2 DEF n
      <4>2. Total(h, slots) >= MaxEvidence /\ Total(h, slots) <= t /\ Total(h, slots) # t
        BY <1>3, <2>3, <2>6, <3>3, <4>1
      <4> QED
        BY <1>3, <3>5, <3>6, <4>2
    <3> QED
      BY <3>3, <3>7
  <2> QED
    BY <2>5, <2>6
<1>6. Loop(body, f, r) \in I[Len(r)]
  <2> HIDE DEF I, body
  <2>1. \A k \in 1..Len(r) : \A g \in I[k - 1] : body[g][r[k]] \in I[k]
    BY <1>5
  <2> QED
    BY <1>1, <1>4, <2>1, LoopKeeps
<1> DEFINE g == Loop(body, f, r)
<1> HIDE DEF g, body, X, t
<1>7. g \in [P -> Nat] /\ Keeps(g) /\ Done(g, Len(r))
  <2> HIDE DEF Keeps, Done
  <2> QED
    BY <1>1, <1>6 DEF g
<1>8. t > MaxEvidence /\ Len(slots) <= MaxEvidence => Total(g, slots) < t
  <2> SUFFICES ASSUME t > MaxEvidence, Len(slots) <= MaxEvidence, ~ (Total(g, slots) < t)  PROVE FALSE
    OBVIOUS
  <2>1. Total(g, slots) \in Nat
    BY <1>7, TotalBounds
  <2>2. \A i \in 1..Len(r) : f[r[i]] <= 1
    BY <1>3, <1>7, <2>1
  <2>3. \A p \in ToSet(slots) : f[p] <= 1
    BY <1>1, <2>2 DEF X
  <2>4. t <= Len(slots)
    BY <2>3, TotalBounds DEF t
  <2> QED
    BY <1>3, <2>4
<1> QED
  BY <1>2, <1>7, <1>8 DEF g, X, t

(* One pass upwards never passes the budget, and stops short of it only    *)
(* when every excerpt got its character.                                   *)
LEMMA GrowingFillsTheBudget ==
  ASSUME NEW P, NEW f \in [P -> Nat], NEW h \in [P -> Nat], NEW slots \in Seq(P),
         IsInjective(slots), Cuts(h, f, ToSet(slots)), Total(h, slots) <= MaxEvidence
  PROVE  LET g == Grow(h, f, slots) IN
         /\ g \in [P -> Nat] /\ Cuts(g, f, ToSet(slots))
         /\ Total(h, slots) <= Total(g, slots) /\ Total(g, slots) <= MaxEvidence
         /\ Total(g, slots) < MaxEvidence =>
              \A p \in ToSet(slots) : g[p] = f[p] \/ g[p] >= h[p] + 1
<1> DEFINE X == ToSet(slots)
           t == Total(h, slots)
           More(g, p) == g[p] = f[p] \/ g[p] >= h[p] + 1
           Keeps(g) ==
             /\ \A p \in X : g[p] >= h[p] /\ g[p] <= f[p]
             /\ t <= Total(g, slots) /\ Total(g, slots) <= MaxEvidence
           Done(g, k) == Total(g, slots) < MaxEvidence => \A i \in 1..k : More(g, slots[i])
           I == [k \in 0..Len(slots) |-> {g \in [P -> Nat] : Keeps(g) /\ Done(g, k)}]
           body == [g \in [DOMAIN h -> Nat] |-> [p \in DOMAIN h |->
                      IF g[p] < f[p] /\ Total(g, slots) < MaxEvidence THEN [g EXCEPT ![p] = @ + 1] ELSE g]]
<1>1. /\ Len(slots) \in Nat /\ X \subseteq P
      /\ \A i \in 1..Len(slots) : slots[i] \in X
      /\ \A p \in X : \E i \in 1..Len(slots) : slots[i] = p
  BY Sequences
<1>2. Grow(h, f, slots) = Loop(body, h, slots)
  BY DEF Grow, Pass
<1>3. DOMAIN h = P /\ MaxEvidence \in Nat /\ t \in Nat
  BY Limits, TotalBounds
<1>4. h \in I[0]
  <2>1. Keeps(h)
    BY <1>1, <1>3 DEF Cuts
  <2>2. Done(h, 0)
    OBVIOUS
  <2> HIDE DEF Keeps, Done
  <2> QED
    BY <1>1, <2>1, <2>2
<1>5. ASSUME NEW k \in 1..Len(slots), NEW g \in I[k - 1]
      PROVE  body[g][slots[k]] \in I[k]
  <2>1. k - 1 \in 0..Len(slots) /\ k \in 0..Len(slots)
    BY <1>1
  <2>2. g \in [P -> Nat] /\ Keeps(g) /\ Done(g, k - 1)
    BY <1>5, <2>1
  <2> DEFINE p == slots[k]
             n == Total(g, slots)
             w == body[g][p]
  <2>3. p \in X /\ p \in P /\ n \in Nat
    BY <1>1, <2>2, TotalBounds
  <2>4. w = IF g[p] < f[p] /\ n < MaxEvidence THEN [g EXCEPT ![p] = g[p] + 1] ELSE g
    BY <1>3, <2>2, <2>3
  <2>7. \A i \in 1..k : i = k \/ i \in 1..(k - 1)
    BY <1>1
  <2>8. g[p] \in Nat /\ f[p] \in Nat /\ h[p] \in Nat /\ h[p] <= g[p] /\ g[p] <= f[p]
    BY <2>2, <2>3
  <2> HIDE DEF body, w, p, n, X, t
  <2> SUFFICES w \in [P -> Nat] /\ Keeps(w) /\ Done(w, k)
    <3> HIDE DEF Keeps, Done
    <3>1. I[k] = {x \in [P -> Nat] : Keeps(x) /\ Done(x, k)}
      BY <2>1
    <3> QED
      BY <3>1 DEF w, p
  <2>5. CASE ~ (g[p] < f[p] /\ n < MaxEvidence)
    <3>1. w = g
      BY <2>4, <2>5
    <3>2. Done(g, k)
      <4> SUFFICES ASSUME n < MaxEvidence, NEW i \in 1..k  PROVE More(g, slots[i])
        BY DEF n
      <4>1. CASE i = k
        BY <2>5, <2>8, <4>1 DEF p
      <4>2. CASE i \in 1..(k - 1)
        BY <2>2, <4>2 DEF n
      <4> QED
        BY <2>7, <4>1, <4>2
    <3> QED
      BY <2>2, <3>1, <3>2
  <2>6. CASE g[p] < f[p] /\ n < MaxEvidence
    <3> DEFINE v == g[p] + 1
    <3>1. v \in Nat /\ v >= h[p] + 1 /\ v <= f[p] /\ n - g[p] + v = n + 1
      BY <2>3, <2>6, <2>8, SMTT(30)
    <3>2. w = [g EXCEPT ![p] = v]
      BY <2>4, <2>6
    <3> HIDE DEF v
    <3>3. w \in [P -> Nat] /\ Total(w, slots) = n + 1
      <4>1. p \in ToSet(slots)
        BY <2>3 DEF X
      <4>2. g \in [P -> Nat] /\ v \in Nat
        BY <2>2, <3>1
      <4>3. w \in [P -> Nat] /\ Total(w, slots) = Total(g, slots) - g[p] + v
        <5> HIDE DEF I, Keeps, Done
        <5>1. Changed(w, g, p, v)
          BY <3>2 DEF Changed
        <5>2. w \in [P -> Nat] /\ Rewritten(w, g, slots, p, v)
          BY <4>1, <4>2, <5>1, TotalChanges
        <5> QED
          BY <5>2 DEF Rewritten
      <4> QED
        BY <3>1, <4>3 DEF n
    <3>4. w[p] = v /\ \A q \in P : q # p => w[q] = g[q]
      BY <2>2, <2>3, <3>2
    <3>5. ASSUME NEW q \in X  PROVE w[q] >= h[q] /\ w[q] <= f[q]
      <4>1. CASE q = p
        BY <2>8, <3>1, <3>4, <4>1, SMTT(30)
      <4>2. CASE q # p
        BY <1>1, <2>2, <3>4, <4>2
      <4> QED
        BY <4>1, <4>2
    <3>6. t <= n + 1 /\ n + 1 <= MaxEvidence
      <4>1. t <= n
        BY <2>2 DEF n
      <4> QED
        BY <1>3, <2>3, <2>6, <4>1
    <3>7. Done(w, k)
      <4> SUFFICES ASSUME NEW i \in 1..k  PROVE More(w, slots[i])
        OBVIOUS
      <4>1. CASE slots[i] = p
        BY <3>1, <3>4, <4>1
      <4>2. CASE slots[i] # p
        <5>1. i \in 1..(k - 1) /\ slots[i] \in P
          BY <1>1, <2>7, <4>2 DEF p
        <5>2. More(g, slots[i])
          BY <2>2, <2>6, <5>1 DEF n
        <5> QED
          BY <3>4, <4>2, <5>1, <5>2
      <4> QED
        BY <4>1, <4>2
    <3> QED
      BY <3>3, <3>5, <3>6, <3>7
  <2> QED
    BY <2>5, <2>6
<1>6. Loop(body, h, slots) \in I[Len(slots)]
  <2> HIDE DEF I, body
  <2>1. \A k \in 1..Len(slots) : \A g \in I[k - 1] : body[g][slots[k]] \in I[k]
    BY <1>5
  <2> QED
    BY <1>1, <1>4, <2>1, LoopKeeps
<1> DEFINE g == Loop(body, h, slots)
<1> HIDE DEF g, body, X, t
<1>7. g \in [P -> Nat] /\ Keeps(g) /\ Done(g, Len(slots))
  <2> HIDE DEF Keeps, Done
  <2> QED
    BY <1>1, <1>6 DEF g
<1>8. Total(g, slots) < MaxEvidence => \A p \in X : More(g, p)
  BY <1>1, <1>7
<1>9. Cuts(g, f, X)
  <2> SUFFICES ASSUME NEW p \in X  PROVE g[p] >= 1 /\ g[p] <= f[p]
    BY DEF Cuts
  <2>1. h[p] >= 1 /\ h[p] \in Nat /\ g[p] \in Nat /\ g[p] >= h[p]
    BY <1>1, <1>7 DEF Cuts, X
  <2> QED
    BY <1>7, <2>1
<1> QED
  BY <1>2, <1>7, <1>8, <1>9 DEF g, X, t

(* Enough passes downwards reach the budget from anywhere within one       *)
(* character per excerpt of it.                                            *)
LEMMA ShrinkingReachesTheBudget ==
  ASSUME NEW P, NEW f \in [P -> Nat], NEW slots \in Seq(P), IsInjective(slots),
         \A p \in ToSet(slots) : f[p] >= 1, Len(slots) <= MaxEvidence,
         Total(f, slots) <= MaxEvidence + Len(slots)
  PROVE  LET g == ShrinkAll(f, slots) IN
         /\ g \in [P -> Nat] /\ Cuts(g, f, ToSet(slots)) /\ Total(g, slots) <= MaxEvidence
         /\ Total(f, slots) <= MaxEvidence => g = f
         /\ Total(f, slots) > MaxEvidence => Total(g, slots) = MaxEvidence
<1> DEFINE X == ToSet(slots)
           t == Total(f, slots)
           Keeps(g) == Cuts(g, f, X) /\ (t <= MaxEvidence => g = f)
           Near(g, k) ==
             t > MaxEvidence =>
               /\ Total(g, slots) >= MaxEvidence
               /\ Total(g, slots) = MaxEvidence \/ Total(g, slots) + k <= t
           I == [k \in 0..Len(slots) |-> {g \in [P -> Nat] : Keeps(g) /\ Near(g, k)}]
           body == [g \in [DOMAIN f -> Nat] |-> [p \in DOMAIN f |-> Shrink(g, slots)]]
<1>1. /\ Len(slots) \in Nat /\ X \subseteq P
      /\ \A i \in 1..Len(slots) : slots[i] \in P
  BY Sequences
<1>2. ShrinkAll(f, slots) = Loop(body, f, slots)
  BY DEF ShrinkAll
<1>3. DOMAIN f = P /\ MaxEvidence \in Nat /\ t \in Nat
  BY Limits, TotalBounds
<1>4. f \in I[0]
  <2>1. Keeps(f) /\ Near(f, 0)
    BY <1>1, <1>3 DEF Cuts
  <2> HIDE DEF Keeps, Near
  <2> QED
    BY <1>1, <2>1
<1>5. ASSUME NEW k \in 1..Len(slots), NEW g \in I[k - 1]
      PROVE  body[g][slots[k]] \in I[k]
  <2>1. k - 1 \in 0..Len(slots) /\ k \in 0..Len(slots)
    BY <1>1
  <2>2. g \in [P -> Nat] /\ Keeps(g) /\ Near(g, k - 1)
    BY <1>5, <2>1
  <2> DEFINE n == Total(g, slots)
             h == Shrink(g, slots)
             m == Total(h, slots)
  <2>3. body[g][slots[k]] = h
    BY <1>1, <1>3, <2>2
  <2>4. \A p \in ToSet(slots) : g[p] >= 1
    BY <2>2 DEF Cuts
  <2>5. /\ h \in [P -> Nat] /\ Cuts(h, g, X)
        /\ n <= MaxEvidence => h = g
        /\ n > MaxEvidence => m >= MaxEvidence
        /\ n > MaxEvidence => m < n
    <3> HIDE DEF I, Keeps, Near, body
    <3> QED
      BY <2>2, <2>4, ShrinkingTakesSome
  <2>6. n \in Nat /\ m \in Nat
    BY <2>2, <2>5, TotalBounds
  <2> HIDE DEF h, t
  <2>7. Keeps(h)
    <3>1. Cuts(h, f, X)
      <4> SUFFICES ASSUME NEW q \in X  PROVE h[q] >= 1 /\ h[q] <= f[q]
        BY DEF Cuts
      <4>1. /\ h[q] \in Nat /\ g[q] \in Nat /\ f[q] \in Nat
            /\ h[q] >= 1 /\ h[q] <= g[q] /\ g[q] <= f[q]
        BY <1>1, <2>2, <2>5 DEF Cuts
      <4> QED
        BY <4>1
    <3>2. t <= MaxEvidence => h = f
      BY <2>2, <2>5 DEF t
    <3> QED
      BY <3>1, <3>2
  <2>8. Near(h, k)
    <3> SUFFICES ASSUME t > MaxEvidence  PROVE m >= MaxEvidence /\ (m = MaxEvidence \/ m + k <= t)
      OBVIOUS
    <3>1. n >= MaxEvidence /\ (n = MaxEvidence \/ n + (k - 1) <= t)
      BY <2>2
    <3>2. CASE n = MaxEvidence
      BY <1>3, <2>5, <3>2
    <3>3. CASE n > MaxEvidence
      <4>1. m >= MaxEvidence /\ m < n /\ n + (k - 1) <= t
        BY <1>3, <2>5, <3>1, <3>3
      <4> HIDE DEF n, m
      <4> QED
        BY <1>1, <1>3, <2>6, <4>1
    <3> QED
      BY <1>3, <2>6, <3>1, <3>2, <3>3
  <2> HIDE DEF Keeps, Near, body
  <2>9. I[k] = {x \in [P -> Nat] : Keeps(x) /\ Near(x, k)}
    BY <2>1
  <2> QED
    BY <2>3, <2>5, <2>7, <2>8, <2>9
<1>6. Loop(body, f, slots) \in I[Len(slots)]
  <2> HIDE DEF I, body
  <2>1. \A k \in 1..Len(slots) : \A g \in I[k - 1] : body[g][slots[k]] \in I[k]
    BY <1>5
  <2> QED
    BY <1>1, <1>4, <2>1, LoopKeeps
<1> DEFINE g == Loop(body, f, slots)
<1> HIDE DEF g, body, X, t
<1>7. g \in [P -> Nat] /\ Keeps(g) /\ Near(g, Len(slots))
  <2> HIDE DEF Keeps, Near
  <2> QED
    BY <1>1, <1>6 DEF g
<1>8. Total(g, slots) \in Nat /\ t <= MaxEvidence + Len(slots)
  BY <1>7, TotalBounds DEF t
<1>9. t > MaxEvidence => Total(g, slots) = MaxEvidence
  BY <1>1, <1>3, <1>7, <1>8
<1>10. t <= MaxEvidence => Total(g, slots) <= MaxEvidence
  BY <1>7 DEF t
<1>11. Total(g, slots) <= MaxEvidence
  BY <1>3, <1>8, <1>9, <1>10
<1> QED
  BY <1>2, <1>7, <1>9, <1>11 DEF g, X, t

(* Products grow with their factors.                                       *)
LEMMA Times ==
  ASSUME NEW a \in Nat, NEW b \in Nat, NEW c \in Nat, a <= b
  PROVE  a * c <= b * c /\ c * a <= c * b
OBVIOUS

(* A share is what the budget gives an excerpt, rounded down, but never    *)
(* less than a character.                                                  *)
LEMMA SharesAreFair ==
  ASSUME NEW v \in Nat, v >= 1, NEW t \in Nat, t > MaxEvidence
  PROVE  LET s == Greater(1, (v * MaxEvidence) \div t) IN
         /\ s \in Nat /\ s >= 1 /\ s <= v
         /\ s * t <= v * MaxEvidence + t
         /\ v * MaxEvidence <= (s + 1) * t
<1>1. MaxEvidence \in Nat /\ MaxEvidence >= 1
  BY Limits
<1> DEFINE x == v * MaxEvidence
           q == x \div t
           s == Greater(1, q)
<1>2. x \in Nat /\ t > 0
  BY <1>1
<1> HIDE DEF x
<1>3. q \in Nat /\ t * q <= x /\ x < t * q + t
  <2>1. q \in Int /\ x = t * q + (x % t) /\ x % t \in 0..(t - 1)
    BY <1>2
  <2>2. q >= 0
    BY <1>2
  <2> HIDE DEF q
  <2> QED
    BY <1>2, <2>1, <2>2
<1> HIDE DEF q
<1>4. q <= v
  <2> SUFFICES ASSUME q >= v + 1  PROVE FALSE
    BY <1>3
  <2>1. t * q >= t * (v + 1)
    BY <1>2, <1>3
  <2>2. t * (v + 1) = t * v + t /\ t * v >= v * MaxEvidence
    BY <1>1
  <2> QED
    BY <1>2, <1>3, <2>1, <2>2 DEF x
<1>5. s \in Nat /\ s >= 1 /\ s <= v /\ (s = q \/ (s = 1 /\ q <= 1)) /\ q <= s
  BY <1>3, <1>4 DEF Greater
<1>6. s * t <= x + t
  <2>1. CASE s = q
    BY <1>2, <1>3, <2>1
  <2>2. CASE s = 1
    BY <1>2, <2>2
  <2> QED
    BY <1>5, <2>1, <2>2
<1>7. x <= (s + 1) * t
  <2> HIDE DEF s
  <2>1. (s + 1) * t = t * s + t /\ t * q <= t * s
    BY <1>3, <1>5
  <2>2. t * q \in Nat /\ t * s \in Nat
    BY <1>3, <1>5
  <2> QED
    BY <1>2, <1>3, <2>1, <2>2
<1> QED
  BY <1>5, <1>6, <1>7 DEF x, q

(* Cutting every excerpt uses the budget to the last character, as long as *)
(* there is a character for each.                                          *)
LEMMA TrimmingFillsTheBudget ==
  ASSUME NEW P, NEW f \in [P -> Nat], NEW slots \in Seq(P), IsInjective(slots),
         \A p \in ToSet(slots) : f[p] >= 1, Total(f, slots) > MaxEvidence,
         Len(slots) <= MaxEvidence
  PROVE  LET g == TrimAllProportionally(f, slots) IN
         /\ g \in [P -> Nat] /\ Cuts(g, f, ToSet(slots))
         /\ Total(g, slots) = MaxEvidence
<1> DEFINE t == Total(f, slots)
           share == Share(f, slots)
           low == ShrinkAll(share, slots)
           g == Grow(low, f, slots)
<1>1. /\ MaxEvidence \in Nat /\ MaxEvidence >= 1 /\ t \in Nat /\ t > MaxEvidence
      /\ Len(slots) \in Nat /\ DOMAIN f = P
  <2>1. t \in Nat /\ Len(slots) \in Nat
    BY TotalBounds
  <2> QED
    BY <2>1, Limits
<1>2. TrimAllProportionally(f, slots) = g
  BY <1>1 DEF TrimAllProportionally
<1>3. \A p \in P : share[p] = Greater(1, (f[p] * MaxEvidence) \div t)
  BY <1>1 DEF Share
<1>4. share = [p \in P |-> share[p]]
  BY <1>1 DEF Share
<1>5. /\ \A p \in P : f[p] \in Nat
      /\ \A p \in ToSet(slots) : p \in P /\ f[p] >= 1
  BY Sequences
<1> HIDE DEF t, share, low, g
<1>6. ASSUME NEW p \in ToSet(slots)
      PROVE  /\ share[p] \in Nat /\ share[p] >= 1 /\ share[p] <= f[p]
             /\ share[p] * t <= f[p] * MaxEvidence + t
             /\ f[p] * MaxEvidence <= (share[p] + 1) * t
  <2>1. p \in P /\ f[p] \in Nat /\ f[p] >= 1
    BY <1>5
  <2> DEFINE v == f[p]
             x == share[p]
  <2>2. v \in Nat /\ v >= 1 /\ x = Greater(1, (v * MaxEvidence) \div t)
    BY <1>3, <2>1
  <2> HIDE DEF v, x
  <2>3. /\ x \in Nat /\ x >= 1 /\ x <= v
        /\ x * t <= v * MaxEvidence + t
        /\ v * MaxEvidence <= (x + 1) * t
    BY <1>1, <2>2, SharesAreFair
  <2> QED
    BY <2>3 DEF v, x
<1>7. share \in [P -> Nat] /\ \A p \in ToSet(slots) : share[p] >= 1
  <2>1. ASSUME NEW p \in P  PROVE share[p] \in Nat
    <3>1. f[p] * MaxEvidence \in Nat /\ t > 0
      BY <1>1, <1>5
    <3>2. (f[p] * MaxEvidence) \div t \in Nat
      <4> DEFINE x == f[p] * MaxEvidence
      <4>1. x \in Nat /\ t \in Nat /\ t > 0
        BY <1>1, <3>1
      <4> HIDE DEF x
      <4>2. x \div t \in Nat
        BY <4>1
      <4> QED
        BY <4>2 DEF x
    <3> QED
      BY <1>3, <3>2 DEF Greater
  <2> QED
    BY <1>4, <1>6, <2>1
<1>8. Total(share, slots) \in Nat /\ Total(share, slots) <= MaxEvidence + Len(slots)
  <2>1. \A p \in ToSet(slots) : share[p] * t <= f[p] * MaxEvidence + t
    BY <1>6
  <2>2. Total(share, slots) \in Nat
        /\ Total(share, slots) * t <= Total(f, slots) * MaxEvidence + Len(slots) * t
    <3>1. t \in Int
      BY <1>1
    <3>2. Total(share, slots) * t <= Total(f, slots) * MaxEvidence + Len(slots) * t
      BY <1>1, <1>7, <2>1, <3>1, TotalsCompare
    <3> QED
      BY <1>7, <3>2, TotalBounds
  <2> DEFINE n == Total(share, slots)
             m == MaxEvidence + Len(slots)
  <2>3. n * t <= m * t /\ n \in Nat /\ m \in Nat
    BY <1>1, <2>2 DEF t
  <2> HIDE DEF n, m
  <2>4. n <= m
    <3> SUFFICES ASSUME n >= m + 1  PROVE FALSE
      BY <2>3
    <3>1. n * t >= (m + 1) * t /\ (m + 1) * t = m * t + t
      BY <1>1, <2>3
    <3>2. n * t \in Nat /\ m * t \in Nat /\ t > 0
      BY <1>1, <2>3
    <3> QED
      BY <1>1, <2>3, <3>1, <3>2
  <2> QED
    BY <2>3, <2>4 DEF n, m
<1>9. /\ low \in [P -> Nat] /\ Cuts(low, share, ToSet(slots)) /\ Total(low, slots) <= MaxEvidence
      /\ Total(share, slots) <= MaxEvidence => low = share
      /\ Total(share, slots) > MaxEvidence => Total(low, slots) = MaxEvidence
  BY <1>7, <1>8, ShrinkingReachesTheBudget DEF low
<1>10. Cuts(low, f, ToSet(slots))
  <2> SUFFICES ASSUME NEW p \in ToSet(slots)  PROVE low[p] >= 1 /\ low[p] <= f[p]
    BY DEF Cuts
  <2>1. low[p] >= 1 /\ low[p] <= share[p] /\ low[p] \in Nat /\ share[p] \in Nat /\ f[p] \in Nat
    BY <1>5, <1>7, <1>9 DEF Cuts
  <2> QED
    BY <1>6, <2>1
<1>11. /\ g \in [P -> Nat] /\ Cuts(g, f, ToSet(slots))
       /\ Total(low, slots) <= Total(g, slots) /\ Total(g, slots) <= MaxEvidence
       /\ Total(g, slots) < MaxEvidence =>
            \A p \in ToSet(slots) : g[p] = f[p] \/ g[p] >= low[p] + 1
  BY <1>9, <1>10, GrowingFillsTheBudget DEF g
<1>12. Total(g, slots) \in Nat /\ Total(low, slots) \in Nat
  BY <1>9, <1>11, TotalBounds
<1>13. ~ (Total(g, slots) < MaxEvidence)
  <2> SUFFICES ASSUME Total(g, slots) < MaxEvidence  PROVE FALSE
    OBVIOUS
  <2>1. low = share
    BY <1>1, <1>8, <1>9, <1>11, <1>12
  <2>2. ASSUME NEW p \in ToSet(slots)  PROVE f[p] * MaxEvidence <= g[p] * t + 0
    <3>1. p \in P /\ g[p] \in Nat /\ f[p] \in Nat /\ share[p] \in Nat
      BY <1>5, <1>7, <1>11
    <3>2. CASE g[p] = f[p]
      <4>1. f[p] * MaxEvidence <= f[p] * t
        <5>1. MaxEvidence <= t
          BY <1>1
        <5> QED
          BY <1>1, <3>1, <5>1, Times
      <4> QED
        BY <1>1, <3>1, <3>2, <4>1
    <3>3. CASE g[p] >= share[p] + 1
      <4>1. f[p] * MaxEvidence <= (share[p] + 1) * t
        BY <1>6, <3>1
      <4>2. (share[p] + 1) * t <= g[p] * t
        <5>1. share[p] + 1 \in Nat
          BY <3>1
        <5> QED
          BY <1>1, <3>1, <3>3, <5>1, Times
      <4>3. f[p] * MaxEvidence \in Nat /\ (share[p] + 1) * t \in Nat /\ g[p] * t \in Nat
        BY <1>1, <3>1, SMTT(30)
      <4> QED
        BY <4>1, <4>2, <4>3
    <3> QED
      BY <1>11, <2>1, <3>2, <3>3
  <2>3. Total(f, slots) * MaxEvidence <= Total(g, slots) * t + Len(slots) * 0
    <3>1. 0 \in Int
      OBVIOUS
    <3> QED
      BY <1>1, <1>11, <2>2, <3>1, TotalsCompare
  <2> DEFINE n == Total(g, slots)
  <2>4. t * MaxEvidence <= n * t
    BY <1>1, <1>12, <2>3 DEF t
  <2>5. n \in Nat /\ n + 1 <= MaxEvidence
    BY <1>1, <1>12
  <2> HIDE DEF n
  <2>6. (n + 1) * t <= MaxEvidence * t /\ (n + 1) * t = n * t + t
    BY <1>1, <2>5
  <2>7. n * t \in Nat /\ t * MaxEvidence = MaxEvidence * t /\ MaxEvidence * t \in Nat
    BY <1>1, <2>5
  <2> QED
    BY <1>1, <2>4, <2>6, <2>7
<1> QED
  BY <1>1, <1>2, <1>11, <1>12, <1>13

(* The slots of a dossier's excerpts.                                      *)
ExcerptRow(d, n) == [j \in 1..Len(d[n]) |-> <<n, j>>]

(* The excerpts of one dossier, each once.                                 *)
LEMMA RowsAreApart ==
  ASSUME NEW d \in Seq(Seq(Nat \ {0})), NEW n \in 1..Len(d)
  PROVE  /\ ExcerptRow(d, n) \in Seq(Nat \X Nat) /\ IsInjective(ExcerptRow(d, n)) /\ Len(ExcerptRow(d, n)) = Len(d[n])
         /\ \A q \in ToSet(ExcerptRow(d, n)) : q \in Nat \X Nat /\ q[1] = n /\ q[2] \in 1..Len(d[n])
<1>1. d[n] \in Seq(Nat \ {0}) /\ n \in Nat
  OBVIOUS
<1> DEFINE m == Len(d[n])
           r == ExcerptRow(d, n)
<1>2. m \in Nat
  BY <1>1
<1> HIDE DEF m
<1>3. r = [j \in 1..m |-> <<n, j>>]
  BY DEF ExcerptRow, m
<1>4. r \in Seq(Nat \X Nat) /\ Len(r) = m /\ DOMAIN r = 1..m /\ \A j \in 1..m : r[j] = <<n, j>>
  BY <1>1, <1>2, <1>3
<1> HIDE DEF r
<1>5. IsInjective(r)
  BY <1>4 DEF IsInjective
<1>6. ASSUME NEW q \in ToSet(r)  PROVE q \in Nat \X Nat /\ q[1] = n /\ q[2] \in 1..m
  <2>1. PICK j \in 1..m : r[j] = q
    BY <1>4, Sequences
  <2>2. q = <<n, j>>
    BY <1>4, <2>1
  <2> QED
    BY <1>1, <1>2, <2>2
<1> QED
  BY <1>4, <1>5, <1>6 DEF m, r

(* Slots lists one dossier after the other.                                *)
LEMMA SlotsByDossier ==
  ASSUME NEW d \in Seq(Seq(Nat \ {0})), NEW n \in 1..Len(d), Slots(d, n - 1) \in Seq(Nat \X Nat)
  PROVE  Slots(d, n) = Slots(d, n - 1) \o ExcerptRow(d, n)
<1> DEFINE body == [s \in Seq(Nat \X Nat) |-> [i \in DOMAIN d |->
                      s \o [j \in 1..Len(d[i]) |-> <<i, j>>]]]
           s == Slots(d, n - 1)
<1>1. n \in Nat /\ n \in DOMAIN d /\ n - 1 \in Nat
  OBVIOUS
<1>2. Slots(d, n) = Loop(body, <<>>, Numbers(n)) /\ s = Loop(body, <<>>, Numbers(n - 1))
  BY DEF Slots
<1>3. Numbers(n - 1) \in Seq(Nat) /\ Numbers(n) = Append(Numbers(n - 1), n)
  <2>1. Numbers(n - 1) \in Seq(Nat) /\ Len(Numbers(n - 1)) = n - 1
    BY <1>1 DEF Numbers
  <2>2. Numbers(n) \in Seq(Nat) /\ Len(Numbers(n)) = n
    BY <1>1 DEF Numbers
  <2>3. \A i \in 1..n : Numbers(n)[i] = Append(Numbers(n - 1), n)[i]
    BY <1>1, <2>1 DEF Numbers
  <2>4. Append(Numbers(n - 1), n) \in Seq(Nat) /\ Len(Append(Numbers(n - 1), n)) = n
    BY <1>1, <2>1
  <2> QED
    BY <2>2, <2>3, <2>4, SMTT(30)
<1>4. body[s][n] = s \o ExcerptRow(d, n)
  BY <1>1 DEF ExcerptRow
<1> HIDE DEF body
<1>5. Loop(body, <<>>, Append(Numbers(n - 1), n)) = body[Loop(body, <<>>, Numbers(n - 1))][n]
  BY <1>1, <1>3, LoopUnrolls
<1> QED
  BY <1>2, <1>3, <1>4, <1>5

(* Every excerpt of the first n dossiers has one slot.                     *)
SlotsOf(d, n, s) ==
  /\ s \in Seq(Nat \X Nat) /\ IsInjective(s)
  /\ \A q \in ToSet(s) : q \in Nat \X Nat /\ q[1] \in 1..n /\ q[2] \in 1..Len(d[q[1]])

(* Slots lists every excerpt of the first n dossiers, each once.           *)
LEMMA SlotsAreListed ==
  ASSUME NEW d \in Seq(Seq(Nat \ {0}))
  PROVE  /\ Slots(d, 0) = <<>>
         /\ \A n \in 0..Len(d) : SlotsOf(d, n, Slots(d, n))
<1>1. Len(d) \in Nat
  OBVIOUS
<1>2. Slots(d, 0) = <<>>
  <2> DEFINE body == [s \in Seq(Nat \X Nat) |-> [i \in DOMAIN d |->
                        s \o [j \in 1..Len(d[i]) |-> <<i, j>>]]]
             I == [k \in {0} |-> {<<>>}]
             N == Numbers(0)
  <2>1. Slots(d, 0) = Loop(body, <<>>, N)
    BY DEF Slots
  <2>2. N \in Seq(Nat) /\ Len(N) = 0 /\ I[0] = {<<>>}
    BY DEF Numbers
  <2>3. <<>> \in I[0] /\ \A k \in 1..Len(N) : \A x \in I[k - 1] : body[x][N[k]] \in I[k]
    BY <2>2
  <2> HIDE DEF body, I, N
  <2>4. Loop(body, <<>>, N) \in I[Len(N)]
    BY <2>2, <2>3, LoopKeeps
  <2> QED
    BY <2>1, <2>2, <2>4
<1> DEFINE Good == {n \in 0..Len(d) : SlotsOf(d, n, Slots(d, n))}
<1>3. 0 \in Good
  <2>1. SlotsOf(d, 0, <<>>)
    BY Empty DEF SlotsOf
  <2> QED
    BY <1>1, <1>2, <2>1
<1>4. ASSUME NEW n \in 1..Len(d), n - 1 \in Good  PROVE n \in Good
  <2> DEFINE s == Slots(d, n - 1)
             r == ExcerptRow(d, n)
             t == Slots(d, n)
  <2>1. SlotsOf(d, n - 1, s)
    BY <1>4
  <2>2. t = s \o r
    BY <2>1, SlotsByDossier DEF SlotsOf
  <2>3. /\ r \in Seq(Nat \X Nat) /\ IsInjective(r)
        /\ \A q \in ToSet(r) : q \in Nat \X Nat /\ q[1] = n /\ q[2] \in 1..Len(d[n])
    BY RowsAreApart
  <2> HIDE DEF r, s, t
  <2>4. s \in Seq(Nat \X Nat) /\ IsInjective(s)
    BY <2>1 DEF SlotsOf
  <2>5. t \in Seq(Nat \X Nat) /\ ToSet(t) = ToSet(s) \cup ToSet(r)
    BY <2>2, <2>3, <2>4, Joined
  <2>6. ToSet(s) \cap ToSet(r) = {}
    <3> SUFFICES ASSUME NEW q \in ToSet(s), q \in ToSet(r)  PROVE FALSE
      OBVIOUS
    <3>1. q[1] \in 1..(n - 1) /\ q[1] = n
      BY <2>1, <2>3 DEF SlotsOf
    <3> QED
      BY <3>1
  <2>7. IsInjective(t)
    BY <2>2, <2>3, <2>4, <2>6, JoinedApart
  <2>8. ASSUME NEW q \in ToSet(t)
        PROVE  q \in Nat \X Nat /\ q[1] \in 1..n /\ q[2] \in 1..Len(d[q[1]])
    <3>1. CASE q \in ToSet(s)
      BY <1>1, <2>1, <3>1 DEF SlotsOf
    <3>2. CASE q \in ToSet(r)
      BY <1>1, <2>3, <3>2
    <3> QED
      BY <2>5, <3>1, <3>2
  <2>9. SlotsOf(d, n, t) /\ n \in 0..Len(d)
    BY <1>1, <2>5, <2>7, <2>8 DEF SlotsOf
  <2> QED
    BY <2>9 DEF t
<1>5. \A n \in 0..Len(d) : n \in Good
  <2> HIDE DEF Good
  <2> QED
    BY <1>1, <1>3, <1>4, Upwards
<1> QED
  BY <1>2, <1>5

(* With more dossiers there are more slots, and the total is no smaller.   *)
LEMMA SlotsGrow ==
  ASSUME NEW d \in Seq(Seq(Nat \ {0})), NEW n \in 1..Len(d)
  PROVE  /\ ToSet(Slots(d, n - 1)) \subseteq ToSet(Slots(d, n))
         /\ Len(Slots(d, n - 1)) <= Len(Slots(d, n))
         /\ \A P : \A f \in [P -> Nat] : ToSet(Slots(d, n)) \subseteq P =>
              Total(f, Slots(d, n - 1)) <= Total(f, Slots(d, n))
<1> DEFINE s == Slots(d, n - 1)
           r == ExcerptRow(d, n)
           t == Slots(d, n)
<1>1. n - 1 \in 0..Len(d) /\ n \in 0..Len(d)
  OBVIOUS
<1>2. SlotsOf(d, n - 1, s)
  BY <1>1, SlotsAreListed
<1>3. t = s \o r
  BY <1>2, SlotsByDossier DEF SlotsOf
<1>4. r \in Seq(Nat \X Nat) /\ s \in Seq(Nat \X Nat)
  BY <1>2, RowsAreApart DEF SlotsOf
<1> HIDE DEF r, s, t
<1>5. ToSet(t) = ToSet(s) \cup ToSet(r) /\ Len(t) = Len(s) + Len(r)
  BY <1>3, <1>4, Joined
<1>6. ASSUME NEW P, NEW f \in [P -> Nat], ToSet(t) \subseteq P  PROVE Total(f, s) <= Total(f, t)
  <2>1. s \in Seq(P) /\ r \in Seq(P)
    BY <1>4, <1>5, <1>6, SequenceOfItsItems
  <2>2. Total(f, s) <= Total(f, s \o r)
    BY <2>1, TotalGrows
  <2> QED
    BY <1>3, <2>2
<1>7. Len(s) \in Nat /\ Len(r) \in Nat
  BY <1>4
<1> QED
  BY <1>5, <1>6, <1>7, SMTT(30) DEF s, t

(* Fewer dossiers have fewer excerpts, and not more characters.            *)
LEMMA SlotsWithin ==
  ASSUME NEW d \in Seq(Seq(Nat \ {0})), NEW n \in 0..Len(d)
  PROVE  /\ ToSet(Slots(d, n)) \subseteq ToSet(Slots(d, Len(d)))
         /\ \A P : \A f \in [P -> Nat] : ToSet(Slots(d, Len(d))) \subseteq P =>
              Total(f, Slots(d, n)) <= Total(f, Slots(d, Len(d)))
<1> DEFINE L == Len(d)
           Inside(m) ==
             /\ ToSet(Slots(d, m)) \subseteq ToSet(Slots(d, L))
             /\ \A P : \A f \in [P -> Nat] : ToSet(Slots(d, L)) \subseteq P =>
                  Total(f, Slots(d, m)) <= Total(f, Slots(d, L))
           Good == {k \in 0..L : Inside(L - k)}
<1>1. L \in Nat /\ L - 0 = L
  OBVIOUS
<1>2. ASSUME NEW m \in 0..L, NEW P, NEW f \in [P -> Nat], ToSet(Slots(d, m)) \subseteq P
      PROVE  Total(f, Slots(d, m)) \in Nat
  <2> DEFINE s == Slots(d, m)
  <2>1. s \in Seq(Nat \X Nat)
    BY SlotsAreListed DEF SlotsOf
  <2> HIDE DEF s
  <2>2. s \in Seq(P)
    BY <1>2, <2>1, SequenceOfItsItems DEF s
  <2> QED
    BY <2>2, TotalBounds DEF s
<1> HIDE DEF L
<1>3. 0 \in Good
  <2>1. Inside(L)
    <3> SUFFICES ASSUME NEW P, NEW f \in [P -> Nat], ToSet(Slots(d, L)) \subseteq P
                 PROVE  Total(f, Slots(d, L)) <= Total(f, Slots(d, L))
      OBVIOUS
    <3>1. Total(f, Slots(d, L)) \in Nat
      BY <1>1, <1>2
    <3> QED
      BY <3>1
  <2> HIDE DEF Inside
  <2> QED
    BY <1>1, <2>1
<1>4. ASSUME NEW k \in 1..L, k - 1 \in Good  PROVE k \in Good
  <2> DEFINE m == L - (k - 1)
  <2>1. m \in 1..L /\ L - k = m - 1 /\ m - 1 \in 0..L /\ m \in 0..L
    BY <1>1
  <2>2. Inside(m)
    BY <1>4
  <2> HIDE DEF m
  <2>3. /\ ToSet(Slots(d, m - 1)) \subseteq ToSet(Slots(d, m))
        /\ \A P : \A f \in [P -> Nat] : ToSet(Slots(d, m)) \subseteq P =>
             Total(f, Slots(d, m - 1)) <= Total(f, Slots(d, m))
    BY <2>1, SlotsGrow DEF L
  <2>4. ASSUME NEW P, NEW f \in [P -> Nat], ToSet(Slots(d, L)) \subseteq P
        PROVE  Total(f, Slots(d, m - 1)) <= Total(f, Slots(d, L))
    <3>1. ToSet(Slots(d, m)) \subseteq P /\ ToSet(Slots(d, m - 1)) \subseteq P
      BY <2>2, <2>3, <2>4
    <3>2. Total(f, Slots(d, m - 1)) <= Total(f, Slots(d, m))
      BY <2>3, <3>1
    <3>3. Total(f, Slots(d, m)) <= Total(f, Slots(d, L))
      BY <2>2, <2>4
    <3>4. /\ Total(f, Slots(d, m - 1)) \in Nat /\ Total(f, Slots(d, m)) \in Nat
          /\ Total(f, Slots(d, L)) \in Nat
      BY <1>1, <1>2, <2>1, <2>4, <3>1
    <3> QED
      BY <3>2, <3>3, <3>4
  <2>5. Inside(m - 1)
    BY <2>2, <2>3, <2>4
  <2> HIDE DEF Inside
  <2> QED
    BY <1>1, <2>1, <2>5
<1>5. \A k \in 0..L : k \in Good
  <2> HIDE DEF Good
  <2> QED
    BY <1>1, <1>3, <1>4, Upwards
<1>6. Inside(n)
  <2>1. L - n \in 0..L /\ L - (L - n) = n
    BY <1>1 DEF L
  <2>2. L - n \in Good
    BY <1>5, <2>1
  <2> HIDE DEF Inside
  <2> QED
    BY <2>1, <2>2
<1> QED
  BY <1>6 DEF L

(* The lengths before anything was cut, and after every other excerpt was  *)
(* cut to a character.                                                     *)
Shortest(d) ==
  [p \in ToSet(Slots(d, Len(d))) |-> IF p[2] = 1 THEN ExcerptSizes(d)[p] ELSE 1]

(* Every excerpt has at least one character to begin with.                 *)
LEMMA SizesArePositive ==
  ASSUME NEW d \in Seq(Seq(Nat \ {0}))
  PROVE  LET P == ToSet(Slots(d, Len(d))) IN
         /\ ExcerptSizes(d) \in [P -> Nat] /\ Shortest(d) \in [P -> Nat]
         /\ \A p \in P : ExcerptSizes(d)[p] >= 1
<1> DEFINE P == ToSet(Slots(d, Len(d)))
           f == ExcerptSizes(d)
<1>1. Len(d) \in 0..Len(d)
  OBVIOUS
<1>2. \A q \in P : q \in Nat \X Nat /\ q[1] \in 1..Len(d) /\ q[2] \in 1..Len(d[q[1]])
  BY <1>1, SlotsAreListed DEF SlotsOf
<1>3. f = [p \in P |-> d[p[1]][p[2]]]
  BY DEF ExcerptSizes
<1> HIDE DEF P
<1>4. ASSUME NEW p \in P  PROVE f[p] \in Nat /\ f[p] >= 1
  <2>1. d[p[1]] \in Seq(Nat \ {0}) /\ p[2] \in 1..Len(d[p[1]])
    BY <1>2
  <2>2. d[p[1]][p[2]] \in Nat \ {0}
    BY <2>1
  <2>3. f[p] = d[p[1]][p[2]]
    BY <1>3
  <2> QED
    BY <2>2, <2>3
<1>5. f \in [P -> Nat]
  BY <1>3, <1>4
<1> HIDE DEF f
<1>6. Shortest(d) \in [P -> Nat]
  BY <1>4, <1>5 DEF Shortest, P, f
<1> QED
  BY <1>4, <1>5, <1>6 DEF P, f

(* Every longer list of events has more excerpts than the budget has       *)
(* characters.                                                             *)
TooMany(d, n) == \A m \in (n + 1)..Len(d) : Len(Slots(d, m)) > MaxEvidence

Least(d) == Lesser(MinPublishable, Len(d))

(* The three things the budget loop can have come to: events that fit, too *)
(* few of them, or one turn after the other in which only representatives  *)
(* still have more than a character.                                       *)
Fitted(d, s) ==
  LET P == ToSet(Slots(d, Len(d))) IN
  /\ s.events \in Least(d)..Len(d) /\ TooMany(d, s.events)
  /\ Cuts(s.length, ExcerptSizes(d), ToSet(Slots(d, s.events)))
  /\ Total(s.length, Slots(d, s.events)) <= MaxEvidence
  /\ s.events = Len(d) =>
       Total(s.length, Slots(d, Len(d))) = Lesser(MaxEvidence, Total(ExcerptSizes(d), Slots(d, Len(d))))
  /\ \/ \A p \in ToSet(Slots(d, s.events)) : p[2] = 1 => s.length[p] = ExcerptSizes(d)[p]
     \/ Total(Shortest(d), Slots(d, Len(d))) > MaxEvidence

Failed(d, s) == s.events = InsufficientEvidence /\ TooMany(d, Least(d) - 1)

Pending(d, k, s) ==
  /\ s.events = Len(d) - k /\ s.events \in Least(d)..Len(d) /\ s.events >= 1
  /\ TooMany(d, s.events)
  /\ k = 0 => s.length = ExcerptSizes(d)
  /\ \A p \in ToSet(Slots(d, s.events)) :
       IF p[2] = 1 \/ k = 0 THEN s.length[p] = ExcerptSizes(d)[p] ELSE s.length[p] = 1

Turned(d, k) ==
  LET P == ToSet(Slots(d, Len(d))) IN
  {s \in [events : 0..Len(d), length : [P -> Nat]] :
     Fitted(d, s) \/ Failed(d, s) \/ Pending(d, k, s)}

(* What fits, and what has failed, is left alone.                          *)
LEMMA FittingIsLeftAlone ==
  ASSUME NEW d \in Seq(Seq(Nat \ {0})), NEW s,
         s \in [events : 0..Len(d), length : [ToSet(Slots(d, Len(d))) -> Nat]],
         Fitted(d, s) \/ Failed(d, s)
  PROVE  FitOnce(d, s) = s
<1>1. Total(s.length, Slots(d, s.events)) <= MaxEvidence
  <2>1. CASE Fitted(d, s)
    BY <2>1 DEF Fitted
  <2>2. CASE Failed(d, s)
    <3>1. Slots(d, s.events) = <<>>
      BY <2>2, SlotsAreListed DEF Failed, InsufficientEvidence
    <3> DEFINE P == ToSet(Slots(d, Len(d)))
               f == s.length
    <3>2. f \in [P -> Nat]
      OBVIOUS
    <3> HIDE DEF f, P
    <3>3. <<>> \in Seq(P) /\ Len(<<>>) = 0 /\ \A p \in ToSet(<<>>) : f[p] <= 1
      BY Empty
    <3>4. Total(f, <<>>) \in Nat /\ Total(f, <<>>) <= Len(<<>>)
      BY <3>2, <3>3, TotalBounds
    <3> QED
      BY <3>1, <3>3, <3>4, Limits DEF f
  <2> QED
    BY <2>1, <2>2
<1> QED
  BY <1>1 DEF FitOnce

(* One turn of the loop.                                                   *)
LEMMA OneTurn ==
  ASSUME NEW d \in Seq(Seq(Nat \ {0})), Len(d) >= 1, NEW k \in 1..Len(d), NEW s \in Turned(d, k - 1)
  PROVE  FitOnce(d, s) \in Turned(d, k)
<1> DEFINE P == ToSet(Slots(d, Len(d)))
           n == s.events
           f == s.length
           slots == Slots(d, n)
           all == Slots(d, Len(d))
           fit == FitOnce(d, s)
           orig == ExcerptSizes(d)
<1>1. /\ n \in 0..Len(d) /\ f \in [P -> Nat] /\ s \in [events : 0..Len(d), length : [P -> Nat]]
      /\ s = [events |-> n, length |-> f]
      /\ Fitted(d, s) \/ Failed(d, s) \/ Pending(d, k - 1, s)
  BY DEF Turned
<1>4. ASSUME NEW x \in [events : 0..Len(d), length : [P -> Nat]],
             Fitted(d, x) \/ Failed(d, x) \/ Pending(d, k, x)
      PROVE  x \in Turned(d, k)
  BY <1>4 DEF Turned
<1>2. CASE Fitted(d, s) \/ Failed(d, s)
  <2>1. fit = s
    BY <1>1, <1>2, FittingIsLeftAlone
  <2> QED
    BY <1>1, <1>2, <1>4, <2>1
<1>3. CASE Pending(d, k - 1, s)
  <2>1. /\ n = Len(d) - (k - 1) /\ n \in Least(d)..Len(d) /\ n >= 1 /\ TooMany(d, n)
        /\ k = 1 => f = orig
        /\ \A p \in ToSet(slots) : IF p[2] = 1 \/ k = 1 THEN f[p] = orig[p] ELSE f[p] = 1
    BY <1>3 DEF Pending
  <2>2. /\ orig \in [P -> Nat] /\ Shortest(d) \in [P -> Nat] /\ \A p \in P : orig[p] >= 1
        /\ ToSet(slots) \subseteq P
        /\ \A g \in [P -> Nat] : Total(g, slots) <= Total(g, all)
    BY <1>1, SizesArePositive, SlotsWithin
  <2>3. slots \in Seq(P) /\ IsInjective(slots) /\ Len(slots) \in Nat
    <3>1. slots \in Seq(Nat \X Nat) /\ IsInjective(slots)
      BY <1>1, SlotsAreListed DEF SlotsOf
    <3> HIDE DEF slots, P
    <3> QED
      BY <2>2, <3>1, SequenceOfItsItems
  <2>4. \A p \in ToSet(slots) : f[p] >= 1 /\ f[p] <= orig[p] /\ orig[p] \in Nat /\ f[p] \in Nat
    <3> SUFFICES ASSUME NEW p \in ToSet(slots)
                 PROVE  f[p] >= 1 /\ f[p] <= orig[p] /\ orig[p] \in Nat /\ f[p] \in Nat
      OBVIOUS
    <3>1. p \in P /\ orig[p] \in Nat /\ orig[p] >= 1 /\ f[p] \in Nat
      BY <1>1, <2>2
    <3>2. f[p] = orig[p] \/ f[p] = 1
      BY <2>1
    <3> QED
      BY <3>1, <3>2
  <2>5. /\ MaxEvidence \in Nat /\ MaxEvidence >= 1 /\ MinPublishable \in Nat /\ MinPublishable >= 1
        /\ Len(d) \in Nat /\ Least(d) \in Nat /\ Least(d) >= 1
        /\ Least(d) <= MinPublishable /\ (n <= MinPublishable => n = Least(d))
    <3>1. MaxEvidence \in Nat \ {0} /\ MinPublishable \in Nat \ {0} /\ Len(d) \in Nat
      BY Limits
    <3> DEFINE L == Len(d)
               m == n
    <3>2. L \in Nat /\ L >= 1 /\ m \in 0..L /\ Least(d) = Lesser(MinPublishable, L)
          /\ m \in Least(d)..L
      BY <1>1, <2>1, <3>1 DEF Least
    <3> HIDE DEF L, m
    <3>3. Least(d) \in Nat /\ Least(d) >= 1 /\ Least(d) <= MinPublishable
      BY <3>1, <3>2 DEF Lesser
    <3>4. m <= MinPublishable => m = Least(d)
      BY <3>1, <3>2, <3>3 DEF Lesser
    <3> QED
      BY <3>1, <3>3, <3>4 DEF m
  <2> DEFINE less == TrimNonrepresentatives(f, slots)
             even == IF Total(less, slots) <= MaxEvidence THEN less ELSE TrimAllProportionally(less, slots)
  <2>6. /\ less \in [P -> Nat]
        /\ \A p \in ToSet(slots) : less[p] >= 1 /\ less[p] <= f[p] /\ (p[2] = 1 => less[p] = f[p])
        /\ Total(f, slots) >= MaxEvidence => Total(less, slots) >= MaxEvidence
        /\ Total(less, slots) > MaxEvidence => \A p \in ToSet(slots) : p[2] # 1 => less[p] = 1
    <3>1. \A p \in ToSet(slots) : f[p] >= 1
      BY <2>4
    <3>2. f \in [P -> Nat]
      BY <1>1
    <3>3. less \in [P -> Nat] /\ Spared(less, f, slots)
      <4> HIDE DEF slots, P, f
      <4> QED
        BY <2>3, <3>1, <3>2, TrimmingSparesRepresentatives
    <3> QED
      BY <3>3 DEF Spared
  <2>7. fit = IF Total(f, slots) <= MaxEvidence THEN s
              ELSE [events |-> IF Total(even, slots) <= MaxEvidence THEN n
                               ELSE IF n <= MinPublishable THEN InsufficientEvidence ELSE n - 1,
                    length |-> even]
    BY DEF FitOnce
  <2> HIDE DEF fit, less
  <2>8. /\ Total(f, slots) \in Nat /\ Total(less, slots) \in Nat
        /\ Total(orig, all) \in Nat
    <3>1. all \in Seq(P)
      <4>1. Len(d) \in 0..Len(d)
        BY <2>5
      <4>2. all \in Seq(Nat \X Nat)
        BY <4>1, SlotsAreListed DEF SlotsOf
      <4> QED
        BY <4>2, SequenceOfItsItems
    <3> HIDE DEF all, slots, P, f, orig
    <3> QED
      BY <1>1, <2>2, <2>3, <2>6, <3>1, TotalBounds
  <2>9. k = 1 => n = Len(d) /\ slots = all /\ f = orig
    BY <2>1, <2>5
  <2>10. n = Len(d) => k = 1
    BY <2>1, <2>5
  <2>11. CASE Total(f, slots) <= MaxEvidence
    <3>1. fit = s
      BY <2>7, <2>11
    <3>2. Cuts(f, orig, ToSet(slots))
      BY <2>4 DEF Cuts
    <3>3. n = Len(d) => Total(f, all) = Lesser(MaxEvidence, Total(orig, all))
      BY <2>5, <2>8, <2>9, <2>10, <2>11 DEF Lesser
    <3>4. \A p \in ToSet(slots) : p[2] = 1 => f[p] = orig[p]
      BY <2>1
    <3>5. Fitted(d, s)
      BY <2>1, <2>11, <3>2, <3>3, <3>4 DEF Fitted
    <3> QED
      BY <1>1, <1>4, <3>1, <3>5 DEF fit
  <2>12. CASE Total(f, slots) > MaxEvidence /\ Total(even, slots) <= MaxEvidence
    <3>1. fit = [events |-> n, length |-> even]
      BY <2>5, <2>7, <2>8, <2>12
    <3>2. even \in [P -> Nat] /\ Cuts(even, f, ToSet(slots)) /\ Total(even, slots) = MaxEvidence
      <4>1. CASE Total(less, slots) <= MaxEvidence
        BY <2>5, <2>6, <2>8, <2>12, <4>1 DEF Cuts
      <4>2. CASE Total(less, slots) > MaxEvidence
        <5>1. even = TrimAllProportionally(less, slots)
          BY <2>5, <2>8, <4>2
        <5>2. Len(slots) <= MaxEvidence
          <6> SUFFICES ASSUME MaxEvidence < Len(slots)  PROVE FALSE
            BY <2>3, <2>5
          <6>1. even = less
            BY <5>1 DEF TrimAllProportionally
          <6> QED
            BY <2>5, <2>8, <2>12, <4>2, <6>1
        <5>3. \A p \in ToSet(slots) : less[p] >= 1
          BY <2>6
        <5> DEFINE g == TrimAllProportionally(less, slots)
        <5>4. g \in [P -> Nat] /\ Cuts(g, less, ToSet(slots)) /\ Total(g, slots) = MaxEvidence
          <6> HIDE DEF slots, P
          <6> QED
            BY <2>3, <2>6, <4>2, <5>2, <5>3, TrimmingFillsTheBudget
        <5>5. Cuts(g, f, ToSet(slots))
          <6> SUFFICES ASSUME NEW p \in ToSet(slots)  PROVE g[p] >= 1 /\ g[p] <= f[p]
            BY DEF Cuts
          <6>1. /\ g[p] >= 1 /\ g[p] <= less[p] /\ less[p] <= f[p]
                /\ g[p] \in Nat /\ less[p] \in Nat /\ f[p] \in Nat
            BY <2>2, <2>4, <2>6, <5>4 DEF Cuts
          <6> QED
            BY <6>1
        <5> QED
          BY <5>1, <5>4, <5>5
      <4> QED
        BY <2>5, <2>8, <4>1, <4>2
    <3> HIDE DEF even
    <3>3. Cuts(even, orig, ToSet(slots))
      <4> SUFFICES ASSUME NEW p \in ToSet(slots)  PROVE even[p] >= 1 /\ even[p] <= orig[p]
        BY DEF Cuts
      <4>1. /\ even[p] >= 1 /\ even[p] <= f[p] /\ f[p] <= orig[p]
            /\ even[p] \in Nat /\ orig[p] \in Nat /\ f[p] \in Nat
        BY <2>2, <2>4, <3>2 DEF Cuts
      <4> QED
        BY <4>1
    <3>4. n = Len(d) => Total(even, all) = Lesser(MaxEvidence, Total(orig, all))
      BY <2>5, <2>8, <2>9, <2>10, <2>12, <3>2 DEF Lesser
    <3>5. \/ \A p \in ToSet(slots) : p[2] = 1 => even[p] = orig[p]
          \/ Total(Shortest(d), all) > MaxEvidence
      <4>1. CASE Total(less, slots) <= MaxEvidence
        <5>1. even = less
          BY <4>1 DEF even
        <5> QED
          BY <2>1, <2>6, <5>1
      <4>2. CASE Total(less, slots) > MaxEvidence
        <5>1. \A p \in ToSet(slots) : Shortest(d)[p] = less[p]
          BY <2>1, <2>2, <2>6, <4>2 DEF Shortest
        <5>2. Total(less, slots) <= Total(Shortest(d), slots)
              /\ Total(Shortest(d), slots) \in Nat
          <6> DEFINE h == Shortest(d)
          <6>1. h \in [P -> Nat]
            BY <2>2
          <6> HIDE DEF h, slots, P
          <6>2. \A p \in ToSet(slots) : less[p] * 1 <= h[p] * 1 + 0
            <7>1. ToSet(slots) \subseteq P
              BY <2>3, Sequences
            <7> QED
              BY <2>6, <5>1, <6>1, <7>1 DEF h
          <6>3. 0 \in Int /\ 1 \in Nat
            OBVIOUS
          <6>4. Total(less, slots) * 1 <= Total(h, slots) * 1 + Len(slots) * 0
            BY <2>3, <2>6, <6>1, <6>2, <6>3, TotalsCompare
          <6>5. Total(h, slots) \in Nat
            BY <2>3, <6>1, TotalBounds
          <6> QED
            BY <2>3, <2>8, <6>4, <6>5 DEF h
        <5>3. Total(Shortest(d), slots) <= Total(Shortest(d), all)
          BY <2>2
        <5>4. Total(Shortest(d), all) \in Nat
          <6>1. Len(d) \in 0..Len(d)
            BY <2>5
          <6>2. all \in Seq(P)
            <7>1. all \in Seq(Nat \X Nat)
              BY <6>1, SlotsAreListed DEF SlotsOf
            <7> QED
              BY <7>1, SequenceOfItsItems
          <6> HIDE DEF all, P
          <6> QED
            BY <2>2, <6>2, TotalBounds
        <5> QED
          BY <2>5, <2>8, <4>2, <5>2, <5>3, <5>4
      <4> QED
        BY <2>5, <2>8, <4>1, <4>2
    <3>6. Total(even, slots) <= MaxEvidence
      BY <2>12 DEF even
    <3> DEFINE w == [events |-> n, length |-> even]
    <3>7. w.events = n /\ w.length = even /\ w \in [events : 0..Len(d), length : [P -> Nat]]
      BY <1>1, <3>2
    <3>8. Fitted(d, w)
      <4> HIDE DEF w
      <4> QED
        BY <2>1, <3>3, <3>4, <3>5, <3>6, <3>7 DEF Fitted
    <3> QED
      BY <1>4, <3>1, <3>7, <3>8 DEF fit
  <2>13. CASE Total(f, slots) > MaxEvidence /\ ~ (Total(even, slots) <= MaxEvidence)
    <3>1. fit = [events |-> IF n <= MinPublishable THEN InsufficientEvidence ELSE n - 1,
                 length |-> even]
      BY <2>5, <2>7, <2>8, <2>13
    <3>2. Total(less, slots) > MaxEvidence /\ Len(slots) > MaxEvidence
      <4>1. Total(less, slots) > MaxEvidence
        BY <2>5, <2>8, <2>13
      <4>2. ASSUME Len(slots) <= MaxEvidence  PROVE FALSE
        <5>1. \A p \in ToSet(slots) : less[p] >= 1
          BY <2>6
        <5>2. Total(TrimAllProportionally(less, slots), slots) = MaxEvidence
          <6> HIDE DEF slots, P
          <6> QED
            BY <2>3, <2>6, <4>1, <4>2, <5>1, TrimmingFillsTheBudget
        <5> QED
          BY <2>5, <2>8, <2>13, <4>1, <5>2
      <4> QED
        BY <2>3, <2>5, <4>1, <4>2
    <3>3. even = less
      BY <2>3, <2>5, <3>2 DEF TrimAllProportionally
    <3>4. TooMany(d, n - 1)
      <4>1. \A m \in ((n - 1) + 1)..Len(d) : m = n \/ m \in (n + 1)..Len(d)
        BY <2>1, <2>5, SMTT(30)
      <4> QED
        BY <2>1, <3>2, <4>1 DEF TooMany
    <3>5. CASE n <= MinPublishable
      <4> DEFINE w == [events |-> 0, length |-> less]
      <4>1. fit = w
        BY <3>1, <3>3, <3>5 DEF InsufficientEvidence
      <4>2. w \in [events : 0..Len(d), length : [P -> Nat]] /\ w.events = InsufficientEvidence
        BY <2>5, <2>6 DEF InsufficientEvidence
      <4>3. Failed(d, w)
        BY <2>5, <3>4, <3>5, <4>2 DEF Failed
      <4> QED
        BY <1>4, <4>1, <4>2, <4>3 DEF fit
    <3>6. CASE n > MinPublishable
      <4> DEFINE w == [events |-> n - 1, length |-> less]
      <4>1. fit = w
        BY <2>1, <2>5, <3>1, <3>3, <3>6
      <4>2. /\ w \in [events : 0..Len(d), length : [P -> Nat]]
            /\ w.events = n - 1 /\ w.length = less
        BY <1>1, <2>1, <2>5, <2>6, SMTT(30)
      <4>3. n \in 1..Len(d) /\ n - 1 = Len(d) - k /\ n - 1 \in Least(d)..Len(d) /\ n - 1 >= 1 /\ k # 0
        <5> DEFINE L == Len(d)
                   m == n
        <5>1. /\ L \in Nat /\ m \in 0..L /\ m = L - (k - 1) /\ k \in 1..L /\ Least(d) \in Nat
              /\ Least(d) <= MinPublishable /\ m > MinPublishable /\ MinPublishable \in Nat
              /\ MinPublishable >= 1
          BY <1>1, <2>1, <2>5, <3>6
        <5> HIDE DEF L, m
        <5>2. m \in 1..L /\ m - 1 = L - k /\ m - 1 \in Least(d)..L /\ m - 1 >= 1 /\ k # 0
          BY <5>1
        <5> QED
          BY <5>2 DEF L, m
      <4>4. ToSet(Slots(d, n - 1)) \subseteq ToSet(slots)
        BY <4>3, SlotsGrow
      <4>5. \A p \in ToSet(Slots(d, n - 1)) :
              IF p[2] = 1 \/ k = 0 THEN less[p] = orig[p] ELSE less[p] = 1
        BY <2>1, <2>6, <3>2, <4>3, <4>4
      <4> HIDE DEF w
      <4>6. Pending(d, k, w)
        BY <3>4, <4>2, <4>3, <4>5 DEF Pending
      <4> QED
        BY <1>4, <4>1, <4>2, <4>6 DEF fit
    <3> QED
      BY <2>1, <2>5, <3>5, <3>6
  <2> QED
    BY <2>5, <2>8, <2>11, <2>12, <2>13
<1> QED
  BY <1>1, <1>2, <1>3

(* The loop over the dossiers ends with excerpts that fit, or has failed.  *)
LEMMA BudgetLoopEnds ==
  ASSUME NEW d \in Seq(Seq(Nat \ {0})), Len(d) >= 1
  PROVE  LET s == FitTotalEvidence(d) IN
         /\ s \in [events : 0..Len(d), length : [ToSet(Slots(d, Len(d))) -> Nat]]
         /\ Fitted(d, s) \/ Failed(d, s)
<1> DEFINE P == ToSet(Slots(d, Len(d)))
           orig == ExcerptSizes(d)
           N == Numbers(Len(d))
           States == [events : 0..Len(d), length : [P -> Nat]]
           start == [events |-> Len(d), length |-> orig]
           body == [s \in States |-> [turn \in 1..Len(d) |-> FitOnce(d, s)]]
           I == [k \in 0..Len(N) |-> Turned(d, k)]
<1>1. /\ Len(d) \in Nat /\ orig \in [P -> Nat] /\ DOMAIN orig = P
      /\ \A p \in P : orig[p] >= 1
  BY SizesArePositive
<1>2. FitTotalEvidence(d) = Loop(body, start, N)
  BY <1>1 DEF FitTotalEvidence, FitEvery
<1>3. N \in Seq(Nat) /\ Len(N) = Len(d) /\ \A i \in 1..Len(d) : N[i] = i
  BY <1>1 DEF Numbers
<1>4. start \in I[0]
  <2>1. start \in States /\ start.events = Len(d) /\ start.length = orig
    BY <1>1
  <2> HIDE DEF start
  <2>2. Least(d) \in Nat /\ Least(d) <= Len(d)
    BY <1>1, Limits DEF Least, Lesser
  <2>3. TooMany(d, Len(d))
    BY <1>1 DEF TooMany
  <2>4. Pending(d, 0, start)
    BY <1>1, <2>1, <2>2, <2>3 DEF Pending
  <2>5. start \in Turned(d, 0)
    BY <2>1, <2>4 DEF Turned
  <2> QED
    BY <1>1, <1>3, <2>5
<1>5. ASSUME NEW k \in 1..Len(N), NEW s \in I[k - 1]
      PROVE  body[s][N[k]] \in I[k]
  <2>1. k \in 1..Len(d) /\ N[k] = k /\ k - 1 \in 0..Len(N) /\ k \in 0..Len(N)
    BY <1>1, <1>3
  <2>2. s \in Turned(d, k - 1)
    BY <2>1
  <2>3. s \in States
    BY <2>2 DEF Turned
  <2>4. body[s][N[k]] = FitOnce(d, s)
    BY <2>1, <2>3
  <2>5. FitOnce(d, s) \in Turned(d, k)
    <3> HIDE DEF I, body, N
    <3> QED
      BY <2>1, <2>2, OneTurn
  <2>6. I[k] = Turned(d, k)
    BY <2>1
  <2> QED
    BY <2>4, <2>5, <2>6
<1>6. Loop(body, start, N) \in I[Len(N)]
  <2> HIDE DEF I, body, N, start
  <2>1. \A k \in 1..Len(N) : \A x \in I[k - 1] : body[x][N[k]] \in I[k]
    BY <1>5
  <2> QED
    BY <1>3, <1>4, <2>1, LoopKeeps
<1> DEFINE s == FitTotalEvidence(d)
<1>7. s \in Turned(d, Len(d))
  BY <1>1, <1>2, <1>3, <1>6
<1> HIDE DEF s
<1>8. s \in States /\ (Fitted(d, s) \/ Failed(d, s) \/ Pending(d, Len(d), s))
  BY <1>7 DEF Turned
<1>9. ~ Pending(d, Len(d), s)
  BY <1>1 DEF Pending
<1> QED
  BY <1>8, <1>9 DEF s

(* Whatever the excerpts and the budget, the evidence loop of the          *)
(* selection keeps the budget, loses no excerpt, keeps as many events as   *)
(* can have a character each, gives no character of the budget away, and   *)
(* spares the representatives as long as that is possible.                 *)
THEOREM BudgetsAreKept ==
  ASSUME NEW d \in Seq(Seq(Nat \ {0})), Len(d) >= 1
  PROVE  FittingEvidence(d)
<1> DEFINE L == Len(d)
           fit == FitTotalEvidence(d)
           orig == ExcerptSizes(d)
           P == ToSet(Slots(d, L))
           enough == {n \in Lesser(MinPublishable, L)..L : Len(Slots(d, n)) <= MaxEvidence}
           n == fit.events
           g == fit.length
<1>1. /\ fit \in [events : 0..L, length : [P -> Nat]]
      /\ Fitted(d, fit) \/ Failed(d, fit)
  BY BudgetLoopEnds
<1>2. /\ L \in Nat /\ MaxEvidence \in Nat /\ Least(d) = Lesser(MinPublishable, L)
      /\ Least(d) \in Nat /\ Least(d) >= 1 /\ Least(d) <= L
  BY Limits DEF Least, Lesser
<1>3. \A m \in 0..L : Len(Slots(d, m)) \in Nat
  BY SlotsAreListed DEF SlotsOf
<1>4. /\ orig \in [P -> Nat] /\ Shortest(d) \in [P -> Nat]
      /\ Shortest(d) = [p \in P |-> IF p[2] = 1 THEN orig[p] ELSE 1]
  BY SizesArePositive DEF Shortest
<1> HIDE DEF fit
<1>5. CASE Failed(d, fit)
  <2>1. enough = {}
    <3> SUFFICES ASSUME NEW m \in Least(d)..L, Len(Slots(d, m)) <= MaxEvidence  PROVE FALSE
      BY <1>2
    <3>1. m \in ((Least(d) - 1) + 1)..L /\ m \in 0..L
      BY <1>2
    <3>2. Len(Slots(d, m)) > MaxEvidence
      BY <1>5, <3>1 DEF Failed, TooMany
    <3> QED
      BY <1>2, <1>3, <3>1, <3>2
  <2> QED
    BY <1>5, <2>1 DEF FittingEvidence, Failed, fit
<1>6. CASE Fitted(d, fit)
  <2>1. /\ n \in Least(d)..L /\ TooMany(d, n) /\ Cuts(g, orig, ToSet(Slots(d, n)))
        /\ Total(g, Slots(d, n)) <= MaxEvidence
        /\ n = L => Total(g, Slots(d, L)) = Lesser(MaxEvidence, Total(orig, Slots(d, L)))
        /\ \/ \A p \in ToSet(Slots(d, n)) : p[2] = 1 => g[p] = orig[p]
           \/ Total(Shortest(d), Slots(d, L)) > MaxEvidence
    BY <1>6 DEF Fitted
  <2>2. /\ n \in 0..L /\ g \in [P -> Nat] /\ ToSet(Slots(d, n)) \subseteq P
        /\ Slots(d, n) \in Seq(Nat \X Nat)
    <3>1. n \in 0..L /\ g \in [P -> Nat]
      BY <1>1
    <3> QED
      BY <3>1, SlotsWithin, SlotsAreListed DEF SlotsOf
  <2>3. n \in enough
    <3>1. Len(Slots(d, n)) <= Total(g, Slots(d, n)) /\ Total(g, Slots(d, n)) \in Nat
      <4> DEFINE s == Slots(d, n)
      <4>1. s \in Seq(P)
        BY <2>2, SequenceOfItsItems
      <4>2. \A p \in ToSet(s) : g[p] >= 1
        BY <2>1 DEF Cuts
      <4> HIDE DEF s, g, P
      <4> QED
        BY <2>2, <4>1, <4>2, TotalBounds DEF s
    <3>2. Len(Slots(d, n)) <= MaxEvidence
      BY <1>2, <1>3, <2>1, <2>2, <3>1
    <3> QED
      BY <1>2, <2>1, <3>2
  <2>4. \A m \in enough : m <= n
    <3> SUFFICES ASSUME NEW m \in Least(d)..L, Len(Slots(d, m)) <= MaxEvidence, m > n  PROVE FALSE
      BY <1>2, <2>2
    <3>1. m \in (n + 1)..L /\ m \in 0..L
      BY <1>2, <2>2
    <3>2. Len(Slots(d, m)) > MaxEvidence
      BY <2>1, <3>1 DEF TooMany
    <3> QED
      BY <1>2, <1>3, <3>1, <3>2
  <2>5. \A p \in ToSet(Slots(d, n)) : g[p] \in 1..orig[p]
    <3> SUFFICES ASSUME NEW p \in ToSet(Slots(d, n))  PROVE g[p] \in 1..orig[p]
      OBVIOUS
    <3>1. g[p] \in Nat /\ orig[p] \in Nat
      BY <1>4, <2>2
    <3>2. g[p] >= 1 /\ g[p] <= orig[p]
      BY <2>1 DEF Cuts
    <3> QED
      BY <3>1, <3>2
  <2>6. (\E p \in ToSet(Slots(d, n)) : p[2] = 1 /\ g[p] < orig[p]) =>
          Total(Shortest(d), Slots(d, L)) > MaxEvidence
    <3> SUFFICES ASSUME NEW p \in ToSet(Slots(d, n)), p[2] = 1, g[p] < orig[p]
                 PROVE  Total(Shortest(d), Slots(d, L)) > MaxEvidence
      OBVIOUS
    <3>1. g[p] \in Nat /\ orig[p] \in Nat
      BY <1>4, <2>2
    <3>2. g[p] # orig[p]
      BY <3>1
    <3> QED
      BY <2>1, <3>2
  <2> QED
    BY <1>4, <2>1, <2>3, <2>4, <2>5, <2>6 DEF FittingEvidence, fit
<1> QED
  BY <1>1, <1>5, <1>6

-----------------------------------------------------------------------------
(* The evidence of one event                                                *)

(* What the two passes share.                                              *)
Spreading(source, s) ==
  /\ s \in Chosen(source)
  /\ Len(s.chosen) >= 1 /\ s.chosen[1] = 1 /\ IsInjective(s.chosen)
  /\ MaxSources > 1 => Len(s.chosen) <= MaxSources /\ (s.full <=> Len(s.chosen) = MaxSources)

Considered(s, t, i, fresh) ==
  /\ s.full => t = s
  /\ ~ s.full => ToSet(t.chosen) = IF fresh THEN ToSet(s.chosen) \cup {i} ELSE ToSet(s.chosen)

(* Considering one more article keeps what the passes have achieved.       *)
LEMMA ConsideringOne ==
  ASSUME NEW source, NEW s, Spreading(source, s), NEW i \in DOMAIN source, NEW fresh \in BOOLEAN,
         fresh => i \notin ToSet(s.chosen)
  PROVE  LET t == Consider(s, i, fresh) IN Spreading(source, t) /\ Considered(s, t, i, fresh)
<1> DEFINE t == Consider(s, i, fresh)
           c == s.chosen
           u == IF fresh THEN Append(c, i) ELSE c
<1>1. c \in Seq(DOMAIN source) /\ s.full \in BOOLEAN /\ Len(c) \in Nat /\ MaxSources \in Nat
      /\ Len(c) >= 1 /\ c[1] = 1 /\ IsInjective(c)
      /\ (MaxSources > 1 => Len(c) <= MaxSources /\ (s.full <=> Len(c) = MaxSources))
  <2>1. c \in Seq(DOMAIN source) /\ s.full \in BOOLEAN
    BY DEF Spreading, Chosen
  <2> QED
    BY <2>1, Limits DEF Spreading
<1>2. CASE s.full
  <2>1. t = s
    BY <1>2 DEF Consider
  <2> QED
    BY <1>2, <2>1 DEF Considered
<1>3. CASE ~ s.full
  <2>1. t = [chosen |-> u, full |-> Len(u) = MaxSources]
    BY <1>3 DEF Consider
  <2> DEFINE S == DOMAIN source
  <2> HIDE DEF S, c
  <2>2. /\ u \in Seq(S) /\ Len(u) >= 1 /\ u[1] = 1 /\ IsInjective(u) /\ Len(u) \in Nat
        /\ ToSet(u) = IF fresh THEN ToSet(c) \cup {i} ELSE ToSet(c)
        /\ Len(u) <= Len(c) + 1
    <3>1. CASE fresh
      <4>1. c \in Seq(S) /\ i \in S /\ i \notin ToSet(c)
        BY <1>1, <3>1 DEF S, c
      <4> DEFINE w == Append(c, i)
      <4>2. /\ w \in Seq(S) /\ Len(w) = Len(c) + 1
            /\ \A j \in 1..Len(c) : w[j] = c[j]
            /\ ToSet(w) = ToSet(c) \cup {i}
            /\ IsInjective(c) /\ i \notin ToSet(c) => IsInjective(w)
        BY <4>1, Longer
      <4>3. 1 \in 1..Len(c)
        BY <1>1
      <4> QED
        BY <1>1, <3>1, <4>1, <4>2, <4>3
    <3>2. CASE ~ fresh
      BY <1>1, <3>2 DEF S
    <3> QED
      BY <3>1, <3>2
  <2>3. MaxSources > 1 => Len(u) <= MaxSources
    BY <1>1, <1>3, <2>2
  <2> HIDE DEF u
  <2>4. t.chosen = u /\ t.full = (Len(u) = MaxSources) /\ t \in Chosen(source)
    <3> HIDE DEF t
    <3>1. u \in Seq(DOMAIN source) /\ (Len(u) = MaxSources) \in BOOLEAN
      BY <2>2 DEF S
    <3> QED
      BY <2>1, <3>1 DEF Chosen
  <2> HIDE DEF t
  <2>5. Spreading(source, t)
    BY <2>2, <2>3, <2>4 DEF Spreading
  <2>6. Considered(s, t, i, fresh)
    BY <1>3, <2>2, <2>4 DEF Considered, c
  <2> QED
    BY <2>5, <2>6 DEF t
<1> QED
  BY <1>1, <1>2, <1>3

(* The articles after the representative, in their order.                  *)
LEMMA OtherArticles ==
  ASSUME NEW T, NEW source \in Seq(T), source # <<>>
  PROVE  LET o == Others(source) IN
         /\ o \in Seq(DOMAIN source) /\ Len(o) = Len(source) - 1
         /\ Len(source) \in Nat /\ Len(source) >= 1 /\ DOMAIN source = 1..Len(source)
         /\ \A k \in 1..Len(o) : o[k] = k + 1 /\ k + 1 \in DOMAIN source
<1> DEFINE n == Len(source)
           o == Others(source)
<1>1. n \in Nat /\ n >= 1 /\ DOMAIN source = 1..n
  OBVIOUS
<1> HIDE DEF n
<1>2. o = [i \in 1..(n - 1) |-> i + 1]
  BY DEF Others, n
<1>3. n - 1 \in Nat /\ \A k \in 1..(n - 1) : k + 1 \in 1..n
  BY <1>1
<1> DEFINE m == n - 1
           S == 1..n
<1>6. m \in Nat /\ o = [i \in 1..m |-> i + 1] /\ \A k \in 1..m : k + 1 \in S
  BY <1>2, <1>3
<1> HIDE DEF o, m, S
<1>7. o \in Seq(S) /\ Len(o) = m
  BY <1>6
<1>4. o \in Seq(1..n) /\ Len(o) = n - 1
  BY <1>7 DEF m, S
<1>5. \A k \in 1..Len(o) : o[k] = k + 1
  BY <1>2, <1>4
<1> QED
  BY <1>1, <1>3, <1>4, <1>5 DEF n, o

(* The first pass: no two articles of one source, and every source, unless *)
(* the limit is reached.                                                   *)
LEMMA FirstPass ==
  ASSUME NEW T, NEW source \in Seq(T), source # <<>>
  PROVE  LET s == Spread(source) IN
         /\ Spreading(source, s)
         /\ \A a, b \in ToSet(s.chosen) : source[a] = source[b] => a = b
         /\ ~ s.full => \A i \in DOMAIN source : \E k \in ToSet(s.chosen) : source[k] = source[i]
<1> DEFINE o == Others(source)
           n == Len(source)
           Apart(s) == \A a, b \in ToSet(s.chosen) : source[a] = source[b] => a = b
           Heard(s, k) ==
             ~ s.full => \A i \in 1..(k + 1) : \E j \in ToSet(s.chosen) : source[j] = source[i]
           I == [k \in 0..Len(o) |->
                   {s \in Chosen(source) : Spreading(source, s) /\ Apart(s) /\ Heard(s, k)}]
           body == [s \in Chosen(source) |-> [i \in DOMAIN source |->
                      Consider(s, i, source[i] \notin {source[k] : k \in ToSet(s.chosen)})]]
           start == [chosen |-> <<1>>, full |-> FALSE]
<1>1. /\ o \in Seq(DOMAIN source) /\ Len(o) = n - 1 /\ n \in Nat /\ n >= 1 /\ DOMAIN source = 1..n
      /\ \A k \in 1..Len(o) : o[k] = k + 1 /\ k + 1 \in DOMAIN source
  BY OtherArticles
<1>2. Spread(source) = Loop(body, start, o)
  BY DEF Spread
<1> HIDE DEF o, n
<1>3. start \in I[0]
  <2>1. start.chosen = <<1>> /\ start.full = FALSE /\ <<1>> \in Seq(DOMAIN source)
        /\ start \in Chosen(source)
    BY <1>1 DEF Chosen
  <2>2. Len(<<1>>) = 1 /\ <<1>>[1] = 1 /\ ToSet(<<1>>) = {1} /\ IsInjective(<<1>>)
    BY DEF ToSet, IsInjective
  <2> HIDE DEF start
  <2>3. Spreading(source, start)
    BY <2>1, <2>2, Limits DEF Spreading
  <2>4. Apart(start) /\ Heard(start, 0)
    BY <2>1, <2>2
  <2> HIDE DEF Apart, Heard
  <2> QED
    BY <1>1, <2>1, <2>3, <2>4
<1>4. ASSUME NEW k \in 1..Len(o), NEW s \in I[k - 1]
      PROVE  body[s][o[k]] \in I[k]
  <2>1. k - 1 \in 0..Len(o) /\ k \in 0..Len(o) /\ o[k] = k + 1 /\ k + 1 \in DOMAIN source
        /\ k \in Nat
    BY <1>1
  <2>2. s \in Chosen(source) /\ Spreading(source, s) /\ Apart(s) /\ Heard(s, k - 1)
    BY <2>1
  <2> DEFINE i == k + 1
             fresh == source[i] \notin {source[j] : j \in ToSet(s.chosen)}
             t == Consider(s, i, fresh)
  <2>3. body[s][o[k]] = t
    BY <2>1, <2>2
  <2>4. fresh \in BOOLEAN /\ (fresh => i \notin ToSet(s.chosen))
    OBVIOUS
  <2>5. ToSet(s.chosen) \subseteq DOMAIN source
    <3>1. s.chosen \in Seq(DOMAIN source)
      BY <2>2 DEF Chosen
    <3> QED
      BY <3>1, Sequences
  <2>6. fresh <=> ~ \E j \in ToSet(s.chosen) : source[j] = source[i]
    OBVIOUS
  <2> HIDE DEF fresh, t, body
  <2>7. Spreading(source, t) /\ Considered(s, t, i, fresh)
    <3> HIDE DEF I, Apart, Heard
    <3> QED
      BY <2>1, <2>2, <2>4, ConsideringOne DEF t
  <2>8. Apart(t) /\ Heard(t, k)
    <3>1. CASE s.full
      <4>1. t = s
        BY <2>7, <3>1 DEF Considered
      <4> QED
        BY <2>2, <3>1, <4>1
    <3>2. CASE ~ s.full
      <4>1. ToSet(t.chosen) = IF fresh THEN ToSet(s.chosen) \cup {i} ELSE ToSet(s.chosen)
        BY <2>7, <3>2 DEF Considered
      <4>2. Apart(t)
        BY <2>2, <2>6, <4>1
      <4>3. \E j \in ToSet(t.chosen) : source[j] = source[i]
        BY <2>6, <4>1
      <4>4. \A m \in 1..k : \E j \in ToSet(t.chosen) : source[j] = source[m]
        <5>1. (k - 1) + 1 = k
          BY <2>1
        <5> QED
          BY <2>2, <3>2, <4>1, <5>1
      <4>5. \A m \in 1..(k + 1) : m = i \/ m \in 1..k
        BY <2>1
      <4> QED
        BY <4>2, <4>3, <4>4, <4>5
    <3> QED
      BY <3>1, <3>2
  <2>9. t \in Chosen(source)
    BY <2>7 DEF Spreading
  <2> HIDE DEF Apart, Heard
  <2>10. I[k] = {x \in Chosen(source) : Spreading(source, x) /\ Apart(x) /\ Heard(x, k)}
    BY <2>1
  <2> QED
    BY <2>3, <2>7, <2>8, <2>9, <2>10
<1>5. Loop(body, start, o) \in I[Len(o)]
  <2> HIDE DEF I, body, start
  <2>1. \A k \in 1..Len(o) : \A x \in I[k - 1] : body[x][o[k]] \in I[k]
    BY <1>4
  <2> QED
    BY <1>1, <1>3, <2>1, LoopKeeps
<1> DEFINE s == Loop(body, start, o)
<1> HIDE DEF s, body, start
<1>6. Spreading(source, s) /\ Apart(s) /\ Heard(s, Len(o))
  <2> HIDE DEF Apart, Heard
  <2> QED
    BY <1>1, <1>5 DEF s
<1>7. Len(o) + 1 = n
  BY <1>1
<1> QED
  BY <1>1, <1>2, <1>6, <1>7 DEF s

(* The second pass fills the places that are left.                         *)
LEMMA SecondPass ==
  ASSUME NEW T, NEW source \in Seq(T), source # <<>>
  PROVE  \E t : /\ EvidenceArticles(source) = t.chosen /\ Spreading(source, t)
                /\ Spread(source).full => t = Spread(source)
                /\ ToSet(Spread(source).chosen) \subseteq ToSet(t.chosen)
                /\ ~ t.full => DOMAIN source \subseteq ToSet(t.chosen)
<1> DEFINE o == Others(source)
           n == Len(source)
           r == Spread(source)
           After(s) == (r.full => s = r) /\ ToSet(r.chosen) \subseteq ToSet(s.chosen)
           Taken(s, k) == ~ s.full => 1..(k + 1) \subseteq ToSet(s.chosen)
           I == [k \in 0..Len(o) |->
                   {s \in Chosen(source) : Spreading(source, s) /\ After(s) /\ Taken(s, k)}]
           body == [s \in Chosen(source) |-> [i \in DOMAIN source |->
                      Consider(s, i, i \notin ToSet(s.chosen))]]
<1>1. /\ o \in Seq(DOMAIN source) /\ Len(o) = n - 1 /\ n \in Nat /\ n >= 1 /\ DOMAIN source = 1..n
      /\ \A k \in 1..Len(o) : o[k] = k + 1 /\ k + 1 \in DOMAIN source
  BY OtherArticles
<1>2. EvidenceArticles(source) = Loop(body, r, o).chosen
  BY DEF EvidenceArticles
<1>3. Spreading(source, r)
  BY FirstPass
<1> HIDE DEF o, n, r
<1>4. r \in I[0]
  <2>1. r \in Chosen(source) /\ 1 \in ToSet(r.chosen)
    <3>1. r \in Chosen(source) /\ Len(r.chosen) >= 1 /\ r.chosen[1] = 1
      BY <1>3 DEF Spreading
    <3>2. r.chosen \in Seq(DOMAIN source)
      BY <3>1 DEF Chosen
    <3>3. 1 \in 1..Len(r.chosen)
      BY <3>1, <3>2
    <3> QED
      BY <3>1, <3>2, <3>3, Sequences
  <2>2. After(r) /\ Taken(r, 0)
    BY <2>1
  <2> HIDE DEF After, Taken
  <2> QED
    BY <1>1, <1>3, <2>1, <2>2
<1>5. ASSUME NEW k \in 1..Len(o), NEW s \in I[k - 1]
      PROVE  body[s][o[k]] \in I[k]
  <2>1. k - 1 \in 0..Len(o) /\ k \in 0..Len(o) /\ o[k] = k + 1 /\ k + 1 \in DOMAIN source
        /\ k \in Nat
    BY <1>1
  <2>2. s \in Chosen(source) /\ Spreading(source, s) /\ After(s) /\ Taken(s, k - 1)
    BY <2>1
  <2> DEFINE i == k + 1
             fresh == i \notin ToSet(s.chosen)
             t == Consider(s, i, fresh)
  <2>3. body[s][o[k]] = t
    BY <2>1, <2>2
  <2>4. fresh \in BOOLEAN /\ (fresh <=> i \notin ToSet(s.chosen))
    OBVIOUS
  <2> HIDE DEF fresh, t, body
  <2>7. Spreading(source, t) /\ Considered(s, t, i, fresh)
    <3> HIDE DEF I, After, Taken
    <3> QED
      BY <2>1, <2>2, <2>4, ConsideringOne DEF t
  <2>8. After(t) /\ Taken(t, k)
    <3>1. CASE s.full
      <4>1. t = s
        BY <2>7, <3>1 DEF Considered
      <4> QED
        BY <2>2, <3>1, <4>1
    <3>2. CASE ~ s.full
      <4>1. ToSet(t.chosen) = IF fresh THEN ToSet(s.chosen) \cup {i} ELSE ToSet(s.chosen)
        BY <2>7, <3>2 DEF Considered
      <4>2. i \in ToSet(t.chosen)
        BY <2>4, <4>1
      <4>3. 1..k \subseteq ToSet(t.chosen)
        <5>1. (k - 1) + 1 = k
          BY <2>1
        <5> QED
          BY <2>2, <3>2, <4>1, <5>1
      <4>4. \A m \in 1..(k + 1) : m = i \/ m \in 1..k
        BY <2>1
      <4>5. ~ r.full
        BY <2>2, <3>2
      <4> QED
        BY <2>2, <4>1, <4>2, <4>3, <4>4, <4>5
    <3> QED
      BY <3>1, <3>2
  <2>9. t \in Chosen(source)
    BY <2>7 DEF Spreading
  <2> HIDE DEF After, Taken
  <2>10. I[k] = {x \in Chosen(source) : Spreading(source, x) /\ After(x) /\ Taken(x, k)}
    BY <2>1
  <2> QED
    BY <2>3, <2>7, <2>8, <2>9, <2>10
<1>6. Loop(body, r, o) \in I[Len(o)]
  <2> HIDE DEF I, body
  <2>1. \A k \in 1..Len(o) : \A x \in I[k - 1] : body[x][o[k]] \in I[k]
    BY <1>5
  <2> QED
    BY <1>1, <1>4, <2>1, LoopKeeps
<1> DEFINE t == Loop(body, r, o)
<1> HIDE DEF t, body
<1>7. Spreading(source, t) /\ After(t) /\ Taken(t, Len(o))
  <2> HIDE DEF After, Taken
  <2> QED
    BY <1>1, <1>6 DEF t
<1>8. Len(o) + 1 = n
  BY <1>1
<1> WITNESS t
<1> QED
  BY <1>1, <1>2, <1>7, <1>8 DEF t, r

(* A bound that is reached is the lesser of two.                           *)
LEMMA TheLesser ==
  ASSUME NEW a \in Nat, NEW b \in Nat, NEW x, x <= a, x <= b, x = a \/ x = b
  PROVE  x = Lesser(a, b)
BY DEF Lesser

(* Whatever the sources of an event's articles, the representative serves, *)
(* no source serves twice while another has none, and no place stays empty.*)
THEOREM EvidenceIsSpread ==
  ASSUME NEW T, NEW source \in Seq(T), source # <<>>
  PROVE  SpreadEvidence(source)
<1> DEFINE chosen == EvidenceArticles(source)
           heard == {source[i] : i \in ToSet(chosen)}
           r == Spread(source)
           n == Len(source)
<1>1. /\ Spreading(source, r)
      /\ \A a, b \in ToSet(r.chosen) : source[a] = source[b] => a = b
      /\ ~ r.full => \A i \in DOMAIN source : \E k \in ToSet(r.chosen) : source[k] = source[i]
  BY FirstPass
<1>2. PICK t : /\ chosen = t.chosen /\ Spreading(source, t)
               /\ r.full => t = r
               /\ ToSet(r.chosen) \subseteq ToSet(t.chosen)
               /\ ~ t.full => DOMAIN source \subseteq ToSet(t.chosen)
  BY SecondPass
<1> HIDE DEF r, chosen
<1>3. n \in Nat /\ DOMAIN source = 1..n /\ ToSet(source) = {source[i] : i \in 1..n}
      /\ MaxSources \in Nat
  BY Sequences, Limits
<1>4. chosen[1] = 1 /\ IsInjective(chosen) /\ ToSet(chosen) \subseteq DOMAIN source
      /\ chosen \in Seq(1..n)
      /\ (MaxSources > 1 => Len(chosen) <= MaxSources /\ (t.full <=> Len(chosen) = MaxSources))
  <2>1. chosen[1] = 1 /\ IsInjective(chosen) /\ chosen \in Seq(1..n)
    BY <1>2, <1>3 DEF Spreading, Chosen
  <2> QED
    BY <1>2, <1>3, <2>1, Sequences DEF Spreading
<1>5. r.chosen \in Seq(1..n) /\ IsInjective(r.chosen) /\ ToSet(r.chosen) \subseteq 1..n
      /\ (MaxSources > 1 => Len(r.chosen) <= MaxSources /\ (r.full <=> Len(r.chosen) = MaxSources))
  <2>1. r.chosen \in Seq(1..n)
    BY <1>1, <1>3 DEF Spreading, Chosen
  <2> QED
    BY <1>1, <2>1, Sequences DEF Spreading
<1>6. IsFiniteSet(1..n) /\ Cardinality(1..n) = n
  BY <1>3, FS_Interval
<1>7. IsFiniteSet(ToSet(chosen)) /\ Cardinality(ToSet(chosen)) = Len(chosen) /\ Len(chosen) \in Nat
  BY <1>4, LengthCounts
<1>8. Len(chosen) <= n
  BY <1>3, <1>4, <1>6, <1>7, FS_Subset
<1>9. MaxSources > 1 => Len(chosen) = Lesser(MaxSources, n)
  <2> SUFFICES ASSUME MaxSources > 1  PROVE Len(chosen) = Lesser(MaxSources, n)
    OBVIOUS
  <2>1. CASE t.full
    <3>1. Len(chosen) = MaxSources
      BY <1>4, <2>1, Zenon
    <3> QED
      BY <1>3, <1>7, <1>8, <3>1, TheLesser
  <2>2. CASE ~ t.full
    <3>1. ToSet(chosen) = 1..n
      BY <1>2, <1>3, <1>4, <2>2
    <3>2. Len(chosen) = n
      BY <1>6, <1>7, <3>1
    <3>3. Len(chosen) <= MaxSources
      BY <1>4
    <3> QED
      BY <1>3, <1>7, <3>2, <3>3, TheLesser
  <2> QED
    BY <2>1, <2>2
<1> DEFINE c == r.chosen
           h == [k \in 1..Len(c) |-> source[c[k]]]
           first == {source[i] : i \in ToSet(c)}
<1>10. IsFiniteSet(first) /\ Cardinality(first) = Len(c) /\ Len(c) \in Nat
  <2>1. /\ Len(c) \in Nat /\ DOMAIN c = 1..Len(c) /\ ToSet(c) = {c[i] : i \in 1..Len(c)}
        /\ \A k \in 1..Len(c) : c[k] \in ToSet(c) /\ c[k] \in 1..n
    <3> DEFINE S == 1..n
    <3>1. c \in Seq(S)
      BY <1>5
    <3> HIDE DEF c, S
    <3>2. Len(c) \in Nat /\ DOMAIN c = 1..Len(c) /\ ToSet(c) = {c[i] : i \in 1..Len(c)}
      BY <3>1, Sequences
    <3>3. \A k \in 1..Len(c) : c[k] \in S /\ c[k] \in ToSet(c)
      BY <3>1, Sequences
    <3> QED
      BY <3>2, <3>3 DEF S
  <2>5. \A x, y \in ToSet(c) : source[x] = source[y] => x = y
    BY <1>1
  <2> HIDE DEF c
  <2>2. h \in Seq(T) /\ Len(h) = Len(c)
    <3>1. \A k \in 1..Len(c) : source[c[k]] \in T
      BY <1>3, <2>1
    <3> QED
      BY <2>1, <3>1
  <2>3. IsInjective(h)
    <3>1. DOMAIN h = 1..Len(c) /\ \A k \in 1..Len(c) : h[k] = source[c[k]]
      OBVIOUS
    <3> HIDE DEF h
    <3>2. IsInjective(c)
      BY <1>5 DEF c
    <3>3. ASSUME NEW a \in 1..Len(c), NEW b \in 1..Len(c), h[a] = h[b]  PROVE a = b
      <4>0. c[a] \in ToSet(c) /\ c[b] \in ToSet(c)
        BY <2>1, <3>3
      <4>2. source[c[a]] = source[c[b]]
        BY <3>1, <3>3
      <4>1. c[a] = c[b]
        BY <2>5, <4>0, <4>2
      <4> QED
        BY <2>1, <3>2, <4>1 DEF IsInjective
    <3> QED
      BY <3>1, <3>3 DEF IsInjective
  <2>4. ToSet(h) = first
    <3>1. \A k \in 1..Len(c) : h[k] = source[c[k]]
      OBVIOUS
    <3> HIDE DEF h
    <3>2. ToSet(h) = {h[k] : k \in 1..Len(h)}
      BY <2>2, Sequences
    <3>3. ToSet(h) = {source[c[k]] : k \in 1..Len(c)}
      BY <2>2, <3>1, <3>2
    <3>4. first = {source[c[k]] : k \in 1..Len(c)}
      BY <2>1, SMTT(30)
    <3> QED
      BY <3>3, <3>4
  <2> HIDE DEF h, first
  <2> QED
    BY <2>1, <2>2, <2>3, <2>4, LengthCounts
<1> DEFINE sources == ToSet(source)
<1>11. /\ first \subseteq sources /\ heard \subseteq sources /\ first \subseteq heard
       /\ IsFiniteSet(sources) /\ Cardinality(sources) \in Nat
  <2>1. first \subseteq sources /\ heard \subseteq sources /\ first \subseteq heard
    BY <1>2, <1>3, <1>4, <1>5
  <2>2. IsFiniteSet(sources)
    BY ListsAreFinite
  <2> HIDE DEF sources
  <2> QED
    BY <2>1, <2>2, FS_CardinalityType
<1>12. MaxSources > 1 => Cardinality(heard) = Lesser(MaxSources, Cardinality(sources))
  <2> SUFFICES ASSUME MaxSources > 1
               PROVE  Cardinality(heard) = Lesser(MaxSources, Cardinality(sources))
    OBVIOUS
  <2>1. CASE r.full
    <3>1. heard = first
      BY <1>2, <2>1
    <3>2. Cardinality(heard) = MaxSources
      BY <1>5, <1>10, <2>1, <3>1
    <3> HIDE DEF heard, sources
    <3>3. MaxSources <= Cardinality(sources)
      BY <1>11, <3>2, FS_Subset
    <3> QED
      BY <1>3, <1>11, <3>2, <3>3 DEF Lesser
  <2>2. CASE ~ r.full
    <3>1. sources \subseteq first
      BY <1>1, <1>3, <2>2
    <3>2. heard = sources /\ first = sources
      BY <1>11, <3>1
    <3>4. Len(c) <= MaxSources /\ Len(c) # MaxSources
      BY <1>5, <2>2
    <3>3. Cardinality(heard) = Len(c) /\ Len(c) < MaxSources /\ Cardinality(sources) = Len(c)
      <4> HIDE DEF heard, first, sources, c
      <4> QED
        BY <1>3, <1>10, <3>2, <3>4
    <3> QED
      BY <1>3, <1>10, <3>3 DEF Lesser
  <2> QED
    BY <2>1, <2>2
<1> QED
  BY <1>4, <1>9, <1>12 DEF SpreadEvidence, chosen

-----------------------------------------------------------------------------
(* The candidates                                                           *)

(* Whatever the events of the day, as many candidates as allowed are asked *)
(* about, the heaviest of them, with one place for a recruitment event if  *)
(* there is one.                                                           *)
THEOREM CandidatesAreFair ==
  ASSUME NEW events \in SUBSET Events
  PROVE  FairCandidates(events)
<1> DEFINE ranked == Those(ByWeight, events)
           best == FirstOf(Those(ranked, Recruitment), 1)
           B == ToSet(best)
           c == Cardinality(B)
           others == FirstOf(Those(ranked, events \ B), MaxCandidates - c)
           O == ToSet(others)
           kept == BoundedCandidates(events)
<1>1. /\ ranked \in Seq(Events) /\ IsInjective(ranked) /\ ToSet(ranked) = events
      /\ InOrderOf(ranked, ByWeight)
  <2>1. ToSet(ByWeight) \cap events = events
    BY DEF Events
  <2> QED
    BY <2>1, Limits, ThoseAreListed
<1>2. kept = B \cup O
  BY DEF BoundedCandidates
<1>3. MaxCandidates \in Nat /\ MaxCandidates >= 1
  BY Limits
<1> HIDE DEF ranked
<1>4. /\ IsFiniteSet(B) /\ B \subseteq ToSet(ranked) \cap Recruitment
      /\ Cardinality(ToSet(ranked) \cap Recruitment) \in Nat /\ c \in Nat
      /\ IsFiniteSet(ToSet(ranked) \cap Recruitment)
      /\ c = Lesser(1, Cardinality(ToSet(ranked) \cap Recruitment))
      /\ \A a \in ToSet(ranked) \cap Recruitment : \A b \in B : Before(ranked, a, b) => a \in B
  <2>1. 1 \in Nat
    OBVIOUS
  <2> QED
    BY <1>1, <2>1, LeadingOf
<1> HIDE DEF B
<1>5. c <= 1 /\ MaxCandidates - c \in Nat
  BY <1>3, <1>4 DEF Lesser
<1> DEFINE X == ToSet(ranked) \cap (events \ B)
<1>6. /\ IsFiniteSet(X) /\ IsFiniteSet(O) /\ O \subseteq X
      /\ Cardinality(X) \in Nat /\ Cardinality(O) \in Nat
      /\ Cardinality(O) = Lesser(MaxCandidates - c, Cardinality(X))
      /\ \A a \in X : \A b \in O : Before(ranked, a, b) => a \in O
  <2> HIDE DEF c
  <2> QED
    BY <1>1, <1>5, LeadingOf
<1>7. X = events \ B /\ B \subseteq events /\ B \cap Recruitment = B
  BY <1>1, <1>4
<1> HIDE DEF O, X
<1>8. kept \subseteq events /\ Cardinality(kept) = Lesser(MaxCandidates, Cardinality(events))
  <2>1. kept \subseteq events
    BY <1>2, <1>6, <1>7
  <2>2. B \cap O = {} /\ B \cap X = {} /\ events = B \cup X
    BY <1>6, <1>7
  <2>3. Cardinality(kept) = c + Cardinality(O)
    BY <1>2, <1>4, <1>6, <2>2, CountedApart
  <2>4. Cardinality(events) = c + Cardinality(X)
    BY <1>4, <1>6, <2>2, CountedApart
  <2> HIDE DEF c
  <2>5. c + Lesser(MaxCandidates - c, Cardinality(X)) = Lesser(MaxCandidates, c + Cardinality(X))
    <3> DEFINE x == Cardinality(X)
    <3>1. x \in Nat /\ c \in Nat /\ c <= MaxCandidates
      BY <1>3, <1>4, <1>5, <1>6
    <3> HIDE DEF x
    <3>2. c + Lesser(MaxCandidates - c, x) = Lesser(MaxCandidates, c + x)
      BY <1>3, <3>1 DEF Lesser
    <3> QED
      BY <3>2 DEF x
  <2> QED
    BY <1>6, <2>1, <2>3, <2>4, <2>5
<1>9. ASSUME events \cap Recruitment # {}  PROVE kept \cap Recruitment # {}
  <2>1. Cardinality(ToSet(ranked) \cap Recruitment) # 0
    BY <1>1, <1>4, <1>9, FS_EmptySet
  <2>2. c = 1
    BY <1>4, <2>1 DEF Lesser
  <2>3. B # {}
    BY <2>2, FS_EmptySet
  <2> QED
    BY <1>2, <1>7, <2>3
<1>10. ASSUME NEW a \in events \ kept, NEW b \in kept, Before(ByWeight, a, b)
       PROVE  b \in Recruitment /\ kept \cap Recruitment = {b}
  <2>1. ByWeight \in Seq(Events) /\ IsInjective(ByWeight)
    BY Limits
  <2>2. \A x, y \in events : Before(ranked, x, y) <=> Before(ByWeight, x, y)
    <3>1. ASSUME NEW x \in events, NEW y \in events
          PROVE  Before(ranked, x, y) <=> Before(ByWeight, x, y)
      <4>1. x \in ToSet(ranked) /\ y \in ToSet(ranked)
        BY <1>1
      <4> QED
        BY <1>1, <2>1, <4>1, OrderIsShared
    <3> QED
      BY <3>1
  <2>3. a \in X /\ a \notin O /\ b \in events
    BY <1>2, <1>7, <1>8
  <2>4. b \notin O
    BY <1>6, <1>10, <2>2, <2>3
  <2>5. b \in B
    BY <1>2, <2>4
  <2>6. B = {b}
    <3>1. c = 1
      <4>1. c # 0
        BY <1>4, <2>5, FS_EmptySet
      <4> QED
        BY <1>4, <1>5, <4>1
    <3>2. IsFiniteSet({b}) /\ Cardinality({b}) = 1
      BY FS_Singleton
    <3>3. {b} \in SUBSET B
      BY <2>5
    <3> QED
      BY <1>4, <3>1, <3>2, <3>3, FS_Subset
  <2>7. ASSUME NEW x \in O, x \in Recruitment  PROVE FALSE
    <3>1. x \in ToSet(ranked) \cap Recruitment /\ x \in events /\ x # b /\ x # a
      BY <1>1, <1>6, <1>7, <2>3, <2>4, <2>7
    <3>2. ~ Before(ranked, x, b)
      BY <1>4, <2>5, <2>6, <3>1
    <3>3. ~ Before(ranked, a, x)
      BY <1>6, <2>3, <2>7
    <3>4. PICK i \in 1..Len(ByWeight), j \in 1..Len(ByWeight) :
            i < j /\ ByWeight[i] = a /\ ByWeight[j] = b
      BY <1>10 DEF Before
    <3>5. PICK m \in 1..Len(ByWeight) : ByWeight[m] = x
      <4>1. x \in ToSet(ByWeight)
        BY <3>1 DEF Events
      <4> QED
        BY <2>1, <4>1, Sequences
    <3>6. ~ (m < j) /\ ~ (i < m)
      BY <2>2, <2>3, <3>1, <3>2, <3>3, <3>4, <3>5, SMTT(30) DEF Before
    <3>7. Len(ByWeight) \in Nat
      BY <2>1
    <3> QED
      BY <3>4, <3>6, <3>7
  <2> QED
    BY <1>2, <1>7, <2>6, <2>7
<1> DEFINE Heavier(a, b) == \E i, j \in DOMAIN ByWeight : i < j /\ ByWeight[i] = a /\ ByWeight[j] = b
<1>11. \A a, b : Heavier(a, b) => Before(ByWeight, a, b)
  <2>1. DOMAIN ByWeight = 1..Len(ByWeight)
    BY Limits, Sequences
  <2> QED
    BY <2>1 DEF Before
<1>12. \A a \in events \ kept, b \in kept :
         Heavier(a, b) => b \in Recruitment /\ kept \cap Recruitment = {b}
  BY <1>10, <1>11
<1> QED
  BY <1>8, <1>9, <1>12 DEF FairCandidates

-----------------------------------------------------------------------------
(* The selection                                                            *)

Recruits(ranking) ==
  {a \in ToSet(ranking) \cap Recruitment :
     Cardinality({x \in ToSet(ranking) \cap Recruitment : Before(ranking, x, a)})
       < Lesser(MinRecruitment, MaxSelected)}

Locals(ranking) ==
  {a \in ToSet(ranking) \cap Domestic :
     Cardinality({x \in ToSet(ranking) \cap Domestic : Before(ranking, x, a)})
       < Lesser(MinDomestic, MaxSelected - Cardinality(Recruits(ranking)))}

(* The lesser of two is below both.                                        *)
LEMMA LesserIsLess ==
  ASSUME NEW a \in Nat, NEW b \in Nat
  PROVE  Lesser(a, b) \in Nat /\ Lesser(a, b) <= a /\ Lesser(a, b) <= b
BY DEF Lesser

(* Reserved places go to the best of their kind.                           *)
LEMMA ReservedPlaces ==
  ASSUME NEW ranking \in Seq(Events), IsInjective(ranking)
  PROVE  LET R == Reserved(ranking) IN
         /\ R = Recruits(ranking) \cup Locals(ranking)
         /\ R \subseteq ToSet(ranking) /\ IsFiniteSet(R) /\ Cardinality(R) <= MaxSelected
<1> DEFINE m == Lesser(MinRecruitment, MaxSelected)
           A == ToSet(FirstOf(Those(ranking, Recruitment), m))
           X == ToSet(ranking) \cap Recruitment
           n == Lesser(MinDomestic, MaxSelected - Cardinality(A))
           D == ToSet(FirstOf(Those(ranking, Domestic), n))
           Y == ToSet(ranking) \cap Domestic
<1>1. MinRecruitment \in Nat /\ MaxSelected \in Nat /\ MinDomestic \in Nat
  BY Limits
<1>2. m \in Nat /\ m <= MaxSelected
  BY <1>1, LesserIsLess
<1>3. Reserved(ranking) = A \cup D
  BY DEF Reserved
<1> HIDE DEF m
<1>4. /\ IsFiniteSet(A) /\ A \subseteq X /\ Cardinality(A) \in Nat /\ Cardinality(X) \in Nat
      /\ Cardinality(A) = Lesser(m, Cardinality(X))
      /\ \A a \in X : a \in A <=> Cardinality({x \in X : Before(ranking, x, a)}) < m
  BY <1>2, LeadingOf
<1> HIDE DEF A
<1>5. A = Recruits(ranking)
  <2>1. A = {a \in X : Cardinality({x \in X : Before(ranking, x, a)}) < m}
    BY <1>4
  <2> QED
    BY <2>1 DEF Recruits, m
<1>6. Cardinality(A) <= m
  BY <1>2, <1>4, LesserIsLess
<1>7. n \in Nat /\ Cardinality(A) + n <= MaxSelected
  <2>1. MaxSelected - Cardinality(A) \in Nat
    BY <1>1, <1>2, <1>4, <1>6
  <2>2. n \in Nat /\ n <= MaxSelected - Cardinality(A)
    BY <1>1, <2>1, LesserIsLess
  <2> HIDE DEF n
  <2> QED
    BY <1>1, <1>4, <2>1, <2>2
<1> HIDE DEF n
<1>8. /\ IsFiniteSet(D) /\ D \subseteq Y /\ Cardinality(D) \in Nat /\ Cardinality(Y) \in Nat
      /\ Cardinality(D) = Lesser(n, Cardinality(Y))
      /\ \A a \in Y : a \in D <=> Cardinality({x \in Y : Before(ranking, x, a)}) < n
  BY <1>7, LeadingOf
<1> HIDE DEF D
<1>9. D = Locals(ranking)
  <2>1. D = {a \in Y : Cardinality({x \in Y : Before(ranking, x, a)}) < n}
    BY <1>8
  <2>2. n = Lesser(MinDomestic, MaxSelected - Cardinality(Recruits(ranking)))
    BY <1>5 DEF n
  <2> QED
    BY <2>1, <2>2 DEF Locals
<1>10. Cardinality(D) <= n
  BY <1>7, <1>8, LesserIsLess
<1>11. IsFiniteSet(A \cup D) /\ Cardinality(A \cup D) <= MaxSelected
  <2>1. /\ IsFiniteSet(A \cup D) /\ IsFiniteSet(A \cap D)
        /\ Cardinality(A \cup D) = Cardinality(A) + Cardinality(D) - Cardinality(A \cap D)
    BY <1>4, <1>8, FS_Union, FS_Intersection
  <2>2. Cardinality(A \cap D) \in Nat /\ Cardinality(A \cup D) \in Nat
    BY <2>1, FS_CardinalityType
  <2> QED
    BY <1>1, <1>4, <1>7, <1>8, <1>10, <2>1, <2>2
<1> QED
  BY <1>3, <1>4, <1>5, <1>8, <1>9, <1>11

FirstRanked(ranking, k) == {ranking[i] : i \in 1..k}

(* What holds after the first k events of the ranking were looked at.      *)
Scanned(ranking, k, s) ==
  /\ Reserved(ranking) \subseteq s.taken
  /\ s.taken \subseteq Reserved(ranking) \cup FirstRanked(ranking, k)
  /\ IsFiniteSet(s.taken) /\ Cardinality(s.taken) <= MaxSelected
  /\ ToSet(s.skipped) \subseteq (FirstRanked(ranking, k) \cap AI) \ s.taken
  /\ Cardinality(s.taken) < MaxSelected =>
       FirstRanked(ranking, k) \subseteq s.taken \cup ToSet(s.skipped)

(* The skipped ones stay in the order of the ranking.                      *)
InRank(ranking, k, s) ==
  \A i, j \in 1..Len(s.skipped) : i < j =>
    \E p, q \in 1..k : p < q /\ ranking[p] = s.skipped[i] /\ ranking[q] = s.skipped[j]

(* The cap on topical AI events.                                           *)
Capped(ranking, s) ==
  /\ ToSet(s.skipped) # {} => Cardinality(s.taken \cap AI) >= MaxAI
  /\ Cardinality(s.taken \cap AI) <= Greater(MaxAI, Cardinality(Reserved(ranking) \cap AI))
  /\ \A b \in s.taken \ Reserved(ranking) : \A a :
       Before(ranking, a, b) /\ a \notin s.taken => a \in AI /\ b \notin AI /\ a \in ToSet(s.skipped)

ScanStates(ranking, k) ==
  {s \in [taken : SUBSET Events, skipped : Seq(Events)] :
     Scanned(ranking, k, s) /\ InRank(ranking, k, s) /\ Capped(ranking, s)}

(* One more event of the ranking, taken or skipped.                        *)
LEMMA ScanOne ==
  ASSUME NEW ranking \in Seq(Events), IsInjective(ranking), NEW k \in 1..Len(ranking),
         NEW s \in ScanStates(ranking, k - 1)
  PROVE  TakeOrSkip(s, ranking[k]) \in ScanStates(ranking, k)
<1> DEFINE e == ranking[k]
           T == s.taken
           S == s.skipped
           R == Reserved(ranking)
           B == FirstRanked(ranking, k - 1)
           C == FirstRanked(ranking, k)
           States == [taken : SUBSET Events, skipped : Seq(Events)]
           Good(x) == Scanned(ranking, k, x) /\ InRank(ranking, k, x) /\ Capped(ranking, x)
<1>1. /\ s \in States /\ T \in SUBSET Events /\ S \in Seq(Events) /\ s = [taken |-> T, skipped |-> S]
      /\ Scanned(ranking, k - 1, s) /\ InRank(ranking, k - 1, s) /\ Capped(ranking, s)
  BY DEF ScanStates
<1>2. ASSUME NEW x \in States, Good(x)  PROVE x \in ScanStates(ranking, k)
  BY <1>2 DEF ScanStates
<1>3. e \in Events /\ Len(ranking) \in Nat /\ DOMAIN ranking = 1..Len(ranking) /\ k \in Nat
  BY Sequences
<1>4. C = B \cup {e}
  BY <1>3, OneItemMore DEF FirstRanked
<1>5. e \notin B
  <2> SUFFICES ASSUME NEW i \in 1..(k - 1), ranking[i] = ranking[k]  PROVE FALSE
    BY DEF FirstRanked
  <2>1. i \in 1..Len(ranking) /\ i # k
    BY <1>3
  <2> QED
    BY <1>3, <2>1 DEF IsInjective
<1>6. \A x \in 1..(k - 1) : x \in 1..k
  BY <1>3
<1>7. /\ R \subseteq T /\ T \subseteq R \cup B /\ IsFiniteSet(T) /\ Cardinality(T) <= MaxSelected
      /\ ToSet(S) \subseteq (B \cap AI) \ T
      /\ Cardinality(T) < MaxSelected => B \subseteq T \cup ToSet(S)
      /\ Cardinality(T) \in Nat /\ MaxSelected \in Nat /\ MaxAI \in Nat
  <2>1. /\ R \subseteq T /\ T \subseteq R \cup B /\ IsFiniteSet(T) /\ Cardinality(T) <= MaxSelected
        /\ ToSet(S) \subseteq (B \cap AI) \ T
        /\ Cardinality(T) < MaxSelected => B \subseteq T \cup ToSet(S)
    BY <1>1 DEF Scanned
  <2> QED
    BY <2>1, FS_CardinalityType, Limits
<1>8. /\ ToSet(S) # {} => Cardinality(T \cap AI) >= MaxAI
      /\ Cardinality(T \cap AI) <= Greater(MaxAI, Cardinality(R \cap AI))
      /\ \A b \in T \ R : \A a :
           Before(ranking, a, b) /\ a \notin T => a \in AI /\ b \notin AI /\ a \in ToSet(S)
  BY <1>1 DEF Capped
<1>9. \A i, j \in 1..Len(S) : i < j =>
        \E p, q \in 1..(k - 1) : p < q /\ ranking[p] = S[i] /\ ranking[q] = S[j]
  BY <1>1 DEF InRank
<1>10. IsFiniteSet(T \cap AI) /\ Cardinality(T \cap AI) \in Nat
  BY <1>7, FS_Intersection, FS_CardinalityType
<1>11. \A a : Before(ranking, a, e) => a \in B
  <2> SUFFICES ASSUME NEW a, Before(ranking, a, e)  PROVE a \in B
    OBVIOUS
  <2>1. PICK p \in 1..Len(ranking), q \in 1..Len(ranking) :
          p < q /\ ranking[p] = a /\ ranking[q] = ranking[k]
    BY DEF Before
  <2>2. q = k
    BY <1>3, <2>1 DEF IsInjective
  <2>3. p \in 1..(k - 1)
    BY <1>3, <2>1, <2>2
  <2> QED
    BY <2>1, <2>3 DEF FirstRanked
<1> DEFINE t == TakeOrSkip(s, e)
<1> HIDE DEF e, T, S, R, B, C
<1>12. CASE Cardinality(T) >= MaxSelected \/ e \in T
  <2>1. t = s
    BY <1>7, <1>12 DEF TakeOrSkip, T
  <2>2. Scanned(ranking, k, s)
    <3>1. T \subseteq R \cup C /\ ToSet(S) \subseteq (C \cap AI) \ T
      BY <1>4, <1>7
    <3>2. Cardinality(T) < MaxSelected => C \subseteq T \cup ToSet(S)
      <4> SUFFICES ASSUME Cardinality(T) < MaxSelected  PROVE C \subseteq T \cup ToSet(S)
        OBVIOUS
      <4>1. e \in T
        BY <1>7, <1>12
      <4> QED
        BY <1>4, <1>7, <4>1
    <3> QED
      BY <1>7, <3>1, <3>2 DEF Scanned, T, S, R, C
  <2>3. InRank(ranking, k, s)
    BY <1>6, <1>9 DEF InRank, S
  <2> QED
    BY <1>1, <1>2, <2>1, <2>2, <2>3 DEF e
<1>13. CASE ~ (Cardinality(T) >= MaxSelected \/ e \in T) /\ e \in AI /\ Cardinality(T \cap AI) >= MaxAI
  <2> DEFINE U == Append(S, e)
             x == [taken |-> T, skipped |-> U]
  <2>1. t = x
    <3>1. Cardinality(T) < MaxSelected /\ e \notin T
      BY <1>7, <1>13
    <3>2. t = [s EXCEPT !.skipped = Append(@, e)]
      BY <1>13, <3>1 DEF TakeOrSkip, T
    <3> QED
      BY <1>1, <3>2
  <2>2. /\ U \in Seq(Events) /\ Len(U) = Len(S) + 1 /\ U[Len(S) + 1] = e
        /\ \A i \in 1..Len(S) : U[i] = S[i]
        /\ ToSet(U) = ToSet(S) \cup {e}
    BY <1>1, <1>3, Longer DEF e, S
  <2> HIDE DEF U
  <2>3. x \in States /\ x.taken = T /\ x.skipped = U
    BY <1>1, <2>2 DEF T
  <2> HIDE DEF x, t
  <2>4. Scanned(ranking, k, x)
    <3>1. T \subseteq R \cup C /\ ToSet(U) \subseteq (C \cap AI) \ T /\ C \subseteq T \cup ToSet(U)
      BY <1>4, <1>7, <1>13, <2>2
    <3> QED
      BY <1>7, <2>3, <3>1 DEF Scanned, R, C
  <2>5. InRank(ranking, k, x)
    <3> SUFFICES ASSUME NEW i \in 1..Len(U), NEW j \in 1..Len(U), i < j
                 PROVE  \E p, q \in 1..k : p < q /\ ranking[p] = U[i] /\ ranking[q] = U[j]
      BY <2>3 DEF InRank
    <3>1. Len(S) \in Nat
      BY <1>1 DEF S
    <3>2. i \in 1..Len(S) /\ U[i] = S[i]
      <4>1. i \in 1..Len(S)
        BY <2>2, <3>1
      <4> QED
        BY <2>2, <4>1
    <3>3. CASE j \in 1..Len(S)
      <4>1. U[j] = S[j]
        BY <2>2, <3>3
      <4>2. PICK p \in 1..(k - 1), q \in 1..(k - 1) : p < q /\ ranking[p] = S[i] /\ ranking[q] = S[j]
        BY <1>9, <3>2, <3>3
      <4>3. p \in 1..k /\ q \in 1..k /\ p < q /\ ranking[p] = U[i] /\ ranking[q] = U[j]
        BY <1>6, <3>2, <4>1, <4>2
      <4> HIDE DEF States, Good
      <4> QED
        BY <4>3
    <3>4. CASE j = Len(S) + 1
      <4>1. U[i] \in ToSet(S)
        BY <1>1, <3>2, Sequences DEF S
      <4>2. PICK p \in 1..(k - 1) : ranking[p] = U[i]
        BY <1>7, <4>1 DEF B, FirstRanked
      <4>3. p \in 1..k /\ k \in 1..k /\ p < k /\ ranking[k] = U[j]
        BY <1>3, <2>2, <3>4 DEF e
      <4> HIDE DEF States, Good
      <4> QED
        BY <4>2, <4>3
    <3>5. j \in 1..Len(S) \/ j = Len(S) + 1
      BY <2>2, <3>1, SMTT(30)
    <3> QED
      BY <3>3, <3>4, <3>5
  <2>6. Capped(ranking, x)
    <3>1. \A b \in T \ R : \A a :
            Before(ranking, a, b) /\ a \notin T => a \in AI /\ b \notin AI /\ a \in ToSet(U)
      BY <1>8, <2>2
    <3> QED
      BY <1>8, <1>13, <2>3, <3>1 DEF Capped, R
  <2> QED
    BY <1>2, <2>1, <2>3, <2>4, <2>5, <2>6 DEF t, e
<1>14. CASE ~ (Cardinality(T) >= MaxSelected \/ e \in T) /\ ~ (e \in AI /\ Cardinality(T \cap AI) >= MaxAI)
  <2> DEFINE V == T \cup {e}
             x == [taken |-> V, skipped |-> S]
  <2>1. t = x
    <3>1. Cardinality(T) < MaxSelected /\ e \notin T
      BY <1>7, <1>14
    <3>2. t = [s EXCEPT !.taken = @ \cup {e}]
      BY <1>14, <3>1 DEF TakeOrSkip, T
    <3> QED
      BY <1>1, <3>2
  <2>2. /\ V \in SUBSET Events /\ IsFiniteSet(V) /\ Cardinality(V) = Cardinality(T) + 1
    <3>1. V \in SUBSET Events
      BY <1>1, <1>3 DEF e, T
    <3> QED
      BY <1>7, <1>14, <3>1, FS_AddElement
  <2>3. x \in States /\ x.taken = V /\ x.skipped = S
    BY <1>1, <2>2 DEF S
  <2>4. e \notin T /\ Cardinality(T) < MaxSelected /\ T \subseteq V /\ e \in V
    BY <1>7, <1>14
  <2>5. \A y : y \in V <=> y \in T \/ y = e
    OBVIOUS
  <2>6. /\ IsFiniteSet(V \cap AI) /\ Cardinality(V \cap AI) \in Nat
        /\ Cardinality(V \cap AI) >= Cardinality(T \cap AI)
        /\ e \in AI => Cardinality(V \cap AI) = Cardinality(T \cap AI) + 1
        /\ e \notin AI => Cardinality(V \cap AI) = Cardinality(T \cap AI)
    <3> DEFINE Z == T \cap AI
               W == V \cap AI
    <3>1. e \in AI => W = Z \cup {e} /\ e \notin Z
      BY <2>4
    <3>2. e \notin AI => W = Z
      OBVIOUS
    <3>3. IsFiniteSet(Z) /\ Cardinality(Z) \in Nat
      BY <1>10
    <3> HIDE DEF Z, W
    <3>4. IsFiniteSet(Z \cup {e}) /\ (e \notin Z => Cardinality(Z \cup {e}) = Cardinality(Z) + 1)
      BY <3>3, FS_AddElement
    <3>5. /\ IsFiniteSet(W) /\ Cardinality(W) \in Nat /\ Cardinality(W) >= Cardinality(Z)
          /\ e \in AI => Cardinality(W) = Cardinality(Z) + 1
          /\ e \notin AI => Cardinality(W) = Cardinality(Z)
      <4>1. CASE e \in AI
        <5>1. W = Z \cup {e} /\ e \notin Z
          BY <3>1, <4>1
        <5>2. IsFiniteSet(W) /\ Cardinality(W) = Cardinality(Z) + 1
          BY <3>4, <5>1
        <5> QED
          BY <3>3, <4>1, <5>2
      <4>2. CASE e \notin AI
        BY <3>2, <3>3, <4>2
      <4> QED
        BY <4>1, <4>2
    <3> QED
      BY <3>5 DEF Z, W
  <2> HIDE DEF x, t, V
  <2>7. Scanned(ranking, k, x)
    <3>1. /\ R \subseteq V /\ V \subseteq R \cup C /\ ToSet(S) \subseteq (C \cap AI) \ V
          /\ C \subseteq V \cup ToSet(S)
      BY <1>4, <1>5, <1>7, <2>4, <2>5
    <3>2. Cardinality(V) <= MaxSelected
      BY <1>7, <2>2, <2>4
    <3> QED
      BY <2>2, <2>3, <3>1, <3>2 DEF Scanned, R, C
  <2>8. InRank(ranking, k, x)
    BY <1>6, <1>9, <2>3 DEF InRank
  <2>9. Capped(ranking, x)
    <3>1. ToSet(S) # {} => Cardinality(V \cap AI) >= MaxAI
      BY <1>7, <1>8, <1>10, <2>6
    <3>2. Cardinality(V \cap AI) <= Greater(MaxAI, Cardinality(R \cap AI))
      <4>1. CASE e \in AI
        <5>1. Cardinality(T \cap AI) < MaxAI
          BY <1>7, <1>10, <1>14, <4>1
        <5>2. Cardinality(V \cap AI) <= MaxAI
          BY <1>7, <1>10, <2>6, <4>1, <5>1
        <5>3. IsFiniteSet(R \cap AI)
          <6>1. R \cap AI \in SUBSET T
            BY <1>7
          <6> QED
            BY <1>7, <6>1, FS_Subset
        <5>4. Cardinality(R \cap AI) \in Nat
          BY <5>3, FS_CardinalityType
        <5> QED
          BY <1>7, <2>6, <5>2, <5>4 DEF Greater
      <4>2. CASE e \notin AI
        BY <1>8, <2>6, <4>2
      <4> QED
        BY <4>1, <4>2
    <3>3. ASSUME NEW b \in V \ R, NEW a, Before(ranking, a, b), a \notin V
          PROVE  a \in AI /\ b \notin AI /\ a \in ToSet(S)
      <4>1. CASE b \in T
        BY <1>8, <2>5, <3>3, <4>1
      <4>2. CASE b = e
        <5>1. a \in B /\ a \notin T
          BY <1>11, <2>5, <3>3, <4>2
        <5>2. a \in ToSet(S) /\ a \in AI
          BY <1>7, <2>4, <5>1
        <5>3. Cardinality(T \cap AI) >= MaxAI
          BY <1>8, <5>2
        <5> QED
          BY <1>14, <4>2, <5>2, <5>3
      <4> QED
        BY <2>5, <3>3, <4>1, <4>2
    <3> QED
      BY <2>3, <3>1, <3>2, <3>3 DEF Capped, R
  <2> QED
    BY <1>2, <2>1, <2>3, <2>7, <2>8, <2>9 DEF t, e
<1> QED
  BY <1>12, <1>13, <1>14

(* The whole ranking, scanned.                                             *)
LEMMA ScanEnds ==
  ASSUME NEW ranking \in Seq(Events), IsInjective(ranking)
  PROVE  Scan(ranking) \in ScanStates(ranking, Len(ranking))
<1> DEFINE R == Reserved(ranking)
           start == [taken |-> R, skipped |-> <<>>]
           body == [s \in [taken : SUBSET Events, skipped : Seq(Events)] |->
                      [e \in Events |-> TakeOrSkip(s, e)]]
           I == [k \in 0..Len(ranking) |-> ScanStates(ranking, k)]
<1>1. /\ Len(ranking) \in Nat /\ ToSet(ranking) \subseteq Events
      /\ \A k \in 1..Len(ranking) : ranking[k] \in Events
  BY Sequences
<1>2. R \subseteq ToSet(ranking) /\ IsFiniteSet(R) /\ Cardinality(R) <= MaxSelected
  BY ReservedPlaces
<1>3. Scan(ranking) = Loop(body, start, ranking)
  BY DEF Scan
<1>4. start \in I[0]
  <2>1. start \in [taken : SUBSET Events, skipped : Seq(Events)] /\ start.taken = R /\ start.skipped = <<>>
    BY <1>1, <1>2
  <2> HIDE DEF start
  <2>2. FirstRanked(ranking, 0) = {} /\ ToSet(<<>>) = {} /\ Len(<<>>) = 0
    BY Empty DEF FirstRanked
  <2>3. Scanned(ranking, 0, start)
    BY <1>2, <2>1, <2>2 DEF Scanned
  <2>4. InRank(ranking, 0, start)
    BY <2>1, <2>2 DEF InRank
  <2>5. Capped(ranking, start)
    <3>1. IsFiniteSet(R \cap AI) /\ Cardinality(R \cap AI) \in Nat
      BY <1>2, FS_Intersection, FS_CardinalityType
    <3>2. Cardinality(R \cap AI) <= Greater(MaxAI, Cardinality(R \cap AI))
      BY <3>1, Limits DEF Greater
    <3> QED
      BY <2>1, <2>2, <3>2 DEF Capped
  <2>6. start \in ScanStates(ranking, 0)
    BY <2>1, <2>3, <2>4, <2>5 DEF ScanStates
  <2> QED
    BY <1>1, <2>6
<1>5. ASSUME NEW k \in 1..Len(ranking), NEW s \in I[k - 1]
      PROVE  body[s][ranking[k]] \in I[k]
  <2>1. k - 1 \in 0..Len(ranking) /\ k \in 0..Len(ranking)
    BY <1>1
  <2>2. s \in ScanStates(ranking, k - 1)
    BY <2>1
  <2>3. body[s][ranking[k]] = TakeOrSkip(s, ranking[k])
    BY <1>1, <2>2 DEF ScanStates
  <2>4. I[k] = ScanStates(ranking, k)
    BY <2>1
  <2> HIDE DEF I, body
  <2>5. TakeOrSkip(s, ranking[k]) \in ScanStates(ranking, k)
    BY <2>2, ScanOne
  <2> QED
    BY <2>3, <2>4, <2>5
<1>6. Loop(body, start, ranking) \in I[Len(ranking)]
  <2> HIDE DEF I, body, start
  <2>1. \A k \in 1..Len(ranking) : \A x \in I[k - 1] : body[x][ranking[k]] \in I[k]
    BY <1>5
  <2> QED
    BY <1>4, <2>1, LoopKeeps
<1>7. Len(ranking) \in 0..Len(ranking)
  BY <1>1
<1> QED
  BY <1>3, <1>6, <1>7

(* Whatever the ranking and the quotas, the episode is full when it can    *)
(* be, reserved places go to the best of their kind, and only the cap on   *)
(* topical AI events puts a worse event before a better one.               *)
THEOREM SelectionsAreBalanced ==
  ASSUME NEW ranking \in Seq(Events), IsInjective(ranking)
  PROVE  BalancedSelection(ranking)
<1> DEFINE all == ToSet(ranking)
           R == Reserved(ranking)
           s == Scan(ranking)
           T == s.taken
           K == s.skipped
           n == MaxSelected - Cardinality(T)
           rest == FirstOf(K, n)
           E == ToSet(rest)
           chosen == SelectEventIds(ranking)
           S == ToSet(chosen)
           before(a) == {ranking[i] : i \in 1..((CHOOSE k \in DOMAIN ranking : ranking[k] = a) - 1)}
<1>1. /\ Len(ranking) \in Nat /\ DOMAIN ranking = 1..Len(ranking)
      /\ all = {ranking[i] : i \in 1..Len(ranking)}
      /\ \A a \in all : \E i \in 1..Len(ranking) : ranking[i] = a
      /\ IsFiniteSet(all) /\ Cardinality(all) = Len(ranking)
  BY Sequences, LengthCounts
<1>2. /\ R = Recruits(ranking) \cup Locals(ranking)
      /\ R \subseteq all
  BY ReservedPlaces
<1>3. /\ s \in [taken : SUBSET Events, skipped : Seq(Events)]
      /\ Scanned(ranking, Len(ranking), s) /\ InRank(ranking, Len(ranking), s) /\ Capped(ranking, s)
  BY ScanEnds DEF ScanStates
<1>4. chosen = Those(ranking, T \cup E)
  BY DEF SelectEventIds
<1> HIDE DEF s
<1>5. FirstRanked(ranking, Len(ranking)) = all
  BY <1>1 DEF FirstRanked
<1>6. /\ R \subseteq T /\ T \subseteq all /\ IsFiniteSet(T) /\ Cardinality(T) <= MaxSelected
      /\ ToSet(K) \subseteq (all \cap AI) \ T
      /\ Cardinality(T) < MaxSelected => all \subseteq T \cup ToSet(K)
      /\ Cardinality(T) \in Nat /\ MaxSelected \in Nat /\ MaxAI \in Nat
  <2>1. /\ R \subseteq T /\ T \subseteq all /\ IsFiniteSet(T) /\ Cardinality(T) <= MaxSelected
        /\ ToSet(K) \subseteq (all \cap AI) \ T
        /\ Cardinality(T) < MaxSelected => all \subseteq T \cup ToSet(K)
    BY <1>2, <1>3, <1>5 DEF Scanned
  <2> QED
    BY <2>1, FS_CardinalityType, Limits
<1>7. /\ Cardinality(T \cap AI) <= Greater(MaxAI, Cardinality(R \cap AI))
      /\ \A b \in T \ R : \A a :
           Before(ranking, a, b) /\ a \notin T => a \in AI /\ b \notin AI /\ a \in ToSet(K)
  BY <1>3 DEF Capped
<1>8. K \in Seq(Events) /\ InOrderOf(K, ranking) /\ IsInjective(K)
  <2>1. K \in Seq(Events)
    BY <1>3
  <2>2. InOrderOf(K, ranking)
    BY <1>3, <1>6 DEF InOrderOf, InRank
  <2> QED
    BY <2>1, <2>2, OrderKeepsInjective
<1> HIDE DEF R, T, K
<1>9. n \in Nat
  BY <1>6
<1>10. /\ IsFiniteSet(E) /\ Cardinality(E) = Lesser(n, Len(K)) /\ E \subseteq ToSet(K)
       /\ \A a, b : b \in E /\ Before(K, a, b) => a \in E
       /\ Len(K) \in Nat
  <2> HIDE DEF n
  <2> QED
    BY <1>8, <1>9, Leading, Sequences
<1> HIDE DEF E, rest
<1>11. S = T \cup E /\ S \subseteq all /\ chosen = Those(ranking, S) /\ T \cap E = {}
       /\ chosen \in Seq(Events) /\ IsInjective(chosen)
  <2> DEFINE U == T \cup E
  <2>1. U \subseteq all /\ T \cap E = {}
    BY <1>6, <1>10
  <2> HIDE DEF U, chosen
  <2>2. chosen \in Seq(Events) /\ ToSet(chosen) = all \cap U /\ IsInjective(chosen)
    BY <1>4, ThoseAreListed DEF U
  <2>3. S = U
    BY <2>1, <2>2
  <2> QED
    BY <1>4, <2>1, <2>2, <2>3 DEF U
<1> HIDE DEF chosen
<1>12. Len(chosen) = Cardinality(T) + Lesser(n, Len(K)) /\ IsFiniteSet(S) /\ Cardinality(S) = Len(chosen)
  <2>1. Cardinality(S) = Len(chosen) /\ IsFiniteSet(S)
    BY <1>11, LengthCounts
  <2>2. Cardinality(T \cup E) = Cardinality(T) + Cardinality(E)
    BY <1>6, <1>10, <1>11, CountedApart
  <2> QED
    BY <1>10, <1>11, <2>1, <2>2
<1>13. Len(chosen) = Lesser(MaxSelected, Len(ranking))
  <2>1. CASE Cardinality(T) = MaxSelected
    <3>1. n = 0 /\ Len(chosen) = MaxSelected
      BY <1>6, <1>10, <1>12, <2>1 DEF Lesser
    <3>2. MaxSelected <= Len(ranking)
      <4>1. T \in SUBSET all /\ IsFiniteSet(all) /\ Cardinality(all) = Len(ranking)
        BY <1>1, <1>6
      <4> HIDE DEF all
      <4>2. Cardinality(T) <= Cardinality(all)
        BY <4>1, FS_Subset
      <4> QED
        BY <2>1, <4>1, <4>2
    <3>3. Len(ranking) \in Nat /\ MaxSelected \in Nat
      BY <1>1, <1>6
    <3> QED
      BY <3>1, <3>2, <3>3, TheLesser
  <2>2. CASE Cardinality(T) < MaxSelected
    <3>1. all = T \cup ToSet(K) /\ T \cap ToSet(K) = {}
      BY <1>6, <2>2
    <3>2. IsFiniteSet(ToSet(K)) /\ Cardinality(ToSet(K)) = Len(K)
      BY <1>8, LengthCounts
    <3>3. Len(ranking) = Cardinality(T) + Len(K)
      BY <1>1, <1>6, <3>1, <3>2, CountedApart
    <3> DEFINE x == Cardinality(T)
               y == Len(K)
    <3>4. x \in Nat /\ y \in Nat /\ x <= MaxSelected
      BY <1>6, <1>10
    <3>5. Len(chosen) = x + Lesser(MaxSelected - x, y) /\ Len(ranking) = x + y
      BY <1>12, <3>3
    <3> HIDE DEF x, y
    <3>6. x + Lesser(MaxSelected - x, y) = Lesser(MaxSelected, x + y)
      BY <1>6, <3>4 DEF Lesser
    <3> QED
      BY <3>5, <3>6
  <2> QED
    BY <1>6, <2>1, <2>2
<1>14. E # {} => Cardinality(T) < MaxSelected
  <2> SUFFICES ASSUME Cardinality(T) = MaxSelected  PROVE E = {}
    BY <1>6
  <2>1. Cardinality(E) = 0
    BY <1>6, <1>10 DEF Lesser
  <2> QED
    BY <1>10, <2>1, FS_EmptySet
<1>15. \A a \in all : before(a) = {x \in all : Before(ranking, x, a)}
  <2> SUFFICES ASSUME NEW a \in all  PROVE before(a) = {x \in all : Before(ranking, x, a)}
    OBVIOUS
  <2> DEFINE k == CHOOSE k \in DOMAIN ranking : ranking[k] = a
  <2>1. k \in 1..Len(ranking) /\ ranking[k] = a
    <3>1. \E i \in DOMAIN ranking : ranking[i] = a
      BY <1>1
    <3> QED
      BY <1>1, <3>1
  <2> HIDE DEF k
  <2>2. ASSUME NEW x \in {ranking[i] : i \in 1..(k - 1)}  PROVE x \in all /\ Before(ranking, x, a)
    <3>1. PICK i \in 1..(k - 1) : ranking[i] = x
      BY <2>2
    <3>2. i \in 1..Len(ranking) /\ i < k
      BY <1>1, <2>1
    <3> QED
      BY <1>1, <2>1, <3>1, <3>2 DEF Before
  <2>3. ASSUME NEW x \in all, Before(ranking, x, a)  PROVE x \in {ranking[i] : i \in 1..(k - 1)}
    <3>1. PICK p \in 1..Len(ranking), q \in 1..Len(ranking) :
            p < q /\ ranking[p] = x /\ ranking[q] = a
      BY <2>3 DEF Before
    <3>2. q = k
      BY <1>1, <2>1, <3>1 DEF IsInjective
    <3>3. p \in 1..(k - 1)
      BY <1>1, <3>1, <3>2
    <3> QED
      BY <3>1, <3>3
  <2>4. before(a) = {ranking[i] : i \in 1..(k - 1)}
    BY DEF k
  <2> QED
    BY <2>2, <2>3, <2>4
<1> DEFINE recruits == {a \in all \cap Recruitment :
                          Cardinality(before(a) \cap Recruitment) < Lesser(MinRecruitment, MaxSelected)}
           locals == {a \in all \cap Domestic : Cardinality(before(a) \cap Domestic)
                        < Lesser(MinDomestic, MaxSelected - Cardinality(recruits))}
<1> HIDE DEF all, before
<1>16. recruits = Recruits(ranking)
  <2>1. \A a \in all : before(a) \cap Recruitment = {x \in all \cap Recruitment : Before(ranking, x, a)}
    BY <1>15
  <2>2. recruits = {a \in all \cap Recruitment :
                      Cardinality({x \in all \cap Recruitment : Before(ranking, x, a)})
                        < Lesser(MinRecruitment, MaxSelected)}
    BY <2>1
  <2> QED
    BY <2>2 DEF Recruits, all
<1> HIDE DEF recruits
<1>17. locals = Locals(ranking)
  <2>1. \A a \in all : before(a) \cap Domestic = {x \in all \cap Domestic : Before(ranking, x, a)}
    BY <1>15
  <2>2. locals = {a \in all \cap Domestic :
                    Cardinality({x \in all \cap Domestic : Before(ranking, x, a)})
                      < Lesser(MinDomestic, MaxSelected - Cardinality(recruits))}
    BY <2>1
  <2> QED
    BY <1>16, <2>2 DEF Locals, all
<1> HIDE DEF locals
<1>18. recruits \cup locals = R
  BY <1>2, <1>16, <1>17
<1>19. ASSUME NEW b \in S \ R, NEW a \in before(b) \ S  PROVE a \in AI /\ b \notin AI
  <2>1. a \in all /\ b \in all /\ Before(ranking, a, b) /\ a \notin T /\ a \notin E
    BY <1>11, <1>15, <1>19
  <2>2. CASE b \in T
    BY <1>7, <1>19, <2>1, <2>2
  <2>3. CASE b \in E
    <3>1. a \in ToSet(K) /\ b \in ToSet(K)
      BY <1>6, <1>10, <1>14, <2>1, <2>3
    <3>2. Before(K, a, b)
      BY <1>8, <2>1, <3>1, OrderIsShared
    <3> QED
      BY <1>10, <2>1, <2>3, <3>2
  <2> QED
    BY <1>11, <1>19, <2>2, <2>3
<1>20. \/ Cardinality(S \cap AI) <= Greater(MaxAI, Cardinality(R \cap AI))
       \/ all \ AI \subseteq S
  <2>1. CASE Cardinality(T) < MaxSelected
    BY <1>6, <1>11, <2>1
  <2>2. CASE E = {}
    <3>1. S = T
      BY <1>11, <2>2
    <3> QED
      BY <1>7, <3>1
  <2> QED
    BY <1>14, <2>1, <2>2
<1>21. R \subseteq S
  BY <1>6, <1>11
<1> DEFINE free == S \ (recruits \cup locals)
<1>22. /\ chosen = Those(ranking, S) /\ Len(chosen) = Lesser(MaxSelected, Len(ranking))
       /\ recruits \cup locals \subseteq S
       /\ \A b \in free : \A a \in before(b) \ S : a \in AI /\ b \notin AI
       /\ \/ Cardinality(S \cap AI) <= Greater(MaxAI, Cardinality((recruits \cup locals) \cap AI))
          \/ all \ AI \subseteq S
  BY <1>11, <1>13, <1>18, <1>19, <1>20, <1>21
<1> QED
  BY <1>22 DEF BalancedSelection, chosen, all, before, recruits, locals

(* A ranking lists events, each once.                                      *)
LEMMA InjectiveRankings ==
  ASSUME NEW ranking \in Rankings
  PROVE  ranking \in Seq(Events) /\ IsInjective(ranking)
<1>1. PICK S \in SUBSET Events : ranking \in SetToSeqs(S)
  BY DEF Rankings
<1> DEFINE D == 1..Cardinality(S)
<1>2. ranking \in [D -> S] /\ \A i, j \in D : i # j => ranking[i] # ranking[j]
  BY <1>1 DEF SetToSeqs
<1>3. IsFiniteSet(S) /\ Cardinality(S) \in Nat
  <2>1. ByWeight \in Seq(Events)
    BY Limits
  <2>2. IsFiniteSet(Events)
    BY <2>1, ListsAreFinite DEF Events
  <2> QED
    BY <1>1, <2>2, FS_Subset, FS_CardinalityType
<1>4. ranking \in Seq(S)
  BY <1>2, <1>3
<1> QED
  BY <1>2, <1>4 DEF IsInjective

(* A bounded sequence that is not empty is a sequence.                     *)
LEMMA ShortSequences ==
  ASSUME NEW T, NEW n, NEW s \in SeqOf(T, n) \ {<<>>}
  PROVE  s \in Seq(T) /\ s # <<>>
BY DEF SeqOf

(* Every choice of the editorial selection keeps its bounds, for any       *)
(* events, quotas and budget.                                              *)
THEOREM SelectionsKeepTheirBounds == SelectionKeepsItsBounds
<1>1. FairSets = SUBSET Events
  <2>1. \A events \in SUBSET Events : FairCandidates(events)
    BY CandidatesAreFair
  <2> QED
    BY <2>1 DEF FairSets
<1>2. BalancedRanks = Rankings
  <2>1. \A ranking \in Rankings : BalancedSelection(ranking)
    <3>1. ASSUME NEW ranking \in Rankings  PROVE BalancedSelection(ranking)
      <4>1. ranking \in Seq(Events) /\ IsInjective(ranking)
        BY InjectiveRankings
      <4> QED
        BY <4>1, SelectionsAreBalanced
    <3> QED
      BY <3>1
  <2> QED
    BY <2>1 DEF BalancedRanks
<1>3. SpreadSources = Sources
  <2>1. \A source \in Sources : SpreadEvidence(source)
    <3>1. ASSUME NEW source \in Sources  PROVE SpreadEvidence(source)
      <4>1. source \in Seq({"a", "b", "c"}) /\ source # <<>>
        BY ShortSequences DEF Sources
      <4> QED
        BY <4>1, EvidenceIsSpread
    <3> QED
      BY <3>1
  <2> QED
    BY <2>1 DEF SpreadSources
<1>4. FittingDossiers = Dossiers
  <2>1. \A d \in Dossiers : FittingEvidence(d)
    <3>1. ASSUME NEW d \in Dossiers  PROVE FittingEvidence(d)
      <4> DEFINE E == SeqOf(1..3, 2) \ {<<>>}
      <4>1. d \in Seq(E) /\ d # <<>>
        BY ShortSequences DEF Dossiers
      <4>2. \A e \in E : e \in Seq(Nat \ {0})
        <5>1. ASSUME NEW e \in E  PROVE e \in Seq(Nat \ {0})
          <6>1. e \in Seq(1..3)
            BY ShortSequences
          <6> QED
            BY <6>1
        <5> QED
          BY <5>1
      <4> HIDE DEF E
      <4>3. d \in Seq(Seq(Nat \ {0})) /\ Len(d) >= 1
        BY <4>1, <4>2
      <4> QED
        BY <4>3, BudgetsAreKept
    <3> QED
      BY <3>1
  <2> QED
    BY <2>1 DEF FittingDossiers
<1> QED
  BY <1>1, <1>2, <1>3, <1>4 DEF SelectionKeepsItsBounds

===============================================================================
