-------------------------------- MODULE Loops --------------------------------
(***************************************************************************)
(* The loops of the code: a pass over a sequence that carries a value, and *)
(* the few passes that several algorithms share.                           *)
(*                                                                         *)
(* The body of a loop is a function of the value carried so far and of the *)
(* next item, so that what holds of every loop can be said once.           *)
(***************************************************************************)
EXTENDS Naturals, Sequences, FiniteSets, SequencesExt

\* for x in s: value = body[value][x]
Loop(body, start, s) ==
  LET after[k \in 0..Len(s)] == IF k = 0 THEN start ELSE body[after[k - 1]][s[k]]
  IN  after[Len(s)]

Lesser(m, n)  == IF m < n THEN m ELSE n
Greater(m, n) == IF m > n THEN m ELSE n

FirstOf(s, n) == SubSeq(s, 1, Lesser(n, Len(s)))

\* The members of S that s lists, in its order.
Those(s, S) ==
  Loop([kept \in Seq(ToSet(s)) |-> [x \in ToSet(s) |-> IF x \in S THEN Append(kept, x) ELSE kept]], <<>>, s)

\* What s lists, each once, by its first place.
Distinct(s) ==
  Loop([kept \in Seq(ToSet(s)) |-> [x \in ToSet(s) |-> IF x \in ToSet(kept) THEN kept ELSE Append(kept, x)]],
       <<>>, s)

=============================================================================
