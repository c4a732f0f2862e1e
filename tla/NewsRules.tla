------------------------------ MODULE NewsRules ------------------------------
(***************************************************************************)
(* The deterministic rules of news processing: which articles are          *)
(* eligible, which of them repeat another one, and which report the same   *)
(* event.                                                                  *)
(*                                                                         *)
(* An article is the number of its row, one per normalized URL.  A rule    *)
(* reads rows r, a function of the articles: the source, the publication   *)
(* day and the text of each.  Title, language and what a text resembles    *)
(* are constants of the instance; the cosine of two articles depends on    *)
(* the whole corpus of a run and is therefore an input, any symmetric      *)
(* relation.                                                               *)
(***************************************************************************)
EXTENDS Integers, FiniteSets, SequencesExt

CONSTANTS
  Articles,        \* the row numbers
  Title,           \* [Articles -> normalized titles]
  Language,        \* [Articles -> languages]
  Texts, NoText,   \* normalized bodies, and the absence of one
  Length,          \* [Texts -> their length]
  NearTexts,       \* pairs {s, t} of texts within the Hamming or Jaccard bound
  MinLength,       \* min_content_length
  Sources,
  Priority,        \* [Sources -> source priority]
  MaxAge,          \* [Sources -> freshness window, in days]
  TitleWindow, NearWindow, ClusterWindow

ASSUME RulesConstantsOK ==
  /\ Articles \subseteq Nat \ {0} /\ IsFiniteSet(Articles)
  /\ NoText \notin Texts
  /\ Length \in [Texts -> Nat]
  /\ Priority \in [Sources -> Nat] /\ MaxAge \in [Sources -> Nat]
  /\ NearTexts \subseteq SUBSET Texts
  /\ {MinLength, TitleWindow, NearWindow, ClusterWindow} \subseteq Nat

Size(r, a) == IF r[a].text = NoText THEN 0 ELSE Length[r[a].text]

-----------------------------------------------------------------------------
\* Filtering.

\* minimum is the age a caller asks for at least; 0 asks for nothing.
WideEnough(source, minimum) == IF minimum > MaxAge[source] THEN minimum ELSE MaxAge[source]

FilterReason(r, a, now, minimum) ==
  IF r[a].text = NoText THEN "MISSING_CONTENT"
  ELSE IF r[a].published < now - WideEnough(r[a].source, minimum) THEN "PUBLISHED_TOO_OLD"
  ELSE IF Size(r, a) < MinLength THEN "CONTENT_TOO_SHORT"
  ELSE "none"

-----------------------------------------------------------------------------
\* The quality order, and duplicates.

QualityKey(r, a) == <<-Priority[r[a].source], -Size(r, a), -r[a].published, a>>

Precedes(x, y) ==
  \E i \in DOMAIN x : x[i] < y[i] /\ \A j \in 1..(i - 1) : x[j] = y[j]

Better(r, a, b) == Precedes(QualityKey(r, a), QualityKey(r, b))

Best(r, S) == CHOOSE a \in S : \A b \in S \ {a} : Better(r, a, b)

Within(r, a, b, window) ==
  /\ r[a].published - r[b].published <= window
  /\ r[b].published - r[a].published <= window

\* The best article wins and those that are the same to the pass lose to it, then the best
\* of the rest wins: an article is kept if no better one is kept that is the same.
Kept(r, S, same) ==
  CHOOSE K \in SUBSET S :
    \A a \in S : a \in K <=> \A w \in K : {w, a} \in same => ~ Better(r, w, a)

\* d is a decision: the articles still primary, and of which article every other one is a
\* duplicate.
Pass(r, d, same) ==
  LET kept       == Kept(r, d.primary, same)
      Winners(a) == {w \in kept : {w, a} \in same /\ Better(r, w, a)}
  IN  [primary |-> kept,
       of |-> d.of \union {<<a, Best(r, Winners(a))>> : a \in d.primary \ kept}]

\* The rows of one run differ in their URL, so the pass over URL hashes never
\* finds anything.
AsPairs(matches) == {{p[1], p[2]} : p \in matches}

SameBody(r, S) == AsPairs({p \in S \X S : r[p[1]].text = r[p[2]].text})

SameTitle(r, S) ==
  AsPairs({p \in S \X S : Title[p[1]] = Title[p[2]] /\ Within(r, p[1], p[2], TitleWindow)})

NearBody(r, S) ==
  AsPairs({p \in S \X S : /\ {r[p[1]].text, r[p[2]].text} \in NearTexts
                          /\ Language[p[1]] = Language[p[2]]
                          /\ Within(r, p[1], p[2], NearWindow)})

Deduplicated(r, S) ==
  LET bodies == Pass(r, [primary |-> S, of |-> {}], SameBody(r, S))
      titles == Pass(r, bodies, SameTitle(r, S))
  IN  Pass(r, titles, NearBody(r, S))

-----------------------------------------------------------------------------
\* Events.

Edges(r, similar) ==
  {e \in similar : \A a, b \in e : Language[a] = Language[b] /\ Within(r, a, b, ClusterWindow)}

\* What lies in every set that holds a and all that its members have an edge to.
Reached(edges, a, S) ==
  {b \in S : \A X \in SUBSET S :
     a \in X /\ (\A c \in X, e \in S : {c, e} \in edges => e \in X) => b \in X}

Components(r, S, similar) ==
  LET edges == Edges(r, similar) IN {Reached(edges, a, S) : a \in S}

\* A plausible slip: the guard of the chains forgotten.
Unguarded(r, C, similar) == {[members |-> C, lead |-> Best(r, C)]}

\* The representative keeps the articles that resemble it; whatever only a
\* chain of other articles had joined to it becomes an event of its own.  Here
\* the cosine alone counts: the windows apply to the edges of the graph.
Guarded(r, C, similar) ==
  LET lead == Best(r, C)
      kept == {a \in C : a = lead \/ {a, lead} \in similar}
  IN  {[members |-> kept, lead |-> lead]}
      \union {[members |-> {a}, lead |-> a] : a \in C \ kept}

Clusters(r, S, similar) == UNION {Guarded(r, C, similar) : C \in Components(r, S, similar)}

=============================================================================
