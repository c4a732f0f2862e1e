---------------------------- MODULE EventSelection ----------------------------
(***************************************************************************)
(* The deterministic half of DailyCast's editorial work: which events the  *)
(* model is asked to score, which of the scored ones make the episode,     *)
(* which articles of an event serve as evidence, and how the excerpts are  *)
(* cut down to the budget of one request.                                  *)
(*                                                                         *)
(* A ranking is the sequence of events in the order of the scores; an      *)
(* excerpt is its length.                                                  *)
(***************************************************************************)
EXTENDS Loops

CONSTANTS
  ByWeight,        \* every event, by the deterministic pre-ranking
  Recruitment, Domestic, AI,  \* sets of events, by source and by topic
  MaxCandidates, MaxSelected, MaxAI, MinDomestic, MinRecruitment,
  Excerpts,        \* [events -> the lengths of their excerpts, representative first]
  MaxSources,      \* max_sources_per_event
  MaxEvidence,     \* max_total_evidence_chars
  MinPublishable   \* min_publishable_events

Events == ToSet(ByWeight)

ASSUME SelectionConstantsOK ==
  /\ ByWeight \in Seq(Events) /\ IsInjective(ByWeight)
  /\ Recruitment \cup Domestic \cup AI \subseteq Events
  /\ {MaxCandidates, MaxSelected, MaxAI, MaxSources, MaxEvidence, MinPublishable} \subseteq Nat \ {0}
  /\ MinDomestic \in Nat /\ MinRecruitment \in Nat
  /\ DOMAIN Excerpts = Events
  /\ \A e \in Events : Excerpts[e] \in Seq(Nat \ {0}) /\ Excerpts[e] # <<>>

-----------------------------------------------------------------------------
\* The candidates.  A day with a recruitment event always shows one to the model.

BoundedCandidates(events) ==
  LET ranked == Those(ByWeight, events)
      kept   == ToSet(FirstOf(Those(ranked, Recruitment), 1))
  IN  kept \cup ToSet(FirstOf(Those(ranked, events \ kept), MaxCandidates - Cardinality(kept)))

-----------------------------------------------------------------------------
\* The selection.  Places are reserved first; topical AI events are capped as long as
\* anything else is left.

Reserved(ranking) ==
  LET recruits == ToSet(FirstOf(Those(ranking, Recruitment), Lesser(MinRecruitment, MaxSelected)))
      locals   == FirstOf(Those(ranking, Domestic),
                          Lesser(MinDomestic, MaxSelected - Cardinality(recruits)))
  IN  recruits \cup ToSet(locals)

TakeOrSkip(s, e) ==
  CASE Cardinality(s.taken) >= MaxSelected \/ e \in s.taken -> s
    [] Cardinality(s.taken) < MaxSelected /\ e \notin s.taken ->
         IF e \in AI /\ Cardinality(s.taken \cap AI) >= MaxAI
         THEN [s EXCEPT !.skipped = Append(@, e)]
         ELSE [s EXCEPT !.taken = @ \cup {e}]

Scan(ranking) ==
  Loop([s \in [taken : SUBSET Events, skipped : Seq(Events)] |-> [e \in Events |-> TakeOrSkip(s, e)]],
       [taken |-> Reserved(ranking), skipped |-> <<>>], ranking)

SelectEventIds(ranking) ==
  LET scan == Scan(ranking)
      rest == FirstOf(scan.skipped, MaxSelected - Cardinality(scan.taken))
  IN  Those(ranking, scan.taken \cup ToSet(rest))

-----------------------------------------------------------------------------
\* The evidence of one event: source[i] is the source of its i-th article, the
\* representative first and the others by quality.

Others(source) == [i \in 1..(Len(source) - 1) |-> i + 1]

Chosen(source) == [chosen : Seq(DOMAIN source), full : BOOLEAN]

\* The limit is looked at only after an article was considered, so a limit of one lets
\* the first other source in, and after it every further source.
Consider(s, i, fresh) ==
  IF s.full THEN s
  ELSE LET t == IF fresh THEN Append(s.chosen, i) ELSE s.chosen
       IN  [chosen |-> t, full |-> Len(t) = MaxSources]

Spread(source) ==
  Loop([s \in Chosen(source) |-> [i \in DOMAIN source |->
          Consider(s, i, source[i] \notin {source[k] : k \in ToSet(s.chosen)})]],
       [chosen |-> <<1>>, full |-> FALSE], Others(source))

EvidenceArticles(source) ==
  Loop([s \in Chosen(source) |-> [i \in DOMAIN source |-> Consider(s, i, i \notin ToSet(s.chosen))]],
       Spread(source), Others(source)).chosen

-----------------------------------------------------------------------------
\* The evidence budget.  A dossier is the sequence of the lengths of its excerpts; the
\* excerpts of the first n dossiers are the slots <<dossier, excerpt>>, in this order.

Numbers(n) == [i \in 1..n |-> i]

Slots(dossiers, n) ==
  Loop([s \in Seq(Nat \X Nat) |-> [i \in DOMAIN dossiers |-> s \o [j \in 1..Len(dossiers[i]) |-> <<i, j>>]]],
       <<>>, Numbers(n))

ExcerptSizes(dossiers) ==
  [p \in ToSet(Slots(dossiers, Len(dossiers))) |-> dossiers[p[1]][p[2]]]

Total(length, slots) ==
  Loop([n \in Nat |-> [p \in DOMAIN length |-> n + length[p]]], 0, slots)

\* A pass over slots that rewrites the lengths.
Pass(length, slots, Rewrite(_, _)) ==
  Loop([f \in [DOMAIN length -> Nat] |-> [p \in DOMAIN length |-> Rewrite(f, p)]], length, slots)

\* Every excerpt but the representatives', the last of the last event first.
TrimNonrepresentatives(length, slots) ==
  LET Cut(f, p) ==
        LET excess == Total(f, slots) - MaxEvidence
        IN  IF p[2] = 1 \/ excess <= 0 THEN f ELSE [f EXCEPT ![p] = @ - Lesser(@ - 1, excess)]
  IN  Pass(length, Reverse(slots), Cut)

\* Shares of the budget, at least one character each, corrected one by one: downwards from
\* the last excerpt as often as needed, or upwards from the first in a single pass.
Share(length, slots) ==
  [p \in DOMAIN length |-> Greater(1, (length[p] * MaxEvidence) \div Total(length, slots))]

Shrink(share, slots) ==
  LET Less(f, p) == IF f[p] > 1 /\ Total(f, slots) > MaxEvidence THEN [f EXCEPT ![p] = @ - 1] ELSE f
  IN  Pass(share, Reverse(slots), Less)

\* The excess is at most one character per excerpt, and each turn takes one away.
ShrinkAll(share, slots) ==
  Loop([f \in [DOMAIN share -> Nat] |-> [p \in DOMAIN share |-> Shrink(f, slots)]], share, slots)

Grow(share, length, slots) ==
  LET More(f, p) == IF f[p] < length[p] /\ Total(f, slots) < MaxEvidence THEN [f EXCEPT ![p] = @ + 1] ELSE f
  IN  Pass(share, slots, More)

TrimAllProportionally(length, slots) ==
  IF MaxEvidence < Len(slots) THEN length
  ELSE Grow(ShrinkAll(Share(length, slots), slots), length, slots)

InsufficientEvidence == 0

\* One turn of the loop.  What was trimmed stays trimmed when an event is dropped.
FitOnce(dossiers, s) ==
  LET slots == Slots(dossiers, s.events)
      fits(f) == Total(f, slots) <= MaxEvidence
      less   == TrimNonrepresentatives(s.length, slots)
      even   == IF fits(less) THEN less ELSE TrimAllProportionally(less, slots)
  IN  CASE fits(s.length) -> s
        [] ~ fits(s.length) ->
             [events |-> CASE fits(even) -> s.events
                           [] ~ fits(even) -> IF s.events <= MinPublishable THEN InsufficientEvidence
                                              ELSE s.events - 1,
              length |-> even]

FitEvery(dossiers, Fit(_, _)) ==
  LET length == ExcerptSizes(dossiers)
  IN  Loop([s \in [events : 0..Len(dossiers), length : [DOMAIN length -> Nat]] |->
              [turn \in 1..Len(dossiers) |-> Fit(dossiers, s)]],
           [events |-> Len(dossiers), length |-> length], Numbers(Len(dossiers)))

DropFirst(dossiers) ==                    \* mutant: an event is dropped before anything is cut
  LET Drop(d, s) ==
        IF Total(s.length, Slots(d, s.events)) > MaxEvidence /\ s.events > MinPublishable
        THEN [s EXCEPT !.events = @ - 1] ELSE FitOnce(d, s)
  IN  FitEvery(dossiers, Drop)

FitTotalEvidence(dossiers) == FitEvery(dossiers, FitOnce)

\* The events, in their order, whose evidence fits; none when too few do.
BuildDossiers(events) ==
  IF Len(events) < MinPublishable THEN <<>>
  ELSE FirstOf(events, FitTotalEvidence([i \in DOMAIN events |-> Excerpts[events[i]]]).events)

-----------------------------------------------------------------------------
\* What the operators above compute, said another way.

\* As many as allowed, the heaviest, with one place kept for a recruitment event.
FairCandidates(events) ==
  LET kept == BoundedCandidates(events)
      Heavier(a, b) == \E i, j \in DOMAIN ByWeight : i < j /\ ByWeight[i] = a /\ ByWeight[j] = b
  IN  /\ kept \subseteq events /\ Cardinality(kept) = Lesser(MaxCandidates, Cardinality(events))
      /\ events \cap Recruitment # {} => kept \cap Recruitment # {}
      /\ \A a \in events \ kept, b \in kept :
           Heavier(a, b) => b \in Recruitment /\ kept \cap Recruitment = {b}

\* The episode is full when it can be; reserved places are held by the best of their
\* kind; a better event is passed over for a worse one only because of the AI cap, and
\* the cap gives way only to an episode that would stay short.
BalancedSelection(ranking) ==
  LET chosen    == SelectEventIds(ranking)
      all       == ToSet(ranking)
      S         == ToSet(chosen)
      before(a) == {ranking[i] : i \in 1..((CHOOSE k \in DOMAIN ranking : ranking[k] = a) - 1)}
      recruits  == {a \in all \cap Recruitment :
                      Cardinality(before(a) \cap Recruitment) < Lesser(MinRecruitment, MaxSelected)}
      locals    == {a \in all \cap Domestic : Cardinality(before(a) \cap Domestic)
                      < Lesser(MinDomestic, MaxSelected - Cardinality(recruits))}
      free      == S \ (recruits \cup locals)
  IN  /\ chosen = Those(ranking, S) /\ Len(chosen) = Lesser(MaxSelected, Len(ranking))
      /\ recruits \cup locals \subseteq S
      /\ \A b \in free : \A a \in before(b) \ S : a \in AI /\ b \notin AI
      /\ \/ Cardinality(S \cap AI) <= Greater(MaxAI, Cardinality((recruits \cup locals) \cap AI))
         \/ all \ AI \subseteq S

\* The representative always serves; within a limit of at least two, no second article of
\* a source serves while another source has none, and no place stays empty.
SpreadEvidence(source) ==
  LET chosen  == EvidenceArticles(source)
      heard   == {source[i] : i \in ToSet(chosen)}
      sources == ToSet(source)
  IN  /\ chosen[1] = 1 /\ IsInjective(chosen) /\ ToSet(chosen) \subseteq DOMAIN source
      /\ MaxSources > 1 =>
           /\ Len(chosen) = Lesser(MaxSources, Len(source))
           /\ Cardinality(heard) = Lesser(MaxSources, Cardinality(sources))

\* The budget is kept and no excerpt is lost; as many events stay as can have one
\* character per excerpt; if all stay no character is given away, and a representative
\* is cut only when all the other excerpts are down to one.
FittingEvidence(dossiers) ==
  LET fit       == FitTotalEvidence(dossiers)
      length    == ExcerptSizes(dossiers)
      slots(n) == Slots(dossiers, n)
      all       == slots(Len(dossiers))
      enough    == {n \in Lesser(MinPublishable, Len(dossiers))..Len(dossiers) :
                      Len(slots(n)) <= MaxEvidence}
      shortest  == [p \in ToSet(all) |-> IF p[2] = 1 THEN length[p] ELSE 1]
  IN  IF enough = {} THEN fit.events = InsufficientEvidence
      ELSE /\ fit.events \in enough /\ \A n \in enough : n <= fit.events
           /\ \A p \in ToSet(slots(fit.events)) : fit.length[p] \in 1..length[p]
           /\ Total(fit.length, slots(fit.events)) <= MaxEvidence
           /\ fit.events = Len(dossiers) =>
                Total(fit.length, all) = Lesser(MaxEvidence, Total(length, all))
           /\ (\E p \in ToSet(slots(fit.events)) : p[2] = 1 /\ fit.length[p] < length[p]) =>
                Total(shortest, all) > MaxEvidence

\* Small inputs: every ranking, up to three dossiers of one or two short excerpts, up to
\* four articles of three sources.
Rankings == UNION {SetToSeqs(S) : S \in SUBSET Events}
Dossiers == SeqOf(SeqOf(1..3, 2) \ {<<>>}, 3) \ {<<>>}
Sources  == SeqOf({"a", "b", "c"}, 4) \ {<<>>}

FairSets        == {events \in SUBSET Events : FairCandidates(events)}
BalancedRanks   == {ranking \in Rankings : BalancedSelection(ranking)}
SpreadSources   == {source \in Sources : SpreadEvidence(source)}
FittingDossiers == {dossiers \in Dossiers : FittingEvidence(dossiers)}

SelectionKeepsItsBounds ==
  /\ FairSets = SUBSET Events /\ BalancedRanks = Rankings
  /\ SpreadSources = Sources /\ FittingDossiers = Dossiers

=============================================================================
