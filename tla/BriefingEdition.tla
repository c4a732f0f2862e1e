--------------------------- MODULE BriefingEdition ---------------------------
(***************************************************************************)
(* What one edition of the briefing is made of: the candidate pool of a    *)
(* category, the audit of what the model wrote, the repair of a short      *)
(* selection, the degraded title list, and the one message that has to fit *)
(* the byte budget of the group robot.                                     *)
(*                                                                         *)
(* An article stands for its link.  Headlines and prose are left out; what *)
(* remains of them is their size and whether a title can head an item.     *)
(***************************************************************************)
EXTENDS Loops

CONSTANTS
  CategoryOrder,  \* the categories, in the order of CATEGORY_TITLES
  ByRecency,      \* every article, the freshest first
  Category,       \* [articles -> categories]
  Outlet,         \* [articles -> publishers], by the host of the link
  Untitled,       \* articles whose title no item may carry
  Invented,       \* a link the model made up
  Broken,         \* the answer of a chain that fails, twice malformed included
  MaxItems,       \* MAX_BRIEFING_ITEMS
  MaxPerOutlet,   \* editorial_max_candidates_per_publisher
  PoolLimit,      \* editorial_candidate_limit
  Bytes,          \* [articles -> the size of its line in the message]
  HeadingBytes, TitleBytes, FocusBytes,
  MaxBytes        \* RENDER_BYTE_BUDGET

Categories == ToSet(CategoryOrder)
Articles   == ToSet(ByRecency)

ASSUME EditionConstantsOK ==
  /\ CategoryOrder \in Seq(Categories) /\ ByRecency \in Seq(Articles)
  /\ IsInjective(CategoryOrder) /\ IsInjective(ByRecency)
  /\ Category \in [Articles -> Categories]
  /\ Bytes \in [Articles -> Nat] /\ Untitled \subseteq Articles
  /\ Invented \notin Articles /\ Categories \cap Articles = {}
  /\ {MaxItems, MaxPerOutlet, PoolLimit} \subseteq Nat \ {0}
  /\ {HeadingBytes, TitleBytes, FocusBytes, MaxBytes} \subseteq Nat
  /\ TitleBytes + FocusBytes <= MaxBytes

-----------------------------------------------------------------------------
\* The candidate pool.

Candidates(found, c) == Those(ByRecency, {a \in found : Category[a] = c})

Publishers(s) == Distinct([i \in DOMAIN s |-> Outlet[s[i]]])

Queue(s, o) == FirstOf(Those(s, {a \in ToSet(s) : Outlet[a] = o}), MaxPerOutlet)

\* The i-th turn around the publishers, in the order of their freshest article.
Turn(pool, s, i) ==
  Loop([p \in Seq(Articles) |-> [o \in ToSet(Publishers(s)) |->
          IF Len(p) < PoolLimit /\ i <= Len(Queue(s, o)) THEN Append(p, Queue(s, o)[i]) ELSE p]],
       pool, Publishers(s))

EditorialPool(found, c) ==
  Loop([pool \in Seq(Articles) |-> [i \in 1..MaxPerOutlet |-> Turn(pool, Candidates(found, c), i)]],
       <<>>, [i \in 1..MaxPerOutlet |-> i])

-----------------------------------------------------------------------------
\* The result of one category.

Target(pool) == Lesser(Len(pool), MaxItems)

\* Only links of the pool, each once.
Audit(links, pool) == FirstOf(Distinct(Those(links, ToSet(pool))), Target(pool))

Fallback(pool) ==
  [items |-> FirstOf(Those(pool, ToSet(pool) \ Untitled), MaxItems), degraded |-> TRUE]

WholePool(pool, accepted) == pool         \* mutant: the repair sees every candidate again

Remaining(pool, accepted) == Those(pool, ToSet(pool) \ ToSet(accepted))

\* The repair may only add to what the first answer left.
Repaired(pool, accepted, repair) ==
  LET missing == Target(pool) - Len(accepted)
      added   == FirstOf(Audit(repair, Remaining(pool, accepted)), missing)
  IN  Audit(accepted \o added, pool)

GenerateResult(pool, answer, repair) ==
  IF answer = Broken THEN Fallback(pool)
  ELSE LET accepted == Audit(answer, pool)
       IN  CASE Len(accepted) = Target(pool) -> [items |-> accepted, degraded |-> FALSE]
             [] Len(accepted) < Target(pool) /\ repair # Broken ->
                  [items |-> Repaired(pool, accepted, repair), degraded |-> FALSE]
             [] Len(accepted) < Target(pool) /\ repair = Broken ->
                  IF accepted = <<>> THEN Fallback(pool)
                  ELSE [items |-> accepted, degraded |-> FALSE]

\* The schema admits at most MaxItems items and any link.
Answers(pool) == BoundedSeq(ToSet(pool) \cup {Invented}, MaxItems) \cup {Broken}

Pools == {EditorialPool(found, c) : found \in SUBSET Articles, c \in Categories}

Results == [pool \in Pools |-> {GenerateResult(pool, a, r) : a, r \in Answers(pool)}]

-----------------------------------------------------------------------------
\* The message.

Messages == [lines : Seq(Categories \cup Articles), bytes : Nat]

\* A line that does not fit is left out, never cut.
AddLine(m, line, bytes) ==
  IF m.bytes + bytes <= MaxBytes
  THEN [lines |-> Append(m.lines, line), bytes |-> m.bytes + bytes]
  ELSE m

AddSection(m, c, items) ==
  Loop([n \in Messages |-> [a \in Articles |-> AddLine(n, a, Bytes[a])]],
       AddLine(m, c, HeadingBytes), items)

\* items: [categories -> sequences]; a category without a result has none.
Message(items, focus) ==
  Loop([m \in Messages |-> [c \in Categories |->
          IF items[c] = <<>> THEN m ELSE AddSection(m, c, items[c])]],
       [lines |-> <<>>, bytes |-> TitleBytes + IF focus THEN FocusBytes ELSE 0], CategoryOrder)

-----------------------------------------------------------------------------
\* What the operators above compute, said another way.

From(pool, o) == {a \in ToSet(pool) : Outlet[a] = o}

OfOutlet(found, c, o) == {a \in found : Category[a] = c /\ Outlet[a] = o}

Older(a, b) == \E i, j \in DOMAIN ByRecency : i > j /\ ByRecency[i] = a /\ ByRecency[j] = b

\* The pool is full unless it has the whole share of each publisher, holds the freshest of
\* each, and gives none a second turn before the others had their first.
BalancedPool(found, c) ==
  LET pool    == EditorialPool(found, c)
      outlets == {Outlet[a] : a \in Articles}
      share   == [o \in outlets |-> Lesser(MaxPerOutlet, Cardinality(OfOutlet(found, c, o)))]
      held    == [o \in outlets |-> Cardinality(From(pool, o))]
  IN  /\ IsInjective(pool) /\ Len(pool) <= PoolLimit /\ (Len(pool) < PoolLimit => held = share)
      /\ \A o \in outlets :
           /\ From(pool, o) \subseteq OfOutlet(found, c, o) /\ held[o] <= share[o]
           /\ \A a \in From(pool, o), b \in OfOutlet(found, c, o) \ From(pool, o) : Older(b, a)
           /\ \A p \in outlets : held[o] > held[p] + 1 => held[p] = share[p]

\* Every item is a link of the pool, once; nothing verified is dropped while there is
\* room; only a failure of the model makes a title list.
VerifiedResult(pool, a, r) ==
  LET result   == GenerateResult(pool, a, r)
      links(s) == IF s = Broken THEN {} ELSE ToSet(s) \cap ToSet(pool)
  IN  /\ IsInjective(result.items) /\ ToSet(result.items) \subseteq ToSet(pool)
      /\ Len(result.items) <= MaxItems
      /\ result.degraded <=> a = Broken \/ (links(a) = {} /\ r = Broken)
      /\ IF result.degraded THEN ToSet(result.items) \cap Untitled = {}
         ELSE Len(result.items) = Lesser(MaxItems, Cardinality(links(a) \cup links(r)))
              /\ \A u \in links(a) : u \in ToSet(result.items) \/ Len(result.items) = MaxItems

\* An empty pool is never shown to the model.
VerifiedPools == {pool \in Pools : pool = <<>> \/ \A a, r \in Answers(pool) : VerifiedResult(pool, a, r)}

BalancedSelections == {found \in SUBSET Articles : \A c \in Categories : BalancedPool(found, c)}

\* No message is too long, none repeats a line; a lone item that fits is never left out,
\* and where headings are no longer than items, a link stands under its own heading.
FittingMessage(items, focus) ==
  LET message == Message(items, focus)
      UnderHeading(i) ==
        \E j \in 1..(i - 1) : /\ message.lines[j] = Category[message.lines[i]]
                              /\ \A k \in (j + 1)..i : message.lines[k] \notin Categories
  IN  /\ message.bytes <= MaxBytes /\ IsInjective(message.lines)
      /\ \A c \in Categories : \A a \in ToSet(items[c]) :
           message.bytes + Bytes[a] <= MaxBytes => a \in ToSet(message.lines)
      /\ (\A a \in Articles : HeadingBytes <= Bytes[a]) =>
           \A i \in DOMAIN message.lines : message.lines[i] \in Articles => UnderHeading(i)

ItemsOf(pool) == IF pool = <<>> THEN {<<>>} ELSE {r.items : r \in Results[pool]}

ResultsOf(found) ==
  {items \in [Categories -> UNION {ItemsOf(pool) : pool \in Pools}] :
     \A c \in Categories : items[c] \in ItemsOf(EditorialPool(found, c))}

FittingSelections ==
  {found \in SUBSET Articles :
     \A items \in ResultsOf(found), focus \in BOOLEAN : FittingMessage(items, focus)}

=============================================================================
