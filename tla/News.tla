-------------------------------- MODULE News --------------------------------
(***************************************************************************)
(* From the feeds to the candidate events: source collection, extraction   *)
(* and the filter, duplicate and cluster checkpoints of the pipeline, over *)
(* article rows that the daily briefing also collects, extracts and        *)
(* filters.                                                                *)
(*                                                                         *)
(* The worker and the briefing are coroutines of one event loop.  A source *)
(* and a page are awaited; between the end of the last extraction and the  *)
(* first call of a model the pipeline awaits nothing, so no other          *)
(* coroutine runs there.  The process may die anywhere; the run that       *)
(* recovers it keeps the collected set and extracts again.                 *)
(***************************************************************************)
EXTENDS NewsRules

CONSTANTS
  SourceOrder,    \* the enabled sources, in the order of the repository
  Tagged,         \* those with a briefing_category
  Trackers,       \* those with a freshness window of their own
  CollectionDays, \* collection_window_hours, in days
  Lists,          \* [Sources -> articles the source may list]
  FeedText,       \* [Articles -> the body its feed entry carries, or NoText]
  FeedDate,       \* [Articles -> the day its feed entry names, or Undated]
  Undated,
  Pages,          \* what an extraction may yield: a text, and a day or Undated
  Failed,         \* or an error
  BriefingAge,    \* the least freshness the briefing asks for, in days
  LastDay, MaxBriefings, MaxCrashes  \* bounds

Days == 0..LastDay

ASSUME NewsConstantsOK ==
  /\ SourceOrder \in Seq(Sources) /\ Tagged \cup Trackers \subseteq Sources
  /\ Lists \in [Sources -> SUBSET Articles]
  /\ FeedText \in [Articles -> Texts \cup {NoText}]
  /\ Undated \notin Days /\ FeedDate \in [Articles -> Days \cup {Undated}]
  /\ Pages \subseteq [text : Texts, date : Days \cup {Undated}] /\ Failed \notin Pages
  /\ {CollectionDays, BriefingAge, LastDay, MaxBriefings, MaxCrashes} \subseteq Nat

VARIABLES
  articles,  \* [Articles -> its row]
  events,    \* [event keys -> its row]
  run,       \* the worker's run and its context
  flow,      \* the briefing's run
  lineage,   \* what a recovering run restores: nothing, or the collected set
  today, started, briefings, crashes

bounds == <<today, started, briefings, crashes>>
vars   == <<articles, events, run, flow, lineage, bounds>>

EventKeys == Days \X Articles
NoEvent   == <<>>
NoArticle == 0
NoRow     == [status |-> "none"]

Statuses ==
  {"discovered", "extracted", "extraction_failed", "eligible", "filtered", "duplicate"}

RowTypes ==
  [status : Statuses, source : Sources, text : Texts \cup {NoText}, published : Days,
   of : Articles \cup {NoArticle}, event : EventKeys \cup {NoEvent}]

Idle ==
  [at |-> "idle", left |-> <<>>, collected |-> {}, targets |-> {}, filtered |-> {},
   eligible |-> {}, primary |-> {}, of |-> {}, similar |-> {}, clusters |-> {}]

NoFlow == [at |-> "idle", left |-> <<>>, collected |-> {}, targets |-> {}]

Init ==
  /\ articles = [a \in Articles |-> NoRow]
  /\ events = [k \in EventKeys |-> NoRow]
  /\ run = Idle /\ flow = NoFlow /\ lineage = <<>>
  /\ today = 0 /\ started = FALSE /\ briefings = 0 /\ crashes = 0

Rows(ids) == {a \in ids : articles[a] # NoRow}

\* Where the worker runs without awaiting anything.
Checkpoints == {"targets", "filter", "deduplicate", "cluster"}

\* A plausible slip: the filter awaits something before duplicates are looked for.
AwaitAfterFilter == {"targets", "filter", "cluster"}

Uninterrupted == Checkpoints

LoopIsFree == run.at \notin Uninterrupted

-----------------------------------------------------------------------------
\* Sources and candidates.

EnabledSources == SelectSeq(SourceOrder, LAMBDA s : s \notin Tagged)
BriefingSources == SelectSeq(SourceOrder, LAMBDA s : s \in Tagged)

\* What SelectSeq leaves of a sequence of sources is one.
ASSUME SelectionsAreOfSources == {EnabledSources, BriefingSources} \subseteq Seq(Sources)

WindowForSource(s, days) == IF s \in Trackers THEN WideEnough(s, days) ELSE days

Candidates(s, days) ==
  {a \in Lists[s] : FeedDate[a] # Undated =>
     FeedDate[a] \in (today - WindowForSource(s, days))..today}

Created(s, a) ==
  [status |-> IF FeedText[a] = NoText THEN "discovered" ELSE "extracted",
   source |-> s, text |-> FeedText[a],
   published |-> IF FeedDate[a] = Undated THEN today ELSE FeedDate[a],
   of |-> NoArticle, event |-> NoEvent]

\* A later observation keeps the source and a body the feed no longer carries,
\* and forgets what the article had been found to be.
Merged(row, a) ==
  LET text == IF FeedText[a] = NoText THEN row.text ELSE FeedText[a]
  IN  [row EXCEPT !.text = text,
                  !.status = IF text = NoText THEN @ ELSE "extracted",
                  !.published = IF FeedDate[a] = Undated THEN @ ELSE FeedDate[a]]

Upserted(s, found) ==
  [a \in Articles |-> IF a \notin found THEN articles[a]
                      ELSE IF articles[a] = NoRow THEN Created(s, a)
                      ELSE Merged(articles[a], a)]

\* A source answers with some of its entries, the rest being refused as
\* candidates, or fails, which costs a warning and nothing else.
Collect(s, days, found) ==
  /\ found \subseteq Candidates(s, days)
  /\ articles' = Upserted(s, found)

ExtractionTargets(ids) ==
  {a \in ids : articles[a].text = NoText /\ articles[a].status \in {"discovered", "extraction_failed"}}

Extracted(row, page) ==
  IF page = Failed THEN [row EXCEPT !.status = "extraction_failed"]
  ELSE [row EXCEPT !.status = "extracted", !.text = page.text,
                   !.published = IF page.date = Undated THEN @ ELSE page.date]

-----------------------------------------------------------------------------
\* The pipeline.

Start ==
  /\ run.at = "idle" /\ lineage = <<>> /\ ~started
  /\ run' = [Idle EXCEPT !.at = "collect", !.left = EnabledSources]
  /\ started' = TRUE
  /\ UNCHANGED <<articles, events, flow, lineage, today, briefings, crashes>>

CollectSource ==
  /\ run.at = "collect" /\ run.left # <<>>
  /\ \E found \in SUBSET Lists[Head(run.left)] :
       /\ Collect(Head(run.left), CollectionDays, found)
       /\ run' = [run EXCEPT !.left = Tail(@), !.collected = @ \cup found,
                             !.at = IF Len(run.left) = 1 THEN "targets" ELSE @]
  /\ UNCHANGED <<events, flow, lineage, bounds>>

FindTargets ==
  /\ run.at = "targets"
  /\ run' = [run EXCEPT !.targets = ExtractionTargets(run.collected),
                        !.at = IF ExtractionTargets(run.collected) = {} THEN "filter" ELSE "extract"]
  /\ UNCHANGED <<articles, events, flow, lineage, bounds>>

Extract ==
  /\ run.at = "extract"
  /\ LET a == Min(run.targets)
     IN  /\ \E page \in Pages \cup {Failed} :
              articles' = [articles EXCEPT ![a] = Extracted(@, page)]
         /\ run' = [run EXCEPT !.targets = @ \ {a},
                               !.at = IF run.targets = {a} THEN "filter" ELSE @]
  /\ UNCHANGED <<events, flow, lineage, bounds>>

Eligible(ids, minimum) == {a \in ids : FilterReason(articles, a, today, minimum) = "none"}

\* Mutant: the reason the filter found is not applied, so every row it read is eligible.
ReasonsIgnored(ids, minimum) ==
  [a \in Articles |->
     IF a \notin ids THEN articles[a]
     ELSE [articles[a] EXCEPT !.status = "eligible", !.of = NoArticle, !.event = NoEvent]]

FilteredRows(ids, minimum) ==
  [a \in Articles |->
     IF a \notin ids THEN articles[a]
     ELSE [articles[a] EXCEPT
             !.status = IF a \in Eligible(ids, minimum) THEN "eligible" ELSE "filtered",
             !.of = NoArticle, !.event = NoEvent]]

Filter ==
  /\ run.at = "filter"
  /\ articles' = FilteredRows(run.collected, 0)
  /\ run' = [run EXCEPT !.eligible = Eligible(run.collected, 0),
                        !.filtered = run.collected \ Eligible(run.collected, 0),
                        !.at = "deduplicate"]
  /\ UNCHANGED <<events, flow, lineage, bounds>>

\* The duplicate and cluster checkpoints reload the rows and drop those that
\* are no longer eligible.
Loaded(ids) == {a \in ids : articles[a].status = "eligible"}

Deduplicate ==
  /\ run.at = "deduplicate"
  /\ LET d == Deduplicated(articles, Loaded(run.eligible))
     IN  /\ articles' =
              [a \in Articles |->
                 IF a \in d.primary THEN [articles[a] EXCEPT !.of = NoArticle, !.event = NoEvent]
                 ELSE IF \E w \in Articles : <<a, w>> \in d.of
                 THEN [articles[a] EXCEPT !.status = "duplicate", !.event = NoEvent,
                                          !.of = CHOOSE w \in Articles : <<a, w>> \in d.of]
                 ELSE articles[a]]
         /\ run' = [run EXCEPT !.primary = d.primary, !.of = d.of, !.at = "cluster"]
  /\ UNCHANGED <<events, flow, lineage, bounds>>

Pairs(S) == {{a, b} : a, b \in S} \ {{a} : a \in S}

EventKey(c) == <<articles[c.lead].published, Min(c.members)>>

\* An event another run has written under the same key is refreshed; articles
\* that only that run had put there keep pointing at it.
Cluster ==
  /\ run.at = "cluster"
  /\ \E similar \in SUBSET Pairs(Loaded(run.primary)) :
       LET clusters == Clusters(articles, Loaded(run.primary), similar)
           Of(a)    == CHOOSE c \in clusters : a \in c.members
       IN  /\ events' = [k \in EventKeys |->
                           IF \E c \in clusters : EventKey(c) = k
                           THEN LET c == CHOOSE c \in clusters : EventKey(c) = k
                                IN  [status |-> "candidate", lead |-> c.lead,
                                     count |-> Cardinality(c.members)]
                           ELSE events[k]]
           /\ articles' = [a \in Articles |->
                             IF a \in Loaded(run.primary)
                             THEN [articles[a] EXCEPT !.event = EventKey(Of(a))] ELSE articles[a]]
           /\ run' = [run EXCEPT !.similar = similar, !.at = "edit",
                                 !.clusters = {[key |-> EventKey(c), lead |-> c.lead,
                                                members |-> c.members] : c \in clusters}]
  /\ UNCHANGED <<flow, lineage, bounds>>

\* The editors read the events, a model call at a time.
EndRun ==
  /\ run.at = "edit" /\ run' = Idle
  /\ UNCHANGED <<articles, events, flow, lineage, bounds>>

-----------------------------------------------------------------------------
\* The briefing.

FlowStart ==
  /\ LoopIsFree /\ flow.at = "idle" /\ briefings < MaxBriefings
  /\ flow' = [NoFlow EXCEPT !.at = "collect", !.left = BriefingSources]
  /\ briefings' = briefings + 1
  /\ UNCHANGED <<articles, events, run, lineage, today, started, crashes>>

FlowCollect ==
  /\ LoopIsFree /\ flow.at = "collect" /\ flow.left # <<>>
  /\ \E found \in SUBSET Lists[Head(flow.left)] :
       /\ Collect(Head(flow.left), BriefingAge, found)
       /\ flow' = [flow EXCEPT !.left = Tail(@), !.collected = @ \cup found]
  /\ UNCHANGED <<events, run, lineage, bounds>>

\* Only what still lacks a body is fetched, all at once.
FlowFetch ==
  /\ LoopIsFree /\ flow.at = "collect" /\ flow.left = <<>>
  /\ flow' = [flow EXCEPT !.targets = ExtractionTargets(flow.collected), !.at = "extract"]
  /\ UNCHANGED <<articles, events, run, lineage, bounds>>

FlowExtract ==
  /\ LoopIsFree /\ flow.at = "extract"
  /\ \E page \in [flow.targets -> Pages \cup {Failed}] :
       /\ articles' = [a \in Articles |-> IF a \in flow.targets THEN Extracted(articles[a], page[a])
                                          ELSE articles[a]]
       /\ flow' = [flow EXCEPT !.collected = @ \ {a \in flow.targets : page[a] = Failed},
                               !.at = "verify"]
  /\ UNCHANGED <<events, run, lineage, bounds>>

\* Pages fetched in this run are known to open; of the others, those that still do.
FlowFilter ==
  /\ LoopIsFree /\ flow.at = "verify"
  /\ \E reached \in SUBSET (flow.collected \ flow.targets) :
       articles' = FilteredRows(reached \cup (flow.collected \cap flow.targets), BriefingAge)
  /\ flow' = NoFlow
  /\ UNCHANGED <<events, run, lineage, bounds>>

-----------------------------------------------------------------------------
\* The process and the calendar.

Crash ==
  /\ crashes < MaxCrashes /\ run.at # "idle"
  /\ crashes' = crashes + 1
  /\ lineage' = IF run.at = "collect" THEN <<>> ELSE <<run.collected>>
  /\ started' = (run.at # "collect")
  /\ run' = Idle /\ flow' = NoFlow
  /\ UNCHANGED <<articles, events, today, briefings>>

Recover ==
  /\ run.at = "idle" /\ lineage # <<>>
  /\ run' = [Idle EXCEPT !.at = "targets", !.collected = Head(lineage)]
  /\ lineage' = <<>>
  /\ UNCHANGED <<articles, events, flow, bounds>>

NextDay ==
  /\ today < LastDay /\ run.at = "idle" /\ lineage = <<>> /\ flow.at = "idle"
  /\ today' = today + 1 /\ started' = FALSE
  /\ UNCHANGED <<articles, events, run, flow, lineage, briefings, crashes>>

Pipeline == Start \/ CollectSource \/ FindTargets \/ Extract \/ Filter \/ Deduplicate \/ Cluster \/ EndRun
Flow     == FlowStart \/ FlowCollect \/ FlowFetch \/ FlowExtract \/ FlowFilter
Process  == Crash \/ Recover \/ NextDay

Next == Pipeline \/ Flow \/ Process

Spec == Init /\ [][Next]_vars

-----------------------------------------------------------------------------

\* The rows are well formed: an eligible article has a body of the least
\* length, a discovered one has none.
TypeOK ==
  /\ \A a \in Articles : articles[a] # NoRow =>
       /\ articles[a] \in RowTypes
       /\ articles[a].status \in {"eligible", "duplicate"} => Size(articles, a) >= MinLength
       /\ articles[a].status = "discovered" => articles[a].text = NoText
       /\ articles[a].status = "duplicate" => articles[a].of # NoArticle
  /\ \A k \in EventKeys : events[k] # NoRow => events[k].count \in 1..Cardinality(Articles)
  /\ Rows(run.collected \cup flow.collected) = run.collected \cup flow.collected
  /\ run.targets \subseteq run.collected
  /\ today \in Days /\ started \in BOOLEAN
  /\ briefings \in 0..MaxBriefings /\ crashes \in 0..MaxCrashes

\* The articles that a lost to, that those lost to, and so on, and a itself.
LostTo(a) ==
  {w \in Articles : \A X \in SUBSET Articles :
     a \in X /\ (\A loss \in run.of : loss[1] \in X => loss[2] \in X) => w \in X}

\* Nothing a run has collected gets lost on its way to the editors, whatever
\* the briefing does to the shared rows meanwhile and however often the process
\* dies: an article is refused by the filter, or it is in an event, or it is a
\* duplicate and the articles it lost to lead to one that is in an event.
EveryArticleIsAccountedFor ==
  run.at = "edit" =>
    \A a \in run.collected \ run.filtered :
      \E c \in run.clusters : LostTo(a) \cap c.members # {}

\* Every primary article of a run is in exactly one of its events; an event
\* names a representative of its own that every other member resembles itself,
\* not by way of a third article; the stored event is the one this run computed;
\* and while the editors read it, a member is in that event or was taken out by
\* the briefing's filter, never in another event.
EventsFollowTheEvidence ==
  run.at = "edit" =>
    /\ \A a \in run.primary : Cardinality({c \in run.clusters : a \in c.members}) = 1
    /\ \A c \in run.clusters :
         /\ c.lead \in c.members
         /\ \A a \in c.members \ {c.lead} : {a, c.lead} \in run.similar
         /\ events[c.key].lead = c.lead /\ events[c.key].count = Cardinality(c.members)
         /\ \A a \in c.members : articles[a].event \in {c.key, NoEvent}

=============================================================================
