------------------------------- MODULE Briefing -------------------------------
(***************************************************************************)
(* The daily text briefing: BriefingService with its one run slot, the     *)
(* three ticks of BriefingScheduler, the manual run and the rehearsal of   *)
(* the HTTP routes, the webhook with its retry, and the files that         *)
(* remember what was prepared and what was delivered.                      *)
(*                                                                         *)
(* Everything runs on one event loop; a run interleaves with the ticks and *)
(* the routes wherever it awaits, and the process may die at any point.    *)
(* Files are replaced atomically, so a step writes a whole file or none.   *)
(***************************************************************************)
EXTENDS BriefingEdition

CONSTANTS
  Days, Working,   \* calendar days, and those the calendar calls working days
  HasWebhook,      \* briefing.webhook_enabled
  MaxAttempts,     \* max_attempts of WebhookNotifier
  MaxManual,       \* bound: runs started by a route
  MaxCrashes       \* bound

ASSUME BriefingConstantsOK ==
  /\ IsFiniteSet(Days) /\ Days # {} /\ Days = 1..Cardinality(Days)
  /\ Working \subseteq Days
  /\ HasWebhook \in BOOLEAN
  /\ MaxAttempts \in Nat \ {0} /\ MaxManual \in Nat /\ MaxCrashes \in Nat

VARIABLES
  \* Files.
  prepared,   \* [Days -> the prepared marker]
  done,       \* [Days -> categories with a .done marker]
  \* The group chat and the operator.
  sent,       \* [Days -> messages the chat has accepted]
  told,       \* [Days -> categories those messages carried]
  alerted,    \* [Days -> stages the operator was alerted about]
  \* The process.
  up, reserved, run,
  preflight,  \* preparation ticks that still probe the providers
  report,     \* [Days -> how the delivery tick ended]
  \* The clock.
  today, hour,
  \* History and bounds.
  excuses,    \* [Days -> reasons for one more message]
  manual, crashes

files   == <<prepared, done>>
outside == <<sent, told, alerted>>
clock   == <<today, hour>>
bounds  == <<manual, crashes>>
vars    == <<files, outside, up, reserved, run, preflight, report, clock, excuses, bounds>>

NoEdition == [categories |-> {}, full |-> FALSE, errors |-> {}]

Outcomes == {"none", "completed", "empty", "failed", "full", "short", "degraded"}

NoOutcome == [c \in Categories |-> "none"]

Idle ==
  [kind |-> "none", force |-> FALSE, day |-> 0, at |-> "idle",
   outcome |-> NoOutcome, edition |-> NoEdition, attempts |-> 0, left |-> {}]

Kinds  == {"prepare", "deliver", "manual", "dry"}
Stages == {"manual", "unprepared", "push", "degraded"}

Init ==
  /\ prepared = [d \in Days |-> NoEdition] /\ done = [d \in Days |-> {}]
  /\ sent = [d \in Days |-> 0] /\ told = [d \in Days |-> {}] /\ alerted = [d \in Days |-> {}]
  /\ up = TRUE /\ reserved = FALSE /\ run = Idle /\ preflight = 0
  /\ report = [d \in Days |-> "none"]
  /\ today = 1 /\ hour = 0
  /\ excuses = [d \in Days |-> 0]
  /\ manual = 0 /\ crashes = 0

-----------------------------------------------------------------------------
\* The run slot.

Excuse(d, n) == excuses' = [excuses EXCEPT ![d] = @ + n]

\* A forced run may send what was sent before.
Reserve(kind, force) ==
  /\ ~ reserved
  /\ reserved' = TRUE
  /\ run' = [Idle EXCEPT !.kind = kind, !.force = force, !.day = today,
                         !.at = IF kind = "deliver" THEN "load" ELSE "begin"]
  /\ Excuse(today, IF force THEN 1 ELSE 0)

Release == reserved' = FALSE /\ run' = Idle

Alert(d, stages) == alerted' = [alerted EXCEPT ![d] = @ \cup stages]

AlertIf(cond, d, stage) == Alert(d, IF cond THEN {stage} ELSE {})

\* Only the delivery tick has its report looked at afterwards.
Ends(how) ==
  /\ report' = IF run.kind = "deliver" THEN [report EXCEPT ![run.day] = how] ELSE report
  /\ Release

-----------------------------------------------------------------------------
\* The clock and the ticks.  A tick that fires while the process is down is missed; on a
\* day off a tick returns at once and is left out.

PrepareTick ==
  /\ today \in Working /\ hour < 2
  /\ hour' = hour + 1
  /\ preflight' = preflight + IF up THEN 1 ELSE 0
  /\ UNCHANGED <<files, outside, up, reserved, run, report, today, excuses, bounds>>

StartPrepare ==
  /\ up /\ preflight > 0
  /\ preflight' = preflight - 1
  /\ \/ Reserve("prepare", FALSE)
     \/ reserved /\ UNCHANGED <<reserved, run, excuses>>
  /\ UNCHANGED <<files, outside, up, report, clock, bounds>>

DeliverTick ==
  /\ today \in Working /\ hour = 2
  /\ hour' = 3
  /\ \/ up /\ Reserve("deliver", FALSE)
     \/ (~ up \/ reserved) /\ UNCHANGED <<reserved, run, excuses>>
  /\ UNCHANGED <<files, outside, up, preflight, report, today, bounds>>

Midnight ==
  /\ today \in Working => hour = 3
  /\ today + 1 \in Days
  /\ today' = today + 1 /\ hour' = 0
  /\ UNCHANGED <<files, outside, up, reserved, run, preflight, report, excuses, bounds>>

\* create_run_task and create_dry_run_task; a held slot is answered with 409.
Trigger ==
  /\ up /\ manual < MaxManual
  /\ manual' = manual + 1
  /\ \/ \E force \in BOOLEAN : Reserve("manual", force)
     \/ Reserve("dry", FALSE)
  /\ UNCHANGED <<files, outside, up, preflight, report, clock, crashes>>

-----------------------------------------------------------------------------
\* Preparation.

Fresh == run.force \/ run.kind = "dry"

EveryCategory(d) == done[d] = Categories  \* mutant: a category without news is awaited too

Delivered(d) == prepared[d].categories \subseteq done[d]

\* A below-target or degraded edition is made again.
Keeps(d) ==
  /\ ~ Fresh /\ prepared[d] # NoEdition
  /\ Delivered(d) \/ prepared[d].full

BeginPrepare ==
  /\ run.at = "begin"
  /\ IF Keeps(run.day)
       THEN IF run.kind = "manual" /\ ~ Delivered(run.day)
              THEN run' = [run EXCEPT !.at = "load"] /\ UNCHANGED <<reserved, report>>
              ELSE Ends("kept")
       ELSE run' = [run EXCEPT !.at = "collect"] /\ UNCHANGED <<reserved, report>>
  /\ UNCHANGED <<files, outside, up, preflight, clock, excuses, bounds>>

Quality(result) ==
  CASE result.degraded -> "degraded"
    [] ~ result.degraded /\ Len(result.items) >= MaxItems -> "full"
    [] ~ result.degraded /\ Len(result.items) < MaxItems -> "short"

CategoryOutcomes(pool) ==
  IF pool = <<>> THEN {"empty"} ELSE {"failed"} \cup {Quality(r) : r \in Results[pool]}

\* What generation makes of the articles found: collected, extracted, verified, filtered
\* and not duplicated.  The categories share no state.
Generated ==
  UNION {{outcome \in [Categories -> Outcomes] :
            \A c \in Categories : outcome[c] \in CategoryOutcomes(EditorialPool(found, c))}
         : found \in SUBSET Articles}

\* A category that is marked is not generated again.
Collect ==
  /\ run.at = "collect"
  /\ \E outcome \in Generated :
       run' = [run EXCEPT !.at = "merge",
                          !.outcome = [c \in Categories |-> IF ~ Fresh /\ c \in done[run.day]
                                                            THEN "completed" ELSE outcome[c]]]
  /\ UNCHANGED <<files, outside, up, reserved, preflight, report, clock, excuses, bounds>>

Pending(outcome) == {c \in Categories : outcome[c] \in {"full", "short", "degraded"}}

Failed(outcome) == {c \in Categories : outcome[c] = "failed"}

Degraded(outcome) == {c \in Categories : outcome[c] = "degraded"}

Edition(outcome) ==
  [categories |-> Pending(outcome),
   full       |-> \A c \in Categories : outcome[c] \notin {"failed", "short", "degraded"},
   errors     |-> Failed(outcome) \cup Degraded(outcome)]

\* The marker holds the message itself and is what delivery reads.
Merge ==
  /\ run.at = "merge"
  /\ LET made == Pending(run.outcome) # {}
     IN  /\ prepared' = IF made /\ run.kind # "dry"
                          THEN [prepared EXCEPT ![run.day] = Edition(run.outcome)] ELSE prepared
         /\ AlertIf(run.kind = "manual" /\ ~ made /\ Failed(run.outcome) # {}, run.day, "manual")
         /\ IF run.kind = "manual" /\ made
              THEN run' = [run EXCEPT !.at = "load", !.outcome = NoOutcome] /\ UNCHANGED <<reserved, report>>
              ELSE Ends("made")
  /\ UNCHANGED <<done, sent, told, up, preflight, clock, excuses, bounds>>

KeepsSlot ==                              \* mutant: the slot is not released
  /\ run.at \in {"collect", "merge"}
  /\ AlertIf(run.kind = "manual", run.day, "manual")
  /\ run' = Idle
  /\ UNCHANGED <<files, sent, told, up, reserved, preflight, report, clock, excuses, bounds>>

\* Collection, the database or a file write raises.
PrepareFails ==
  /\ run.at \in {"collect", "merge"}
  /\ AlertIf(run.kind = "manual", run.day, "manual")
  /\ Ends("raised")
  /\ UNCHANGED <<files, sent, told, up, preflight, clock, excuses, bounds>>

-----------------------------------------------------------------------------
\* Delivery.

LoadPrepared ==
  /\ run.at = "load"
  /\ LET e == prepared[run.day]
         loaded(at) == /\ run' = [run EXCEPT !.at = at, !.edition = e, !.left = e.categories]
                       /\ UNCHANGED <<reserved, report, alerted>>
     IN  CASE e = NoEdition -> Alert(run.day, {"unprepared"}) /\ Ends("unprepared")
           [] e # NoEdition /\ ~ run.force /\ Delivered(run.day) -> Ends("skipped") /\ UNCHANGED alerted
           [] e # NoEdition /\ (run.force \/ ~ Delivered(run.day)) ->
                loaded(IF HasWebhook THEN "push" ELSE "mark")
  /\ UNCHANGED <<files, sent, told, up, preflight, clock, excuses, bounds>>

\* The chat has the message, whatever the process learns of it.
Accepted(d) ==
  /\ sent' = [sent EXCEPT ![d] = @ + 1]
  /\ told' = [told EXCEPT ![d] = @ \cup run.edition.categories]

PushSent ==
  /\ run.at = "push"
  /\ Accepted(run.day)
  /\ run' = [run EXCEPT !.at = "mark"]
  /\ UNCHANGED <<files, alerted, up, reserved, preflight, report, clock, excuses, bounds>>

MarksAnyway ==                            \* mutant: the status of the push is not looked at
  /\ run.at = "push"
  /\ run' = [run EXCEPT !.at = "mark"]
  /\ UNCHANGED <<files, outside, up, reserved, preflight, report, clock, excuses, bounds>>

\* One attempt is refused, or its answer is lost: the notifier tries again.
PushFails ==
  /\ run.at = "push"
  /\ \/ Accepted(run.day) /\ Excuse(run.day, 1)
     \/ UNCHANGED <<sent, told, excuses>>
  /\ IF run.attempts + 1 < MaxAttempts
       THEN run' = [run EXCEPT !.attempts = @ + 1] /\ UNCHANGED <<alerted, reserved, report>>
       ELSE Alert(run.day, {"push"}) /\ Ends("failed")
  /\ UNCHANGED <<files, up, preflight, clock, bounds>>

\* The markers are written in the order of the categories.
Leads(c, s) ==
  \E i \in DOMAIN CategoryOrder :
    CategoryOrder[i] = c /\ \A j \in 1..(i - 1) : CategoryOrder[j] \notin s

MarkDelivered ==
  /\ run.at = "mark"
  /\ \E c \in run.left :
       /\ Leads(c, run.left)
       /\ done' = [done EXCEPT ![run.day] = @ \cup {c}]
       /\ run' = [run EXCEPT !.left = @ \ {c}, !.at = IF run.left = {c} THEN "report" ELSE "mark"]
  /\ UNCHANGED <<prepared, outside, up, reserved, preflight, report, clock, excuses, bounds>>

\* A marker cannot be written: the message is out, and the day looks undelivered.
MarkFails ==
  /\ run.at = "mark"
  /\ Excuse(run.day, 1)
  /\ AlertIf(run.kind = "deliver", run.day, "push")
  /\ Ends("raised")
  /\ UNCHANGED <<files, sent, told, up, preflight, clock, bounds>>

QuietReport ==                            \* mutant: degradation is only logged
  /\ run.at = "report"
  /\ Ends("delivered")
  /\ UNCHANGED <<files, outside, up, preflight, clock, excuses, bounds>>

ReportDelivered ==
  /\ run.at = "report"
  /\ AlertIf(run.edition.errors # {}, run.day, "degraded")
  /\ Ends("delivered")
  /\ UNCHANGED <<files, sent, told, up, preflight, clock, excuses, bounds>>

RunStep ==
  \/ BeginPrepare \/ Collect \/ Merge \/ PrepareFails
  \/ LoadPrepared \/ PushSent \/ PushFails \/ MarkDelivered \/ MarkFails \/ ReportDelivered

-----------------------------------------------------------------------------
\* The process.

\* A push that is under way may have arrived.
Crash ==
  /\ up /\ crashes < MaxCrashes
  /\ crashes' = crashes + 1
  /\ up' = FALSE /\ preflight' = 0
  /\ Release
  /\ \/ run.at = "push" /\ Accepted(run.day) /\ Excuse(run.day, 1)
     \/ run.at = "mark" /\ Excuse(run.day, 1) /\ UNCHANGED <<sent, told>>
     \/ run.at # "mark" /\ UNCHANGED <<sent, told, excuses>>
  /\ UNCHANGED <<files, alerted, report, clock, manual>>

Boot ==
  /\ ~ up
  /\ up' = TRUE
  /\ UNCHANGED <<files, outside, reserved, run, preflight, report, clock, excuses, bounds>>

Next ==
  \/ PrepareTick \/ StartPrepare \/ DeliverTick \/ Midnight \/ Trigger
  \/ RunStep
  \/ Crash \/ Boot

Spec == Init /\ [][Next]_vars

-----------------------------------------------------------------------------
\* Properties.

EditionType == [categories : SUBSET Categories, full : BOOLEAN, errors : SUBSET Categories]

RunType ==
  [kind : Kinds \cup {"none"}, force : BOOLEAN, day : Days \cup {0},
   at : {"idle", "begin", "collect", "merge", "load", "push", "mark", "report"},
   outcome : [Categories -> Outcomes],
   edition : EditionType, attempts : 0..(MaxAttempts - 1), left : SUBSET Categories]

\* The slot is held exactly while a run is in progress, only in a live process; a run
\* that marks still has a marker to write; an edition on disk has a category.
TypeOK ==
  /\ prepared \in [Days -> EditionType] /\ done \in [Days -> SUBSET Categories]
  /\ sent \in [Days -> Nat] /\ told \in [Days -> SUBSET Categories]
  /\ alerted \in [Days -> SUBSET Stages]
  /\ up \in BOOLEAN /\ run \in RunType /\ preflight \in 0..2 * Cardinality(Days)
  /\ report \in [Days -> {"none", "kept", "made", "raised", "unprepared", "skipped", "failed", "delivered"}]
  /\ today \in Days /\ hour \in 0..3
  /\ excuses \in [Days -> Nat] /\ manual \in 0..MaxManual /\ crashes \in 0..MaxCrashes
  /\ reserved <=> run.at # "idle"
  /\ reserved => up /\ run.day \in Days
  /\ run.at = "mark" => run.left # {}
  /\ \A d \in Days : prepared[d].categories = {} => prepared[d] = NoEdition

\* The chat gets the briefing of a day once, over two preparation ticks, a delivery tick,
\* manual runs and restarts.  Each further message has its reason: a forced run, an
\* attempt whose answer was lost, a crash or a failed write between message and marker.
OneMessageADay == \A d \in Days : sent[d] <= 1 + excuses[d]

\* A .done marker, which silences its category for the day, stands for news the chat has.
DoneMeansTold == HasWebhook => \A d \in Days : done[d] \subseteq told[d]

\* A delivery tick that got the slot does not end in silence: the chat has the news or
\* the operator an alert, and a degraded edition goes out with one.
NoSilentDelivery ==
  \A d \in Days :
       /\ report[d] \in {"skipped", "delivered"} /\ HasWebhook => told[d] # {}
       /\ report[d] \in {"unprepared", "failed", "raised"} => alerted[d] # {}
       /\ report[d] = "delivered" /\ prepared[d].errors # {} /\ excuses[d] = 0 =>
            "degraded" \in alerted[d]

\* Whatever was found and whatever the model answers, the edition is made of verified
\* links in their places, and the message of any outcome fits the budget of the robot.
EditionIsVerified ==
  run.at = "collect" =>
    /\ BalancedSelections = SUBSET Articles
    /\ VerifiedPools = Pools
    /\ FittingSelections = SUBSET Articles

=============================================================================
