---------------------------- MODULE Distribution ----------------------------
(***************************************************************************)
(* The distribution of an Episode to several platforms: the                *)
(* PublicationDispatcher with one publication_targets row per Episode and  *)
(* platform, the adapters of RSS, NetEase and Xiaoyuzhou, the route that   *)
(* resumes one target, and the reconciliation at startup.                  *)
(*                                                                         *)
(* The worker publishes an Episode while requests resume targets; all run  *)
(* on one event loop and interleave only where an adapter awaits its       *)
(* browser.  What a browser submits survives a crash of the process.  The  *)
(* service behind the RSS adapter is the module Publication: here it is    *)
(* the status of its row.                                                  *)
(***************************************************************************)
EXTENDS Naturals, FiniteSets

CONSTANTS
  Episodes,
  Platforms,    \* the enabled ones, of "rss", "netease" and "xiaoyuzhou"
  Requests,     \* handlers of the resume route that may run side by side
  worker,       \* the task that runs the pipeline
  NoTarget,
  MaxAttempts,  \* bound: attempts at one target
  MaxBoots      \* bound: the last of this many processes never dies

ASSUME DistributionConstantsOK ==
  /\ Platforms \subseteq {"rss", "netease", "xiaoyuzhou"} /\ "rss" \in Platforms
  /\ worker \notin Requests
  /\ NoTarget \notin Episodes \X Platforms
  /\ MaxAttempts \in Nat /\ MaxBoots \in Nat \ {0}

VARIABLES
  \* Durable.
  targets,   \* the publication_targets table
  rss,       \* the status of the Publication of each Episode
  lost,      \* Episodes whose immutable asset got lost in PUBLIC_DIR
  misread,   \* history: Episodes whose last RSS attempt or check could not read its files
  \* The creator backend of NetEase.
  uploads,   \* submissions it has accepted for each Episode
  \* Volatile.
  proc,      \* "down", "starting" (reconciling) or "up"
  task,      \* what the worker and each request are at
  left,      \* the platforms the worker has still to visit
  todo,      \* publishing targets startup has still to reconcile
  boots      \* bound

tables == <<targets, rss, lost, misread>>
vars   == <<tables, uploads, proc, task, left, todo, boots>>

TargetStatus      == {"none", "pending", "publishing", "published", "needs_attention", "failed"}
PublicationStatus == {"none", "pending", "publishing", "published", "failed"}
Targets           == Episodes \X Platforms
Actors            == {worker} \cup Requests

\* remote_id and remote_url are recorded together: "remote" is both.
NoRow == [status |-> "none", attempts |-> 0, remote |-> FALSE]

\* asset: the immutable asset was there when the attempt began.
Idle == [at |-> "idle", target |-> NoTarget, asset |-> FALSE, outcome |-> "none"]

Init ==
  /\ targets = [t \in Targets |-> NoRow]
  /\ rss = [e \in Episodes |-> "none"] /\ lost = {} /\ misread = {}
  /\ uploads = [e \in Episodes |-> 0]
  /\ proc = "down" /\ task = [a \in Actors |-> Idle]
  /\ left = {} /\ todo = {}
  /\ boots = 0

-----------------------------------------------------------------------------
(* Queries and rows *)

Status(t) == targets[t].status

WithStatus(s) == {t \in Targets : Status(t) = s}

At(a, place) == proc = "up" /\ task[a].at = place

Busy(a) == task[a].at \notin {"idle", "visit"}

\* The publishers are sorted, RSS first.
Turn(rest, p) == p \in rest /\ ("rss" \in rest => p = "rss")

\* public_asset_for_episode: only a published row has one.
Asset(e) == rss[e] = "published" /\ e \notin lost

EnsuredRow(row) == IF row.status = "none" THEN [row EXCEPT !.status = "pending"] ELSE row

BegunTwice(row) ==                       \* mutant: the adapter counts the attempt as well
  [row EXCEPT !.status = "publishing", !.attempts = @ + 2]

BegunRow(row) == [row EXCEPT !.status = "publishing", !.attempts = @ + 1]

RecordedRow(row, outcome) ==
  [row EXCEPT !.status = outcome, !.remote = (outcome = "published")]

Attempt(t) == [at |-> "validate", target |-> t, asset |-> Asset(t[1]), outcome |-> "none"]

Move(a, place) == task' = [task EXCEPT ![a].at = place]

Conclude(a, outcome) ==
  task' = [task EXCEPT ![a].at = "record", ![a].outcome = outcome]

-----------------------------------------------------------------------------
(* PublicationDispatcher.publish *)

PublishAgain(e) ==                       \* mutant: a published Episode is let through
  /\ At(worker, "idle") /\ rss[e] # "publishing"
  /\ \A p \in Platforms : targets[<<e, p>>].attempts < MaxAttempts
  /\ task' = [task EXCEPT ![worker] = [Idle EXCEPT !.at = "visit", !.target = <<e, "rss">>]]
  /\ left' = Platforms
  /\ UNCHANGED <<tables, uploads, proc, todo, boots>>

\* PublishStep lets only an Episode through that is not published yet.
StartPublish(e) ==
  /\ At(worker, "idle") /\ rss[e] \in {"none", "pending", "failed"}
  /\ \A p \in Platforms : targets[<<e, p>>].attempts < MaxAttempts
  /\ task' = [task EXCEPT ![worker] = [Idle EXCEPT !.at = "visit", !.target = <<e, "rss">>]]
  /\ left' = Platforms
  /\ UNCHANGED <<tables, uploads, proc, todo, boots>>

\* _ensure_target and _begin_attempt: nothing awaits between them.
VisitTarget(p) ==
  LET t == <<task[worker].target[1], p>> IN
  /\ At(worker, "visit") /\ Turn(left, p)
  /\ IF Status(t) = "published" THEN UNCHANGED <<targets, task>>
     ELSE /\ targets' = [targets EXCEPT ![t] = BegunRow(EnsuredRow(@))]
          /\ task' = [task EXCEPT ![worker] = Attempt(t)]
  /\ left' = left \ {p}
  /\ UNCHANGED <<rss, lost, misread, uploads, proc, todo, boots>>

EndPublish ==
  /\ At(worker, "visit") /\ left = {}
  /\ task' = [task EXCEPT ![worker] = Idle]
  /\ UNCHANGED <<tables, uploads, proc, left, todo, boots>>

-----------------------------------------------------------------------------
(* PublicationDispatcher.resume, the route of one target *)

Replay(t) ==                             \* mutant: any unpublished target is replayed
  /\ Status(t) \notin {"none", "published"} /\ targets[t].attempts < MaxAttempts

Resumable(t) == Status(t) = "needs_attention" /\ targets[t].attempts < MaxAttempts

Resume(a, t) ==
  /\ At(a, "idle") /\ Resumable(t)
  /\ targets' = [targets EXCEPT ![t] = BegunRow(@)]
  /\ task' = [task EXCEPT ![a] = Attempt(t)]
  /\ UNCHANGED <<rss, lost, misread, uploads, proc, left, todo, boots>>

\* Any other target is only reported, after its row was created.
ReportTarget(t) ==
  /\ proc = "up" /\ Status(t) = "none"
  /\ targets' = [targets EXCEPT ![t] = EnsuredRow(@)]
  /\ UNCHANGED <<rss, lost, misread, uploads, proc, task, left, todo, boots>>

-----------------------------------------------------------------------------
(* One attempt: the adapter, then the row *)

Platform(a) == task[a].target[2]
EpisodeOf(a) == task[a].target[1]

\* PublicationService.publish up to its commit of publishing.
RssBegin(a) ==
  /\ At(a, "validate") /\ Platform(a) = "rss"
  /\ rss' = [rss EXCEPT ![EpisodeOf(a)] = "publishing"]
  /\ misread' = misread \ {EpisodeOf(a)}
  /\ Move(a, "promote")
  /\ UNCHANGED <<targets, lost, uploads, proc, left, todo, boots>>

RssPublish(a) ==
  /\ At(a, "promote")
  /\ \/ rss' = [rss EXCEPT ![EpisodeOf(a)] = "published"] /\ Conclude(a, "published")
     \/ rss' = [rss EXCEPT ![EpisodeOf(a)] = "failed"] /\ Conclude(a, "failed")
  /\ UNCHANGED <<targets, lost, misread, uploads, proc, left, todo, boots>>

\* _mark_published cannot read the feed or the asset: the publication stays publishing,
\* and the dispatcher catches the exception (Publication, AbandonRow).
AbandonRss(a) ==
  /\ At(a, "promote")
  /\ misread' = misread \cup {EpisodeOf(a)}
  /\ Conclude(a, "failed")
  /\ UNCHANGED <<targets, rss, lost, uploads, proc, left, todo, boots>>

Uploadable(a) == Platform(a) = "netease" /\ task[a].asset

\* NetEasePlaywrightPublisher.validate: no asset fails, no cover asks for a human.
Validate(a) ==
  /\ At(a, "validate") /\ Platform(a) = "netease"
  /\ \/ Uploadable(a) /\ Move(a, "form")
     \/ ~Uploadable(a) /\ Conclude(a, "failed")
     \/ task[a].asset /\ Conclude(a, "needs_attention")
  /\ UNCHANGED <<tables, uploads, proc, left, todo, boots>>

\* Login, challenge, page drift or a failed transfer; Chromium is not installed.
StopForHuman(a) ==
  /\ \/ At(a, "form") /\ \E o \in {"needs_attention", "failed"} : Conclude(a, o)
     \/ At(a, "submitted") /\ Conclude(a, "needs_attention")
  /\ UNCHANGED <<tables, uploads, proc, left, todo, boots>>

\* The click on submit: accepted from here on, whatever the browser sees next.
Submit(a) ==
  /\ At(a, "form")
  /\ uploads' = [uploads EXCEPT ![EpisodeOf(a)] = @ + 1]
  /\ Move(a, "submitted")
  /\ UNCHANGED <<tables, proc, left, todo, boots>>

\* The success text appeared within its 30 seconds.
Confirm(a) ==
  /\ At(a, "submitted")
  /\ Conclude(a, "published")
  /\ UNCHANGED <<tables, uploads, proc, left, todo, boots>>

\* The prepared adapter only asks for a human.
XiaoyuzhouPublish(a) ==
  /\ At(a, "validate") /\ Platform(a) = "xiaoyuzhou"
  /\ Conclude(a, "needs_attention")
  /\ UNCHANGED <<tables, uploads, proc, left, todo, boots>>

DropFailure(a, row) ==                   \* mutant: only a success is recorded
  IF task[a].outcome = "failed" THEN row ELSE RecordedRow(row, task[a].outcome)

Recorded(a, row) == RecordedRow(row, task[a].outcome)

\* A failed RSS target ends the run of the worker with the exception of the service.
RecordResult(a) ==
  LET raised == Platform(a) = "rss" /\ task[a].outcome = "failed" IN
  /\ At(a, "record")
  /\ targets' = [targets EXCEPT ![task[a].target] = Recorded(a, @)]
  /\ task' = [task EXCEPT ![a] =
       IF a # worker \/ raised THEN Idle
       ELSE [Idle EXCEPT !.at = "visit", !.target = task[a].target]]
  /\ left' = IF a = worker /\ raised THEN {} ELSE left
  /\ UNCHANGED <<rss, lost, misread, uploads, proc, todo, boots>>

-----------------------------------------------------------------------------
(* Startup *)

Boot ==
  /\ proc = "down" /\ boots < MaxBoots
  /\ proc' = "starting" /\ boots' = boots + 1
  /\ todo' = WithStatus("publishing")
  /\ UNCHANGED <<tables, uploads, task, left>>

DemoteRss(e) ==                          \* mutant: a published row may fail again
  /\ proc = "starting" /\ rss[e] \in {"publishing", "published"}
  /\ rss' = [rss EXCEPT ![e] = "failed"]
  /\ UNCHANGED <<targets, lost, misread, uploads, proc, task, left, todo, boots>>

\* PublicationService.reconcile: the feed verifies, is rewritten, or nothing was promoted.
ReconcileRss(e) ==
  /\ proc = "starting" /\ rss[e] = "publishing"
  /\ \E s \in {"published", "failed", "pending"} : rss' = [rss EXCEPT ![e] = s]
  /\ UNCHANGED <<targets, lost, misread, uploads, proc, task, left, todo, boots>>

RssSettled == \A e \in Episodes : rss[e] # "publishing"

RssOutcome(e) == IF rss[e] = "none" THEN "pending" ELSE rss[e]

NeverBegun(e) == {"pending"}             \* mutant: the service's row is not read

\* check_status of the adapters.  A title that the creator history does not show yet is
\* not uploaded for the adapter; a failing browser fails the target.
CheckedRss(e) == {RssOutcome(e)}

AnyTitle(e) ==                           \* mutant: the title of any Episode will do
  {"pending", "needs_attention", "failed", "published"}

CheckedNetEase(e) ==
  {"pending", "needs_attention", "failed"} \cup (IF uploads[e] > 0 THEN {"published"} ELSE {})

Checked(t) ==
  CASE t[2] = "rss" -> CheckedRss(t[1])
    [] t[2] = "netease" -> CheckedNetEase(t[1])
    [] t[2] = "xiaoyuzhou" -> {"pending"}

ReconcileTarget(t) ==
  /\ proc = "starting" /\ RssSettled /\ t \in todo
  /\ \E s \in Checked(t) : targets' = [targets EXCEPT ![t] = RecordedRow(@, s)]
  /\ misread' = IF t[2] = "rss" THEN misread \ {t[1]} ELSE misread
  /\ todo' = todo \ {t}
  /\ UNCHANGED <<rss, lost, uploads, proc, task, left, boots>>

\* The check runs PublicationService.reconcile again, which raises where it cannot look
\* for the feed: the target fails, whatever its publication is.
MisreadTarget(t) ==
  /\ proc = "starting" /\ RssSettled /\ t \in todo /\ t[2] = "rss"
  /\ targets' = [targets EXCEPT ![t] = RecordedRow(@, "failed")]
  /\ misread' = misread \cup {t[1]}
  /\ todo' = todo \ {t}
  /\ UNCHANGED <<rss, lost, uploads, proc, task, left, boots>>

Serve ==
  /\ proc = "starting" /\ RssSettled /\ todo = {}
  /\ proc' = "up"
  /\ UNCHANGED <<tables, uploads, task, left, todo, boots>>

Crash ==
  /\ proc # "down" /\ boots < MaxBoots
  /\ proc' = "down" /\ task' = [a \in Actors |-> Idle] /\ left' = {} /\ todo' = {}
  /\ UNCHANGED <<tables, uploads, boots>>

\* A file of PUBLIC_DIR goes missing while nothing runs.
LoseMedia(e) ==
  /\ proc = "down" /\ rss[e] = "published" /\ e \notin lost
  /\ lost' = lost \cup {e}
  /\ UNCHANGED <<targets, rss, misread, uploads, proc, task, left, todo, boots>>

-----------------------------------------------------------------------------
AttemptSteps(a) ==
  \/ RssBegin(a) \/ RssPublish(a) \/ AbandonRss(a)
  \/ Validate(a) \/ StopForHuman(a) \/ Submit(a) \/ Confirm(a)
  \/ XiaoyuzhouPublish(a)
  \/ RecordResult(a)

WorkerSteps == AttemptSteps(worker) \/ EndPublish \/ \E p \in Platforms : VisitTarget(p)

StartupSteps ==
  \/ Boot \/ Serve
  \/ \E e \in Episodes : ReconcileRss(e)
  \/ \E t \in Targets : ReconcileTarget(t) \/ MisreadTarget(t)

Next ==
  \/ WorkerSteps \/ StartupSteps \/ Crash
  \/ \E a \in Requests : AttemptSteps(a) \/ \E t \in Targets : Resume(a, t)
  \/ \E e \in Episodes : StartPublish(e) \/ LoseMedia(e)
  \/ \E t \in Targets : ReportTarget(t)

Spec == Init /\ [][Next]_vars

\* A begun publication, a begun attempt and a startup go on; a supervisor restarts the
\* process.  Every wait of the browser has a timeout.
FairSpec ==
  /\ Spec
  /\ WF_vars(WorkerSteps) /\ WF_vars(StartupSteps)
  /\ \A a \in Requests : WF_vars(AttemptSteps(a))

-----------------------------------------------------------------------------
(* Properties *)

TargetRow == [status : TargetStatus, attempts : 0 .. MaxAttempts, remote : BOOLEAN]

Places == {"idle", "visit", "validate", "promote", "form", "submitted", "record"}

ActorTask == [at : Places, target : Targets \cup {NoTarget}, asset : BOOLEAN,
              outcome : TargetStatus]

\* Every variable has its type.
TypeOK ==
  /\ targets \in [Targets -> TargetRow] /\ rss \in [Episodes -> PublicationStatus]
  /\ lost \subseteq Episodes /\ misread \subseteq Episodes
  /\ uploads \in [Episodes -> Nat]
  /\ proc \in {"down", "starting", "up"} /\ task \in [Actors -> ActorTask]
  /\ left \subseteq Platforms /\ todo \subseteq Targets
  /\ boots \in 0 .. MaxBoots

\* No target is tried twice at once, by the worker and a request or by two requests,
\* and a service that is up is trying every target whose row says so: no attempt and
\* no startup leaves a publishing row behind (dispatcher.py:115, :191).
OneAttempt ==
  /\ \A a \in Actors : Busy(a) => Status(task[a].target) = "publishing"
  /\ \A a, b \in Actors : Busy(a) /\ Busy(b) /\ task[a].target = task[b].target => a = b
  /\ proc = "up" =>
       \A t \in WithStatus("publishing") : \E a \in Actors : Busy(a) /\ task[a].target = t

\* Nothing leaves for an external platform unless the RSS publication it copies is out,
\* whatever failed before or is reconciled later (dispatcher.py:155).
UploadsFollowRss == \A e \in Episodes : uploads[e] > 0 => rss[e] = "published"

\* Two tables speak of the RSS publication.  A published target always has a published
\* publication; and a service that is up has no published publication without its target,
\* outside an attempt at it, wherever the process died between the two commits: only
\* files of PUBLIC_DIR that could not be read leave the target behind (dispatcher.py:158).
RssRowIsTruthful ==
  \A e \in Episodes :
    /\ Status(<<e, "rss">>) = "published" => rss[e] = "published"
    /\ proc = "up" /\ rss[e] = "published" /\ e \notin misread =>
         \/ Status(<<e, "rss">>) = "published"
         \/ \E a \in Actors : Busy(a) /\ task[a].target = <<e, "rss">>

\* Every attempt at a target comes to an end in its row, whatever crashes meanwhile.
TargetSettles ==
  \A t \in Targets : Status(t) = "publishing" ~> Status(t) # "publishing"

\* What a platform without idempotency is owed: at most one submission per recorded
\* attempt, an end that is final, and nothing called published that was not submitted.
Phase(e) ==
  CASE Status(<<e, "netease">>) = "published"  -> "done"
    [] Status(<<e, "netease">>) = "publishing" -> "trying"
    [] OTHER                                   -> "open"

Ledger == INSTANCE UploadLedger WITH
  Items <- Episodes,
  phase <- [e \in Episodes |-> Phase(e)],
  tries <- [e \in Episodes |-> targets[<<e, "netease">>].attempts],
  accepted <- uploads

KeepsLedger == Ledger!Spec

\* Only a person who resumes a target sends again what the platform has accepted once:
\* no retried run, recovery or startup does (steps/publish.py:37, dispatcher.py:228).
OnlyResumeResends ==
  [][\A e \in Episodes :
       uploads[e] > 0 /\ uploads'[e] # uploads[e] =>
         \E a \in Requests : task[a].at = "form" /\ task[a].target = <<e, "netease">>]_vars

=============================================================================
