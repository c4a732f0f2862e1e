-------------------------- MODULE DistributionProofs --------------------------
(***************************************************************************)
(* Theorems about Distribution, for any sets of Episodes, enabled          *)
(* platforms and requests, and any number of attempts and processes.       *)
(*                                                                         *)
(* The inductive invariant IInv says who may touch a row: startup owns the *)
(* publishing rows before it serves (Startup), an actor owns the one it    *)
(* tries (OneAttempt), the worker the rows it has still to visit           *)
(* (WorkersShare), and no external row moves before RSS is out             *)
(* (ExternalRows, RssAttempts).                                            *)
(***************************************************************************)
EXTENDS Distribution, TLAPS

-----------------------------------------------------------------------------
(* The inductive invariant *)

Unbegun == {"none", "pending"}

Unpublished == {"none", "pending", "failed"}

(* Only a process that is up runs tasks, and only startup has rows to do.  *)
Startup ==
  /\ proc # "up" => left = {} /\ \A a \in Actors : task[a] = Idle
  /\ proc = "starting" => todo = WithStatus("publishing")
  /\ proc # "starting" => todo = {}

(* An external row does not move before the RSS publication is out.        *)
ExternalRows ==
  \A e \in Episodes : \A p \in Platforms \ {"rss"} :
    rss[e] # "published" =>
      targets[<<e, p>>].attempts = 0 /\ targets[<<e, p>>].status \in Unbegun

(* The two tables agree on RSS except during an attempt or after its crash, *)
(* and unless the files of the publication could not be read (blind).      *)
Agree(target, publication, blind) ==
  /\ target # "needs_attention"
  /\ target = "published" => publication = "published"
  /\ target # "publishing" /\ ~blind =>
       publication # "publishing" /\ (publication = "published" => target = "published")

RssRows ==
  \A e \in Episodes : Agree(Status(<<e, "rss">>), rss[e], e \in misread)

(* Where an attempt can be, and what that says of the platform it is at.   *)
Attempts ==
  \A a \in Actors : Busy(a) =>
    /\ task[a].target \in Targets
    /\ task[a].at \in {"form", "submitted"} => Platform(a) = "netease"
    /\ task[a].at = "promote" => Platform(a) = "rss"
    /\ task[a].at = "record" => task[a].outcome \in {"published", "failed", "needs_attention"}
    /\ Platform(a) # "rss" => rss[EpisodeOf(a)] = "published"
    /\ a = worker /\ Platform(a) # "rss" => targets[task[a].target].attempts = 1

(* Only the worker attempts RSS; the publication is where the attempt is.  *)
RssAttempts ==
  \A a \in Actors : Busy(a) /\ Platform(a) = "rss" =>
    /\ a = worker
    /\ task[a].at = "validate" => rss[EpisodeOf(a)] \in Unpublished
    /\ task[a].at = "promote" => rss[EpisodeOf(a)] = "publishing"
    /\ task[a].at = "record" =>
         /\ task[a].outcome \in {"published", "failed"}
         /\ task[a].outcome = "published" => rss[EpisodeOf(a)] = "published"
         /\ EpisodeOf(a) \notin misread => rss[EpisodeOf(a)] = task[a].outcome

(* What the worker has still to visit, nobody has begun.                   *)
WorkersShare ==
  /\ \A a \in Requests : task[a].at # "visit"
  /\ task[worker].at = "idle" => left = {}
  /\ task[worker].at = "visit" => task[worker].target \in Targets
  /\ "rss" \in left => task[worker].at = "visit" /\ rss[EpisodeOf(worker)] \in Unpublished
  /\ task[worker].at = "visit" /\ "rss" \notin left => rss[EpisodeOf(worker)] = "published"
  /\ \A p \in left : targets[<<EpisodeOf(worker), p>>].attempts < MaxAttempts
  /\ \A p \in left \ {"rss"} :
       /\ targets[<<EpisodeOf(worker), p>>].attempts = 0
       /\ targets[<<EpisodeOf(worker), p>>].status \in Unbegun

(* A submission belongs to an attempt.                                     *)
Submissions ==
  /\ "netease" \notin Platforms => \A e \in Episodes : uploads[e] = 0
  /\ "netease" \in Platforms => \A e \in Episodes :
       /\ uploads[e] <= targets[<<e, "netease">>].attempts
       /\ Status(<<e, "netease">>) = "published" => uploads[e] > 0
  /\ \A a \in Actors : Busy(a) /\ Platform(a) = "netease" =>
       /\ task[a].at \in {"validate", "form"} =>
            uploads[EpisodeOf(a)] < targets[task[a].target].attempts
       /\ task[a].at = "submitted" \/ (task[a].at = "record" /\ task[a].outcome = "published")
            => uploads[EpisodeOf(a)] > 0

IInv == /\ TypeOK /\ OneAttempt /\ Startup /\ ExternalRows /\ RssRows
        /\ Attempts /\ RssAttempts /\ WorkersShare /\ Submissions

-----------------------------------------------------------------------------
(* Preservation *)

(* What an attempt and its end do to a row.                                *)
LEMMA RowEdits ==
  ASSUME NEW row \in TargetRow, NEW s \in TargetStatus
  PROVE  /\ EnsuredRow(row) \in TargetRow
         /\ EnsuredRow(row).attempts = row.attempts
         /\ EnsuredRow(row).status = IF row.status = "none" THEN "pending" ELSE row.status
         /\ RecordedRow(row, s) \in TargetRow
         /\ RecordedRow(row, s).status = s
         /\ RecordedRow(row, s).attempts = row.attempts
         /\ BegunRow(row).status = "publishing"
         /\ BegunRow(row).attempts = row.attempts + 1
         /\ row.attempts < MaxAttempts => BegunRow(row) \in TargetRow
<1>1. EnsuredRow(row) \in TargetRow /\ EnsuredRow(row).attempts = row.attempts
  BY DEF TargetRow, TargetStatus, EnsuredRow
<1>2. EnsuredRow(row).status = IF row.status = "none" THEN "pending" ELSE row.status
  BY DEF TargetRow, EnsuredRow
<1>3. /\ RecordedRow(row, s) \in TargetRow /\ RecordedRow(row, s).status = s
      /\ RecordedRow(row, s).attempts = row.attempts
  BY DEF TargetRow, RecordedRow
<1>4. BegunRow(row).status = "publishing" /\ BegunRow(row).attempts = row.attempts + 1
  BY DEF TargetRow, BegunRow
<1>5. ASSUME row.attempts < MaxAttempts  PROVE BegunRow(row) \in TargetRow
  <2>1. row.attempts + 1 \in 0 .. MaxAttempts
    BY <1>5, DistributionConstantsOK DEF TargetRow
  <2> QED  BY <2>1 DEF TargetRow, TargetStatus, BegunRow
<1> QED  BY <1>1, <1>2, <1>3, <1>4, <1>5

(* Rows, counters and tasks keep their types.                             *)
LEMMA TypesKept ==
  ASSUME IInv, [Next]_vars
  PROVE  TypeOK'
<1> USE DistributionConstantsOK DEF IInv, TypeOK, TargetRow, ActorTask, Places, TargetStatus,
        PublicationStatus, Targets, Actors, At, Idle, NoRow, tables
<1>1. CASE UNCHANGED vars  BY <1>1 DEF vars
<1>2. CASE \E a \in Actors : AttemptSteps(a)
  <2> PICK a \in Actors : AttemptSteps(a)  BY <1>2
  <2> USE DEF Conclude, Move, Busy, Attempts, RssAttempts, Platform, EpisodeOf, Submissions
  <2>0. TypeOK  OBVIOUS
  <2> HIDE DEF IInv
  <2>1. CASE RssBegin(a)
    <3>1. rss' \in [Episodes -> PublicationStatus] /\ misread' \subseteq Episodes
      BY <2>0, <2>1 DEF RssBegin
    <3>2. task' \in [Actors -> ActorTask]  BY <2>0, <2>1 DEF RssBegin
    <3> HIDE DEF TargetRow, ActorTask, PublicationStatus
    <3> QED  BY <2>0, <2>1, <3>1, <3>2 DEF RssBegin
  <2>2. CASE RssPublish(a)  BY <2>0, <2>2 DEF RssPublish
  <2>3. CASE Validate(a)  BY <2>0, <2>3 DEF Validate
  <2>4. CASE StopForHuman(a)  BY <2>0, <2>4 DEF StopForHuman
  <2>5. CASE Submit(a)
    <3>1. uploads' \in [Episodes -> Nat]
      <4>1. /\ uploads \in [Episodes -> Nat]
            /\ uploads' = [uploads EXCEPT ![EpisodeOf(a)] = @ + 1]
        BY <2>0, <2>5 DEF Submit
      <4>2. \A n \in Nat : n + 1 \in Nat  OBVIOUS
      <4> HIDE DEF TypeOK, EpisodeOf
      <4> QED  BY <4>1, <4>2
    <3>2. task' \in [Actors -> ActorTask]  BY <2>0, <2>5 DEF Submit
    <3> HIDE DEF TargetRow, ActorTask
    <3> QED  BY <2>0, <2>5, <3>1, <3>2 DEF Submit
  <2>6. CASE Confirm(a)  BY <2>0, <2>6 DEF Confirm
  <2>7. CASE XiaoyuzhouPublish(a)  BY <2>0, <2>7 DEF XiaoyuzhouPublish
  <2>8. CASE AbandonRss(a)
    <3>1. task[a].target \in Targets  BY <2>8 DEF AbandonRss, IInv
    <3> QED  BY <2>0, <2>8, <3>1 DEF AbandonRss
  <2>9. CASE RecordResult(a)
    <3>1. /\ task[a].target \in Targets /\ task[a].outcome \in TargetStatus
          /\ Recorded(a, targets[task[a].target]) \in TargetRow
      <4>1. /\ task[a].target \in Targets /\ task[a].outcome \in TargetStatus
            /\ targets[task[a].target] \in TargetRow
        BY <2>0, <2>9 DEF RecordResult, IInv
      <4> HIDE DEF TargetRow, TargetStatus, IInv, TypeOK, Attempts, RssAttempts, Submissions
      <4> QED  BY <4>1, RowEdits DEF Recorded
    <3>2. task' \in [Actors -> ActorTask]  BY <2>0, <2>9, <3>1 DEF RecordResult
    <3> HIDE DEF TargetRow, ActorTask, Targets, Actors
    <3> QED  BY <2>0, <2>9, <3>1, <3>2 DEF RecordResult
  <2> QED  BY <2>1, <2>2, <2>3, <2>4, <2>5, <2>6, <2>7, <2>8, <2>9 DEF AttemptSteps
<1>3. CASE EndPublish  BY <1>3 DEF EndPublish
<1>4. CASE \E p \in Platforms : VisitTarget(p)
  <2> PICK p \in Platforms : VisitTarget(p)  BY <1>4
  <2> DEFINE t == <<task[worker].target[1], p>>
  <2>1. /\ t \in Targets /\ targets[t] \in TargetRow /\ targets[t].attempts < MaxAttempts
        /\ worker \in Actors /\ left' = left \ {p}
        /\ UNCHANGED <<rss, lost, misread, uploads, proc, todo, boots>>
    BY DEF VisitTarget, Turn, WorkersShare, EpisodeOf
  <2>2. CASE UNCHANGED <<targets, task>>  BY <2>1, <2>2
  <2>3. CASE /\ targets' = [targets EXCEPT ![t] = BegunRow(EnsuredRow(@))]
             /\ task' = [task EXCEPT ![worker] = Attempt(t)]
    <3>1. BegunRow(EnsuredRow(targets[t])) \in TargetRow
      <4>1. EnsuredRow(targets[t]) \in TargetRow /\ EnsuredRow(targets[t]).attempts < MaxAttempts
        BY <2>1, RowEdits DEF TargetStatus
      <4> HIDE DEF TargetRow, t
      <4> QED  BY <4>1, RowEdits DEF TargetStatus
    <3>2. Attempt(t) \in ActorTask  BY <2>1 DEF Attempt, Asset
    <3> HIDE DEF TargetRow, ActorTask, t
    <3> QED  BY <2>1, <2>3, <3>1, <3>2
  <2> QED  BY <2>2, <2>3 DEF VisitTarget
<1>5. CASE Boot  BY <1>5 DEF Boot, WithStatus
<1>6. CASE Serve  BY <1>6 DEF Serve
<1>7. CASE \E e \in Episodes : ReconcileRss(e)  BY <1>7 DEF ReconcileRss
<1>8. CASE \E t \in Targets : ReconcileTarget(t)
  <2> PICK t \in Targets : ReconcileTarget(t)  BY <1>8
  <2> PICK s \in Checked(t) : targets' = [targets EXCEPT ![t] = RecordedRow(@, s)]
    BY DEF ReconcileTarget
  <2>1. s \in TargetStatus  BY DEF Checked, CheckedRss, RssOutcome, CheckedNetEase
  <2>2. targets[t] \in TargetRow  OBVIOUS
  <2>3. RecordedRow(targets[t], s) \in TargetRow
    <3> HIDE DEF TargetRow, TargetStatus, IInv, TypeOK
    <3> QED  BY <2>1, <2>2, RowEdits
  <2> HIDE DEF TargetRow, ActorTask
  <2> QED  BY <2>3 DEF ReconcileTarget
<1>14. CASE \E t \in Targets : MisreadTarget(t)
  <2> PICK t \in Targets : MisreadTarget(t)  BY <1>14
  <2>1. t[1] \in Episodes /\ targets[t] \in TargetRow  OBVIOUS
  <2>2. RecordedRow(targets[t], "failed") \in TargetRow
    <3>1. "failed" \in TargetStatus  OBVIOUS
    <3> HIDE DEF TargetRow, TargetStatus, IInv, TypeOK
    <3> QED  BY <2>1, <3>1, RowEdits
  <2> HIDE DEF TargetRow, ActorTask
  <2> QED  BY <2>1, <2>2 DEF MisreadTarget
<1>9. CASE Crash  BY <1>9 DEF Crash
<1>10. CASE \E a \in Requests, t \in Targets : Resume(a, t)
  <2> PICK a \in Requests, t \in Targets : Resume(a, t)  BY <1>10
  <2>1. BegunRow(targets[t]) \in TargetRow /\ Attempt(t) \in ActorTask
    BY RowEdits DEF Resume, Resumable, Attempt, Asset
  <2> HIDE DEF TargetRow, ActorTask
  <2> QED  BY <2>1 DEF Resume
<1>11. CASE \E e \in Episodes : StartPublish(e)
  <2> PICK e \in Episodes : StartPublish(e)  BY <1>11
  <2>1. [Idle EXCEPT !.at = "visit", !.target = <<e, "rss">>] \in ActorTask  OBVIOUS
  <2> HIDE DEF TargetRow, ActorTask, Idle
  <2> QED  BY <2>1 DEF StartPublish
<1>12. CASE \E e \in Episodes : LoseMedia(e)  BY <1>12 DEF LoseMedia
<1>13. CASE \E t \in Targets : ReportTarget(t)
  <2> PICK t \in Targets : ReportTarget(t)  BY <1>13
  <2>1. EnsuredRow(targets[t]) \in TargetRow  BY RowEdits
  <2> HIDE DEF TargetRow, ActorTask
  <2> QED  BY <2>1 DEF ReportTarget
<1> QED
  BY <1>1, <1>2, <1>3, <1>4, <1>5, <1>6, <1>7, <1>8, <1>9, <1>10, <1>11, <1>12, <1>13, <1>14
     DEF Next, WorkerSteps, StartupSteps

(* What is known of an actor in the midst of an attempt.                   *)
LEMMA BusyFacts ==
  ASSUME IInv, NEW a \in Actors, Busy(a)
  PROVE  /\ EpisodeOf(a) \in Episodes /\ Platform(a) \in Platforms
         /\ task[a].target = <<EpisodeOf(a), Platform(a)>>
         /\ task[a].target \in Targets /\ targets[task[a].target] \in TargetRow
         /\ Status(task[a].target) = "publishing"
         /\ proc = "up"
         /\ \A b \in Actors : Busy(b) /\ task[b].target = task[a].target => b = a
<1>1. task[a].target \in Targets /\ Status(task[a].target) = "publishing"
  BY DEF IInv, Attempts, OneAttempt
<1>2. /\ EpisodeOf(a) \in Episodes /\ Platform(a) \in Platforms
      /\ task[a].target = <<EpisodeOf(a), Platform(a)>>
  BY <1>1 DEF Targets, EpisodeOf, Platform
<1>3. targets[task[a].target] \in TargetRow  BY <1>1 DEF IInv, TypeOK
<1>4. proc = "up"  BY DEF IInv, Startup, Busy, Idle
<1>5. \A b \in Actors : Busy(b) /\ task[b].target = task[a].target => b = a
  BY DEF IInv, OneAttempt
<1> QED  BY <1>1, <1>2, <1>3, <1>4, <1>5

(* An attempt at RSS is the only one at its Episode.                       *)
LEMMA RssIsAlone ==
  ASSUME IInv, NEW a \in Actors, Busy(a), Platform(a) = "rss",
         rss[EpisodeOf(a)] # "published", NEW b \in Actors, Busy(b), b # a
  PROVE  EpisodeOf(b) # EpisodeOf(a) /\ Platform(b) # "rss" /\ b # worker
<1>1. a = worker /\ Platform(b) # "rss"  BY DEF IInv, RssAttempts
<1>2. rss[EpisodeOf(b)] = "published"  BY <1>1 DEF IInv, Attempts
<1> QED  BY <1>1, <1>2

(* The publication of an Episode moves on at the worker, and nothing else does. *)
RssGoesOn(a) ==
  /\ Busy(a) /\ Platform(a) = "rss" /\ rss[EpisodeOf(a)] # "published"
  /\ UNCHANGED <<targets, lost, uploads, proc, left, todo>>
  /\ \A d \in Episodes : d # EpisodeOf(a) => rss'[d] = rss[d]
  /\ \A b \in Actors : b # a => task'[b] = task[b]
  /\ \A d \in Episodes : d # EpisodeOf(a) => (d \in misread' <=> d \in misread)
  /\ task'[a].target = task[a].target
  /\ \/ task'[a].at = "promote" /\ rss'[EpisodeOf(a)] = "publishing"
     \/ /\ task'[a].at = "record" /\ task'[a].outcome \in {"published", "failed"}
        /\ rss'[EpisodeOf(a)] = task'[a].outcome
     \/ /\ task'[a].at = "record" /\ task'[a].outcome = "failed"
        /\ EpisodeOf(a) \in misread'

LEMMA RssGoesOnKeeps ==
  ASSUME IInv, TypeOK', NEW a \in Actors, RssGoesOn(a)
  PROVE  IInv'
<1>1. /\ a = worker /\ EpisodeOf(a) \in Episodes /\ task[a].target = <<EpisodeOf(a), "rss">>
      /\ Status(<<EpisodeOf(a), "rss">>) = "publishing" /\ proc = "up"
  BY BusyFacts DEF RssGoesOn, IInv, RssAttempts
<1>2. ASSUME NEW b \in Actors, Busy(b), b # a
      PROVE  EpisodeOf(b) \in Episodes /\ EpisodeOf(b) # EpisodeOf(a) /\ Platform(b) # "rss"
  BY <1>2, BusyFacts, RssIsAlone DEF RssGoesOn
<1>3. \A b \in Actors : /\ Busy(b)' = Busy(b) /\ (task[b].target)' = task[b].target
                        /\ Platform(b)' = Platform(b) /\ EpisodeOf(b)' = EpisodeOf(b)
  BY DEF RssGoesOn, Busy, Platform, EpisodeOf
<1>4. OneAttempt'  BY <1>1, <1>3 DEF RssGoesOn, IInv, OneAttempt, Status, WithStatus
<1>5. Startup'  BY <1>1 DEF RssGoesOn, IInv, Startup
<1>6. ExternalRows'
  <2>1. \A e \in Episodes : rss'[e] # "published" => rss[e] # "published"  BY DEF RssGoesOn
  <2> QED  BY <2>1 DEF RssGoesOn, IInv, ExternalRows
<1>7. RssRows'
  <2> SUFFICES ASSUME NEW e \in Episodes
               PROVE  Agree(targets[<<e, "rss">>].status, rss'[e], e \in misread')
    BY DEF RssGoesOn, RssRows, Status, Agree
  <2>1. targets[<<e, "rss">>].status # "publishing" =>
          rss'[e] = rss[e] /\ (e \in misread' <=> e \in misread)
    BY <1>1 DEF RssGoesOn, Status
  <2> QED  BY <2>1 DEF IInv, RssRows, Agree, Status
<1>8. Attempts'
  <2> SUFFICES ASSUME NEW b \in Actors, Busy(b)'
               PROVE  /\ (task[b].target)' \in Targets
                      /\ task'[b].at \in {"form", "submitted"} => Platform(b)' = "netease"
                      /\ task'[b].at = "promote" => Platform(b)' = "rss"
                      /\ task'[b].at = "record" =>
                            task'[b].outcome \in {"published", "failed", "needs_attention"}
                      /\ Platform(b)' # "rss" => rss'[EpisodeOf(b)'] = "published"
                      /\ b = worker /\ Platform(b)' # "rss" => targets'[task'[b].target].attempts = 1
    BY DEF Attempts
  <2>1. CASE b = a  BY <2>1, <1>1, <1>3, BusyFacts DEF RssGoesOn
  <2>2. CASE b # a
    <3>1. task'[b] = task[b] /\ Busy(b) /\ EpisodeOf(b) \in Episodes /\ EpisodeOf(b) # EpisodeOf(a)
      BY <2>2, <1>2, <1>3 DEF RssGoesOn
    <3>2. rss'[EpisodeOf(b)] = rss[EpisodeOf(b)] /\ targets' = targets  BY <3>1 DEF RssGoesOn
    <3> QED  BY <3>1, <3>2, <1>3 DEF IInv, Attempts
  <2> QED  BY <2>1, <2>2
<1>9. RssAttempts'  BY <1>1, <1>2, <1>3 DEF RssGoesOn, RssAttempts
<1>10. WorkersShare'
  <2>1. task[worker].at \notin {"idle", "visit"} /\ task'[worker].at \notin {"idle", "visit"}
    BY <1>1 DEF RssGoesOn, Busy
  <2>2. \A b \in Requests : task'[b] = task[b]
    BY <1>1, DistributionConstantsOK DEF RssGoesOn, Actors
  <2>3. EpisodeOf(worker)' = EpisodeOf(worker) /\ UNCHANGED <<targets, left>>
    BY <1>1, <1>3 DEF RssGoesOn
  <2> QED  BY <2>1, <2>2, <2>3 DEF IInv, WorkersShare
<1>11. Submissions'
  <2>1. \A b \in Actors : Platform(b)' = "netease" => task'[b] = task[b]
    BY <1>3 DEF RssGoesOn
  <2> QED  BY <2>1, <1>3 DEF RssGoesOn, IInv, Submissions, Status
<1> QED  BY <1>4, <1>5, <1>6, <1>7, <1>8, <1>9, <1>10, <1>11 DEF IInv

(* Both halves of the RSS adapter, and its failure to read the files.      *)
LEMMA RssKeeps ==
  ASSUME IInv, TypeOK', NEW a \in Actors,
         RssBegin(a) \/ RssPublish(a) \/ AbandonRss(a)
  PROVE  IInv'
<1>0. task \in [Actors -> ActorTask] /\ rss \in [Episodes -> PublicationStatus]
  BY DEF IInv, TypeOK
<1>1. CASE RssBegin(a)
  <2>1. Busy(a) /\ Platform(a) = "rss" /\ task[a].at = "validate"
    BY <1>1 DEF RssBegin, At, Busy
  <2>2. rss[EpisodeOf(a)] # "published"  BY <2>1 DEF IInv, RssAttempts, Unpublished
  <2>3. EpisodeOf(a) \in Episodes  BY <2>1, BusyFacts
  <2>4. /\ rss' = [rss EXCEPT ![EpisodeOf(a)] = "publishing"]
        /\ task' = [task EXCEPT ![a].at = "promote"]
        /\ misread' = misread \ {EpisodeOf(a)}
        /\ UNCHANGED <<targets, lost, uploads, proc, left, todo>>
    BY <1>1 DEF RssBegin, Move
  <2>5. RssGoesOn(a)  BY <1>0, <2>1, <2>2, <2>3, <2>4 DEF RssGoesOn, ActorTask
  <2> QED  BY <2>5, RssGoesOnKeeps
<1>2. CASE RssPublish(a)
  <2>1. Busy(a) /\ task[a].at = "promote"  BY <1>2 DEF RssPublish, At, Busy
  <2>2. Platform(a) = "rss"  BY <2>1 DEF IInv, Attempts
  <2>3. rss[EpisodeOf(a)] = "publishing"  BY <2>1, <2>2 DEF IInv, RssAttempts
  <2>4. EpisodeOf(a) \in Episodes  BY <2>1, BusyFacts
  <2>5. PICK o \in {"published", "failed"} :
          /\ rss' = [rss EXCEPT ![EpisodeOf(a)] = o]
          /\ task' = [task EXCEPT ![a].at = "record", ![a].outcome = o]
          /\ UNCHANGED <<targets, lost, misread, uploads, proc, left, todo>>
    BY <1>2 DEF RssPublish, Conclude
  <2>6. RssGoesOn(a)  BY <1>0, <2>1, <2>2, <2>3, <2>4, <2>5 DEF RssGoesOn, ActorTask
  <2> QED  BY <2>6, RssGoesOnKeeps
<1>3. CASE AbandonRss(a)
  <2>1. Busy(a) /\ task[a].at = "promote"  BY <1>3 DEF AbandonRss, At, Busy
  <2>2. Platform(a) = "rss"  BY <2>1 DEF IInv, Attempts
  <2>3. rss[EpisodeOf(a)] = "publishing"  BY <2>1, <2>2 DEF IInv, RssAttempts
  <2>4. /\ task' = [task EXCEPT ![a].at = "record", ![a].outcome = "failed"]
        /\ misread' = misread \cup {EpisodeOf(a)}
        /\ UNCHANGED <<targets, rss, lost, uploads, proc, left, todo>>
    BY <1>3 DEF AbandonRss, Conclude
  <2>5. RssGoesOn(a)  BY <1>0, <2>1, <2>2, <2>3, <2>4 DEF RssGoesOn, ActorTask
  <2> QED  BY <2>5, RssGoesOnKeeps
<1> QED  BY <1>1, <1>2, <1>3

(* An attempt outside RSS moves on, and nothing else does.                 *)
GoesOn(a) ==
  /\ Busy(a) /\ Platform(a) # "rss"
  /\ UNCHANGED <<targets, rss, lost, misread, proc, left, todo>>
  /\ \A b \in Actors : b # a => task'[b] = task[b]
  /\ task'[a].target = task[a].target /\ task'[a].at \in {"form", "submitted", "record"}
  /\ task'[a].at # "record" => Platform(a) = "netease"
  /\ task'[a].at = "record" => task'[a].outcome \in {"published", "failed", "needs_attention"}

LEMMA GoesOnKeeps ==
  ASSUME IInv, TypeOK', NEW a \in Actors, GoesOn(a), Submissions'
  PROVE  IInv'
<1>1. \A b \in Actors : /\ Busy(b)' = Busy(b) /\ (task[b].target)' = task[b].target
                        /\ Platform(b)' = Platform(b) /\ EpisodeOf(b)' = EpisodeOf(b)
  BY DEF GoesOn, Busy, Platform, EpisodeOf
<1>2. proc = "up" /\ proc' = "up"  BY BusyFacts DEF GoesOn
<1>3. OneAttempt'  BY <1>1, <1>2 DEF GoesOn, IInv, OneAttempt, Status, WithStatus
<1>4. Startup'  BY <1>2 DEF GoesOn, IInv, Startup
<1>5. ExternalRows'  BY DEF GoesOn, IInv, ExternalRows
<1>6. RssRows'  BY DEF GoesOn, IInv, RssRows, Status
<1>7. Attempts'  BY <1>1 DEF GoesOn, IInv, Attempts
<1>8. RssAttempts'  BY <1>1 DEF GoesOn, IInv, RssAttempts
<1>9. WorkersShare'
  <2>1. CASE a = worker
    <3>1. task[worker].at \notin {"idle", "visit"} /\ task'[worker].at \notin {"idle", "visit"}
      BY <2>1 DEF GoesOn, Busy
    <3>2. \A b \in Requests : task'[b] = task[b]
      BY <2>1, DistributionConstantsOK DEF GoesOn, Actors
    <3>3. EpisodeOf(worker)' = EpisodeOf(worker) /\ UNCHANGED <<targets, rss, left>>
      BY <2>1, <1>1 DEF GoesOn
    <3> QED  BY <3>1, <3>2, <3>3 DEF IInv, WorkersShare
  <2>2. CASE a # worker
    <3>1. task'[worker] = task[worker]  BY <2>2 DEF GoesOn, Actors
    <3>2. \A b \in Requests : task'[b].at # "visit"
      BY DEF GoesOn, IInv, WorkersShare, Actors
    <3>3. UNCHANGED <<targets, rss, left>> /\ EpisodeOf(worker)' = EpisodeOf(worker)
      BY <3>1 DEF GoesOn, EpisodeOf
    <3> QED  BY <3>1, <3>2, <3>3 DEF IInv, WorkersShare
  <2> QED  BY <2>1, <2>2
<1> QED  BY <1>3, <1>4, <1>5, <1>6, <1>7, <1>8, <1>9 DEF IInv

(* Without a submission it needs an earlier one to be called published.    *)
LEMMA UnsentKeeps ==
  ASSUME IInv, TypeOK', NEW a \in Actors, GoesOn(a), uploads' = uploads,
         task'[a].at # "submitted", task'[a].at = "form" => task[a].at = "validate",
         task'[a].at = "record" /\ task'[a].outcome = "published" => task[a].at = "submitted"
  PROVE  IInv'
<1>1. UNCHANGED <<targets, uploads>>  BY DEF GoesOn
<1>2. ASSUME NEW b \in Actors, Busy(b)', Platform(b)' = "netease"
      PROVE  /\ task'[b].at \in {"validate", "form"} =>
                  uploads[EpisodeOf(b)'] < targets[task'[b].target].attempts
             /\ task'[b].at = "submitted" \/ (task'[b].at = "record" /\ task'[b].outcome = "published")
                  => uploads[EpisodeOf(b)'] > 0
  <2>1. Busy(b) /\ Platform(b) = "netease" /\ EpisodeOf(b)' = EpisodeOf(b)
        /\ task'[b].target = task[b].target
    BY <1>2 DEF GoesOn, Busy, Platform, EpisodeOf
  <2>2. b # a => task'[b] = task[b]  BY DEF GoesOn
  <2>3. b = a => task'[b].at \in {"form", "submitted", "record"}  BY DEF GoesOn
  <2> QED  BY <2>1, <2>2, <2>3 DEF IInv, Submissions
<1>3. Submissions'  BY <1>1, <1>2 DEF IInv, Submissions, Status
<1> QED  BY <1>3, GoesOnKeeps

(* The steps of an adapter other than the click on submit.                 *)
LEMMA AdapterKeeps ==
  ASSUME IInv, TypeOK', NEW a \in Actors,
         Validate(a) \/ StopForHuman(a) \/ Confirm(a) \/ XiaoyuzhouPublish(a)
  PROVE  IInv'
<1>0. task \in [Actors -> ActorTask]  BY DEF IInv, TypeOK
<1>1. CASE Validate(a)
  <2>1. Busy(a) /\ task[a].at = "validate" /\ Platform(a) = "netease"
    BY <1>1 DEF Validate, At, Busy
  <2>2. Move(a, "form") \/ Conclude(a, "failed") \/ Conclude(a, "needs_attention")
    BY <1>1 DEF Validate
  <2>3. /\ \A b \in Actors : b # a => task'[b] = task[b]
        /\ task'[a].target = task[a].target
        /\ \/ task'[a].at = "form"
           \/ task'[a].at = "record" /\ task'[a].outcome \in {"failed", "needs_attention"}
    BY <1>0, <2>2 DEF Move, Conclude, ActorTask
  <2>4. UNCHANGED <<targets, rss, lost, misread, uploads, proc, left, todo>>  BY <1>1 DEF Validate, tables
  <2>5. GoesOn(a)  BY <2>1, <2>3, <2>4 DEF GoesOn
  <2> QED  BY <2>1, <2>3, <2>4, <2>5, UnsentKeeps
<1>2. CASE StopForHuman(a)
  <2>1. Busy(a) /\ task[a].at \in {"form", "submitted"}  BY <1>2 DEF StopForHuman, At, Busy
  <2>2. Platform(a) = "netease"  BY <2>1 DEF IInv, Attempts
  <2>3. Conclude(a, "failed") \/ Conclude(a, "needs_attention")  BY <1>2 DEF StopForHuman
  <2>4. /\ \A b \in Actors : b # a => task'[b] = task[b]
        /\ task'[a].target = task[a].target
        /\ task'[a].at = "record" /\ task'[a].outcome \in {"failed", "needs_attention"}
    BY <1>0, <2>3 DEF Conclude, ActorTask
  <2>5. UNCHANGED <<targets, rss, lost, misread, uploads, proc, left, todo>>  BY <1>2 DEF StopForHuman, tables
  <2>6. GoesOn(a)  BY <2>1, <2>2, <2>4, <2>5 DEF GoesOn
  <2> QED  BY <2>4, <2>5, <2>6, UnsentKeeps
<1>3. CASE Confirm(a)
  <2>1. Busy(a) /\ task[a].at = "submitted"  BY <1>3 DEF Confirm, At, Busy
  <2>2. Platform(a) = "netease"  BY <2>1 DEF IInv, Attempts
  <2>3. /\ \A b \in Actors : b # a => task'[b] = task[b]
        /\ task'[a].target = task[a].target
        /\ task'[a].at = "record" /\ task'[a].outcome = "published"
    BY <1>0, <1>3 DEF Confirm, Conclude, ActorTask
  <2>4. UNCHANGED <<targets, rss, lost, misread, uploads, proc, left, todo>>  BY <1>3 DEF Confirm, tables
  <2>5. GoesOn(a)  BY <2>1, <2>2, <2>3, <2>4 DEF GoesOn
  <2> QED  BY <2>1, <2>3, <2>4, <2>5, UnsentKeeps
<1>4. CASE XiaoyuzhouPublish(a)
  <2>1. Busy(a) /\ Platform(a) = "xiaoyuzhou"  BY <1>4 DEF XiaoyuzhouPublish, At, Busy
  <2>2. /\ \A b \in Actors : b # a => task'[b] = task[b]
        /\ task'[a].target = task[a].target
        /\ task'[a].at = "record" /\ task'[a].outcome = "needs_attention"
    BY <1>0, <1>4 DEF XiaoyuzhouPublish, Conclude, ActorTask
  <2>3. UNCHANGED <<targets, rss, lost, misread, uploads, proc, left, todo>>
    BY <1>4 DEF XiaoyuzhouPublish, tables
  <2>4. GoesOn(a)  BY <2>1, <2>2, <2>3 DEF GoesOn
  <2> QED  BY <2>2, <2>3, <2>4, UnsentKeeps
<1> QED  BY <1>1, <1>2, <1>3, <1>4

(* A submission spends the attempt it belongs to.                         *)
LEMMA SubmitKeeps ==
  ASSUME IInv, TypeOK', NEW a \in Actors, Submit(a)
  PROVE  IInv'
<1> DEFINE e == EpisodeOf(a)
<1>1. /\ Busy(a) /\ Platform(a) = "netease" /\ e \in Episodes
      /\ task[a].target = <<e, "netease">> /\ "netease" \in Platforms
      /\ \A b \in Actors : Busy(b) /\ b # a /\ Platform(b) = "netease" => EpisodeOf(b) # e
      /\ uploads[e] < targets[<<e, "netease">>].attempts
  <2>1. Busy(a) /\ task[a].at = "form"   BY DEF Submit, At, Busy
  <2>2. Platform(a) = "netease"  BY <2>1 DEF IInv, Attempts
  <2>3. uploads[e] < targets[task[a].target].attempts  BY <2>1, <2>2 DEF IInv, Submissions
  <2> QED  BY <2>1, <2>2, <2>3, BusyFacts
<1>2. /\ uploads' = [uploads EXCEPT ![e] = @ + 1]
      /\ task' = [task EXCEPT ![a].at = "submitted"]
      /\ targets' = targets
  BY DEF Submit, Move, tables
<1>3. uploads[e] \in Nat /\ targets[<<e, "netease">>].attempts \in Nat
      /\ uploads \in [Episodes -> Nat] /\ task \in [Actors -> ActorTask]
  BY <1>1 DEF IInv, TypeOK, TargetRow, Targets
<1>4. Submissions'
  <2>0. /\ uploads'[e] = uploads[e] + 1
        /\ \A d \in Episodes : d # e => uploads'[d] = uploads[d]
        /\ task'[a].at = "submitted" /\ task'[a].target = task[a].target
        /\ \A b \in Actors : b # a => task'[b] = task[b]
    BY <1>1, <1>2, <1>3 DEF ActorTask
  <2>1. uploads[e] + 1 <= targets[<<e, "netease">>].attempts /\ uploads[e] + 1 > 0
    BY <1>1, <1>3
  <2>2. /\ "netease" \notin Platforms => \A d \in Episodes : uploads'[d] = 0
    BY <1>1
  <2>3. ASSUME NEW d \in Episodes
        PROVE /\ uploads'[d] <= targets'[<<d, "netease">>].attempts
              /\ Status(<<d, "netease">>)' = "published" => uploads'[d] > 0
    BY <1>1, <1>2, <2>0, <2>1 DEF IInv, Submissions, Status
  <2>4. ASSUME NEW b \in Actors, Busy(b)', Platform(b)' = "netease"
        PROVE  /\ task'[b].at \in {"validate", "form"} =>
                    uploads'[EpisodeOf(b)'] < targets'[task'[b].target].attempts
               /\ task'[b].at = "submitted" \/ (task'[b].at = "record" /\ task'[b].outcome = "published")
                    => uploads'[EpisodeOf(b)'] > 0
    <3>1. CASE b = a  BY <3>1, <2>0, <2>1 DEF EpisodeOf
    <3>2. CASE b # a
      <4>1. Busy(b) /\ Platform(b) = "netease" /\ EpisodeOf(b)' = EpisodeOf(b) /\ task'[b] = task[b]
        BY <2>4, <3>2, <2>0 DEF Busy, Platform, EpisodeOf
      <4>2. EpisodeOf(b) \in Episodes /\ EpisodeOf(b) # e  BY <4>1, <1>1, <3>2, BusyFacts
      <4> HIDE DEF e
      <4> QED  BY <4>1, <4>2, <2>0, <1>2 DEF IInv, Submissions
    <3> QED  BY <3>1, <3>2
  <2> QED  BY <2>2, <2>3, <2>4 DEF Submissions
<1>5. UNCHANGED <<rss, lost, misread, proc, left, todo>>  BY DEF Submit, tables
<1>6. /\ \A b \in Actors : b # a => task'[b] = task[b]
      /\ task'[a].target = task[a].target /\ task'[a].at = "submitted"
  BY <1>2, <1>3 DEF ActorTask
<1>7. GoesOn(a)  BY <1>1, <1>2, <1>5, <1>6 DEF GoesOn
<1> QED  BY <1>4, <1>7, GoesOnKeeps

(* The row takes the outcome, and whoever tried it lets go of it.         *)
LEMMA RecordResultKeeps ==
  ASSUME IInv, TypeOK', NEW a \in Actors, RecordResult(a)
  PROVE  IInv'
<1> DEFINE t == task[a].target
           o == task[a].outcome
<1>1. /\ Busy(a) /\ t \in Targets /\ t = <<EpisodeOf(a), Platform(a)>>
      /\ EpisodeOf(a) \in Episodes /\ Platform(a) \in Platforms
      /\ targets[t] \in TargetRow /\ Status(t) = "publishing"
      /\ o \in {"published", "failed", "needs_attention"}
      /\ Platform(a) = "rss" =>
           /\ a = worker /\ o \in {"published", "failed"}
           /\ o = "published" => rss[EpisodeOf(a)] = "published"
           /\ EpisodeOf(a) \notin misread => rss[EpisodeOf(a)] = o
  <2>1. Busy(a) /\ task[a].at = "record"   BY DEF RecordResult, At, Busy
  <2>2. o \in {"published", "failed", "needs_attention"}  BY <2>1 DEF IInv, Attempts
  <2>3. Platform(a) = "rss" =>
          /\ a = worker /\ o \in {"published", "failed"}
          /\ o = "published" => rss[EpisodeOf(a)] = "published"
          /\ EpisodeOf(a) \notin misread => rss[EpisodeOf(a)] = o
    BY <2>1 DEF IInv, RssAttempts
  <2> QED  BY <2>1, <2>2, <2>3, BusyFacts
<1>2. /\ targets'[t].status = o /\ targets'[t].attempts = targets[t].attempts
      /\ \A s \in Targets : s # t => targets'[s] = targets[s]
      /\ UNCHANGED <<rss, lost, misread, uploads, proc, todo, boots>>
  <2>1. targets' = [targets EXCEPT ![t] = Recorded(a, @)]  BY DEF RecordResult
  <2>2. Recorded(a, targets[t]).status = o /\ Recorded(a, targets[t]).attempts = targets[t].attempts
    <3> HIDE DEF t, TargetRow
    <3> QED  BY <1>1, RowEdits DEF Recorded, TargetStatus
  <2> HIDE DEF t
  <2> QED  BY <1>1, <2>1, <2>2 DEF RecordResult, IInv, TypeOK
<1>3. /\ \A b \in Actors : b # a => task'[b] = task[b]
      /\ a # worker => task'[a] = Idle /\ left' = left
      /\ a = worker /\ Platform(a) = "rss" /\ o = "failed" => task'[a] = Idle /\ left' = {}
      /\ a = worker /\ (Platform(a) # "rss" \/ o # "failed") =>
            task'[a].at = "visit" /\ task'[a].target = t /\ left' = left
  BY DEF RecordResult, IInv, TypeOK, Idle, ActorTask
<1> HIDE DEF t, o
<1>4. RssRows'
  <2> SUFFICES ASSUME NEW e \in Episodes
               PROVE  Agree(targets'[<<e, "rss">>].status, rss[e], e \in misread)
    BY <1>2 DEF RssRows, Agree, Status
  <2>1. <<e, "rss">> \in Targets  BY DistributionConstantsOK DEF Targets
  <2>2. CASE <<e, "rss">> = t
    <3>1. e = EpisodeOf(a) /\ Platform(a) = "rss"  BY <2>2, <1>1
    <3>2. /\ o \in {"published", "failed"} /\ targets'[<<e, "rss">>].status = o
          /\ (o = "published" => rss[e] = "published") /\ (e \notin misread => rss[e] = o)
      BY <3>1, <2>2, <1>1, <1>2
    <3> QED  BY <3>2 DEF Agree
  <2>3. CASE <<e, "rss">> # t
    <3>1. targets'[<<e, "rss">>] = targets[<<e, "rss">>]  BY <2>1, <2>3, <1>2
    <3> QED  BY <3>1 DEF IInv, RssRows, Status
  <2> QED  BY <2>2, <2>3
<1>5. WorkersShare'
  <2>1. \A b \in Requests : task'[b].at # "visit"
    BY <1>1, <1>3, DistributionConstantsOK DEF IInv, WorkersShare, Actors, Idle
  <2>2. CASE a # worker
    <3>1. task'[worker] = task[worker] /\ left' = left
      BY <2>2, <1>3 DEF Actors
    <3>2. ASSUME NEW p \in left
          PROVE /\ targets'[<<EpisodeOf(worker), p>>].attempts < MaxAttempts
                /\ p # "rss" => /\ targets'[<<EpisodeOf(worker), p>>].attempts = 0
                                /\ targets'[<<EpisodeOf(worker), p>>].status \in Unbegun
      <4>0. task[worker].at # "idle" /\ EpisodeOf(worker) \in Episodes /\ p \in Platforms
        BY BusyFacts DEF Actors, IInv, TypeOK, WorkersShare, EpisodeOf, Busy, Targets
      <4>1. <<EpisodeOf(worker), p>> \in Targets  BY <4>0 DEF Targets
      <4>2. p # "rss" => Status(<<EpisodeOf(worker), p>>) \in Unbegun
        BY DEF IInv, WorkersShare, Status
      <4>3. p # "rss" => targets'[<<EpisodeOf(worker), p>>] = targets[<<EpisodeOf(worker), p>>]
        BY <1>1, <1>2, <4>1, <4>2 DEF Unbegun
      <4>4. p = "rss" => <<EpisodeOf(worker), p>> # t
        BY <1>1, <2>2
      <4> QED  BY <4>1, <4>3, <4>4, <1>2 DEF IInv, WorkersShare
    <3> QED  BY <2>1, <3>1, <3>2, <1>2 DEF IInv, WorkersShare, EpisodeOf
  <2>3. CASE a = worker /\ Platform(a) = "rss" /\ o = "failed"
    BY <2>1, <2>3, <1>3 DEF WorkersShare, Idle
  <2>4. CASE a = worker /\ (Platform(a) # "rss" \/ o # "failed")
    <3>1. /\ task'[worker].at = "visit" /\ task'[worker].target = t /\ left' = left
          /\ EpisodeOf(worker)' = EpisodeOf(worker) /\ rss' = rss
      BY <2>4, <1>2, <1>3 DEF EpisodeOf, t
    <3>2. "rss" \notin left  BY <2>4, <1>1 DEF IInv, WorkersShare, Busy
    <3>3. rss[EpisodeOf(worker)] = "published"
      BY <2>4, <1>1 DEF IInv, Attempts
    <3>4. ASSUME NEW p \in left
          PROVE /\ targets'[<<EpisodeOf(worker), p>>].attempts < MaxAttempts
                /\ targets'[<<EpisodeOf(worker), p>>].attempts = 0
                /\ targets'[<<EpisodeOf(worker), p>>].status \in Unbegun
      <4>1. <<EpisodeOf(worker), p>> \in Targets
        BY <2>4, <1>1 DEF Targets, IInv, TypeOK
      <4>2. Status(<<EpisodeOf(worker), p>>) \in Unbegun
        BY <3>2 DEF IInv, WorkersShare, Status
      <4>3. targets'[<<EpisodeOf(worker), p>>] = targets[<<EpisodeOf(worker), p>>]
        BY <1>1, <1>2, <4>1, <4>2 DEF Unbegun
      <4> QED  BY <3>2, <4>3 DEF IInv, WorkersShare
    <3> QED  BY <2>1, <2>4, <3>1, <3>2, <3>3, <3>4, <1>1 DEF WorkersShare, Targets
  <2> QED  BY <2>2, <2>3, <2>4
<1>6. /\ ~ Busy(a)' /\ proc = "up"
      /\ \A b \in Actors : b # a =>
           /\ Busy(b)' = Busy(b) /\ (task[b].target)' = task[b].target
           /\ Platform(b)' = Platform(b) /\ EpisodeOf(b)' = EpisodeOf(b)
           /\ Busy(b) => task[b].target # t /\ task[b].target \in Targets
  <2>1. ~ Busy(a)'  BY <1>1, <1>3 DEF Busy, Idle
  <2>2. \A b \in Actors : Busy(b) /\ b # a => task[b].target # t /\ task[b].target \in Targets
    BY <1>1, BusyFacts DEF t
  <2> QED  BY <2>1, <2>2, <1>1, <1>3, BusyFacts DEF Busy, Platform, EpisodeOf
<1>7. /\ \A b \in Actors : Busy(b)' => task'[b] = task[b] /\ Busy(b)
                                     /\ targets'[task[b].target] = targets[task[b].target]
                                     /\ Platform(b)' = Platform(b) /\ EpisodeOf(b)' = EpisodeOf(b)
      /\ UNCHANGED <<rss, misread, uploads>>
  BY <1>2, <1>3, <1>6
<1>8. OneAttempt'
  <2>1. \A b \in Actors : Busy(b)' => targets'[task'[b].target].status = "publishing"
    <3>1. \A b \in Actors : Busy(b) => targets[task[b].target].status = "publishing"
      BY DEF IInv, OneAttempt, Status
    <3> QED  BY <3>1, <1>7
  <2>2. \A b, c \in Actors : Busy(b)' /\ Busy(c)' /\ task'[b].target = task'[c].target => b = c
    BY <1>7 DEF IInv, OneAttempt
  <2>3. ASSUME NEW u \in WithStatus("publishing")'
        PROVE  \E b \in Actors : Busy(b)' /\ task'[b].target = u
    <3>1. u \in Targets /\ u # t /\ Status(u) = "publishing"
      BY <1>1, <1>2 DEF WithStatus, Status
    <3>2. PICK b \in Actors : Busy(b) /\ task[b].target = u
      BY <3>1, <1>6 DEF IInv, OneAttempt, WithStatus
    <3>3. b # a  BY <3>1, <3>2 DEF t
    <3> QED  BY <3>2, <3>3, <1>6
  <2> QED  BY <2>1, <2>2, <2>3 DEF OneAttempt, Status
<1>9. Startup'  BY <1>2, <1>6 DEF Startup, IInv
<1>10. ExternalRows'
  <2> SUFFICES ASSUME NEW e \in Episodes, NEW p \in Platforms \ {"rss"}, rss[e] # "published"
               PROVE  targets'[<<e, p>>].attempts = 0 /\ targets'[<<e, p>>].status \in Unbegun
    BY <1>7 DEF ExternalRows
  <2>1. <<e, p>> \in Targets  BY DEF Targets
  <2>2. Platform(a) # "rss" => rss[EpisodeOf(a)] = "published"  BY <1>1 DEF IInv, Attempts
  <2>3. <<e, p>> # t  BY <1>1, <2>2
  <2> QED  BY <2>1, <2>3, <1>2 DEF IInv, ExternalRows
<1>11. Attempts'  BY <1>7 DEF IInv, Attempts
<1>12. RssAttempts'  BY <1>7 DEF IInv, RssAttempts
<1>13. Submissions'
  <2>1. "netease" \in Platforms /\ t[2] = "netease" /\ o = "published" => uploads[EpisodeOf(a)] > 0
    BY <1>1 DEF IInv, Submissions, RecordResult, At, t, o, Platform
  <2>2. ASSUME "netease" \in Platforms, NEW e \in Episodes
        PROVE  /\ uploads[e] <= targets'[<<e, "netease">>].attempts
               /\ targets'[<<e, "netease">>].status = "published" => uploads[e] > 0
    <3>1. <<e, "netease">> \in Targets  BY <2>2 DEF Targets
    <3>2. uploads[e] <= targets[<<e, "netease">>].attempts
          /\ (targets[<<e, "netease">>].status = "published" => uploads[e] > 0)
      BY <2>2 DEF IInv, Submissions, Status
    <3> QED  BY <3>1, <3>2, <2>1, <2>2, <1>1, <1>2
  <2>3. ASSUME NEW b \in Actors, Busy(b)', Platform(b)' = "netease"
        PROVE  /\ task'[b].at \in {"validate", "form"} =>
                    uploads[EpisodeOf(b)'] < targets'[task'[b].target].attempts
               /\ task'[b].at = "submitted" \/ (task'[b].at = "record" /\ task'[b].outcome = "published")
                    => uploads[EpisodeOf(b)'] > 0
    BY <2>3, <1>7 DEF IInv, Submissions
  <2>4. "netease" \notin Platforms => \A e \in Episodes : uploads[e] = 0
    BY DEF IInv, Submissions
  <2> QED  BY <2>2, <2>3, <2>4, <1>7 DEF Submissions, Status
<1> QED  BY <1>4, <1>5, <1>8, <1>9, <1>10, <1>11, <1>12, <1>13 DEF IInv

(* The worker has nothing left to visit.                                  *)
LEMMA EndPublishKeeps ==
  ASSUME IInv, TypeOK', EndPublish
  PROVE  IInv'
<1> USE DistributionConstantsOK
    DEF IInv, TypeOK, TargetRow, ActorTask, Places, Targets, Actors, At, Idle, Busy, Status,
        WithStatus, Platform, EpisodeOf, tables, Unbegun, Unpublished, EndPublish
<1>1. OneAttempt'  BY DEF OneAttempt, Attempts, RssAttempts, WorkersShare, Startup
<1>2. Startup'  BY DEF Startup
<1>3. ExternalRows'  BY DEF ExternalRows, RssRows, Attempts, RssAttempts
<1>4. RssRows'  BY DEF RssRows, Agree
<1>5. Attempts'  BY DEF Attempts, ExternalRows, RssRows, WorkersShare
<1>6. RssAttempts'  BY DEF RssAttempts, RssRows, Attempts, WorkersShare, OneAttempt
<1>7. WorkersShare'  BY DEF WorkersShare, Attempts, RssAttempts, ExternalRows, Startup
<1>8. Submissions'  BY DEF Submissions, ExternalRows, Attempts, WorkersShare, OneAttempt
<1> QED  BY <1>1, <1>2, <1>3, <1>4, <1>5, <1>6, <1>7, <1>8

(* An attempt that begins at a row nobody tries keeps all but the worker's share. *)
LEMMA BeginKeeps ==
  ASSUME IInv, NEW a \in Actors, NEW t \in Targets,
         ~Busy(a), proc = "up", Status(t) # "publishing",
         t[2] # "rss" => rss[t[1]] = "published",
         t[2] = "rss" => a = worker /\ rss[t[1]] \in Unpublished,
         a = worker /\ t[2] # "rss" => targets[t].attempts = 0,
         targets'[t].status = "publishing",
         targets'[t].attempts = targets[t].attempts + 1,
         \A u \in Targets : u # t => targets'[u] = targets[u],
         task'[a] = Attempt(t),
         \A b \in Actors : b # a => task'[b] = task[b],
         UNCHANGED <<rss, misread, uploads, proc, todo>>
  PROVE  /\ OneAttempt' /\ Startup' /\ ExternalRows' /\ RssRows'
         /\ Attempts' /\ RssAttempts' /\ Submissions'
<1> USE DEF Status
<1>1. /\ task'[a].at = "validate" /\ task'[a].target = t /\ Busy(a)'
      /\ EpisodeOf(a)' = t[1] /\ Platform(a)' = t[2] /\ t = <<t[1], t[2]>>
      /\ t[1] \in Episodes /\ t[2] \in Platforms
  BY DEF Attempt, Busy, EpisodeOf, Platform, Targets
<1>2. \A b \in Actors : b # a =>
        /\ Busy(b)' = Busy(b) /\ Platform(b)' = Platform(b) /\ EpisodeOf(b)' = EpisodeOf(b)
        /\ (task[b].target)' = task[b].target
        /\ Busy(b) => task[b].target \in Targets /\ task[b].target # t
                      /\ targets'[task[b].target] = targets[task[b].target]
  <2>1. \A b \in Actors : Busy(b) =>
          task[b].target \in Targets /\ targets[task[b].target].status = "publishing"
    BY DEF IInv, OneAttempt, Attempts
  <2>2. \A b \in Actors : b # a =>
        /\ Busy(b)' = Busy(b) /\ Platform(b)' = Platform(b) /\ EpisodeOf(b)' = EpisodeOf(b)
        /\ (task[b].target)' = task[b].target
    BY DEF Busy, Platform, EpisodeOf
  <2> QED  BY <2>1, <2>2
<1>3. OneAttempt'
  <2>1. \A b \in Actors : Busy(b)' => targets'[task'[b].target].status = "publishing"
    BY <1>1, <1>2 DEF IInv, OneAttempt
  <2>2. \A b, c \in Actors : Busy(b)' /\ Busy(c)' /\ task'[b].target = task'[c].target => b = c
    BY <1>1, <1>2 DEF IInv, OneAttempt
  <2>3. \A u \in WithStatus("publishing")' : \E b \in Actors : Busy(b)' /\ task'[b].target = u
    BY <1>1, <1>2 DEF IInv, OneAttempt, WithStatus
  <2> QED  BY <2>1, <2>2, <2>3 DEF OneAttempt
<1>4. Startup'  BY DEF IInv, Startup
<1>5. ExternalRows'
  BY <1>1 DEF IInv, ExternalRows, Targets
<1>6. RssRows'
  <2>1. \A e \in Episodes : <<e, "rss">> \in Targets  BY DistributionConstantsOK DEF Targets
  <2> SUFFICES ASSUME NEW e \in Episodes
               PROVE  Agree(targets'[<<e, "rss">>].status, rss[e], e \in misread)
    BY DEF RssRows, Agree
  <2>2. <<e, "rss">> = t \/ targets'[<<e, "rss">>] = targets[<<e, "rss">>]  BY <2>1
  <2> QED  BY <2>2 DEF IInv, RssRows, Agree
<1>7. Attempts'
  <2>1. \A b \in Actors : b # a => (Busy(b)' => Busy(b)) /\ task'[b] = task[b]  BY <1>2
  <2>2. t[2] # "rss" /\ a = worker => targets'[t].attempts = 1  OBVIOUS
  <2> QED  BY <1>1, <1>2, <2>1, <2>2 DEF IInv, Attempts
<1>8. RssAttempts'
  BY <1>1, <1>2 DEF IInv, RssAttempts
<1>9. Submissions'
  <2>0. targets[t].attempts \in Nat /\ uploads[t[1]] \in Nat
    BY <1>1 DEF IInv, TypeOK, TargetRow
  <2>1. "netease" \notin Platforms => \A e \in Episodes : uploads'[e] = 0
    BY DEF IInv, Submissions
  <2>2. ASSUME "netease" \in Platforms, NEW e \in Episodes
        PROVE  /\ uploads'[e] <= targets'[<<e, "netease">>].attempts
               /\ Status(<<e, "netease">>)' = "published" => uploads'[e] > 0
    <3>1. <<e, "netease">> \in Targets /\ uploads[e] <= targets[<<e, "netease">>].attempts
      BY <2>2 DEF IInv, Submissions, Targets
    <3>2. CASE <<e, "netease">> = t
      <4>1. uploads[t[1]] <= targets[t].attempts + 1  BY <2>0, <3>1, <3>2
      <4> QED  BY <4>1, <3>2
    <3>3. CASE <<e, "netease">> # t  BY <2>2, <3>1, <3>3 DEF IInv, Submissions
    <3> QED  BY <3>2, <3>3
  <2>3. ASSUME NEW b \in Actors, Busy(b)', Platform(b)' = "netease"
        PROVE  /\ task'[b].at \in {"validate", "form"} =>
                    uploads'[EpisodeOf(b)'] < targets'[task'[b].target].attempts
               /\ task'[b].at = "submitted" \/ (task'[b].at = "record" /\ task'[b].outcome = "published")
                    => uploads'[EpisodeOf(b)'] > 0
    <3>1. CASE b = a
      <4>1. uploads[t[1]] <= targets[t].attempts
        BY <1>1, <2>3, <3>1 DEF IInv, Submissions
      <4>2. uploads[t[1]] < targets[t].attempts + 1  BY <4>1, <2>0
      <4> QED  BY <1>1, <3>1, <4>2
    <3>2. CASE b # a
      <4>1. Busy(b) /\ Platform(b) = "netease" /\ task'[b] = task[b]  BY <1>2, <2>3, <3>2
      <4> QED  BY <1>2, <3>2, <4>1 DEF IInv, Submissions
    <3> QED  BY <3>1, <3>2
  <2> QED  BY <2>1, <2>2, <2>3 DEF Submissions
<1> QED  BY <1>3, <1>4, <1>5, <1>6, <1>7, <1>8, <1>9

(* The worker begins at the next row of its share.                        *)
LEMMA VisitTargetKeeps ==
  ASSUME IInv, TypeOK', NEW p \in Platforms, VisitTarget(p)
  PROVE  IInv'
<1> DEFINE e == EpisodeOf(worker)
           t == <<e, p>>
<1>1. /\ worker \in Actors /\ ~Busy(worker) /\ proc = "up" /\ p \in left
      /\ task[worker].at = "visit" /\ task[worker].target \in Targets
      /\ e \in Episodes /\ t \in Targets /\ targets[t] \in TargetRow
      /\ targets[t].attempts < MaxAttempts
      /\ left' = left \ {p} /\ UNCHANGED <<rss, lost, misread, uploads, proc, todo, boots>>
  BY DEF VisitTarget, Actors, At, Turn, Busy, IInv, TypeOK, WorkersShare, EpisodeOf, Targets
<1>2. p # "rss" => "rss" \notin left /\ rss[e] = "published" /\ targets[t].attempts = 0 /\ Status(t) \in Unbegun
  BY <1>1 DEF VisitTarget, Turn, IInv, WorkersShare, Status
<1>3. p = "rss" => rss[e] \in Unpublished /\ Status(t) \notin {"publishing", "published"}
  <2> SUFFICES ASSUME p = "rss" PROVE rss[e] \in Unpublished /\ Status(t) \notin {"publishing", "published"}
    OBVIOUS
  <2>1. rss[e] \in Unpublished  BY <1>1 DEF IInv, WorkersShare
  <2>2. ~ \E a \in Actors : Busy(a) /\ task[a].target = t
    BY <1>1 DEF IInv, RssAttempts, Platform
  <2>3. Status(t) # "publishing"  BY <1>1, <2>2 DEF IInv, OneAttempt, WithStatus
  <2> QED  BY <1>1, <2>1, <2>3 DEF IInv, RssRows, Agree, Unpublished
<1>4. Status(t) \notin {"publishing", "published"}  BY <1>2, <1>3 DEF Unbegun
<1>5. /\ targets' = [targets EXCEPT ![t] = BegunRow(EnsuredRow(@))]
      /\ task' = [task EXCEPT ![worker] = Attempt(t)]
  BY <1>4 DEF VisitTarget, EpisodeOf
<1>6. /\ targets'[t].status = "publishing" /\ targets'[t].attempts = targets[t].attempts + 1
      /\ \A u \in Targets : u # t => targets'[u] = targets[u]
      /\ task'[worker] = Attempt(t) /\ \A b \in Actors : b # worker => task'[b] = task[b]
  <2>1. EnsuredRow(targets[t]) \in TargetRow /\ EnsuredRow(targets[t]).attempts = targets[t].attempts
    BY <1>1, RowEdits DEF TargetStatus
  <2>2. /\ BegunRow(EnsuredRow(targets[t])).status = "publishing"
        /\ BegunRow(EnsuredRow(targets[t])).attempts = targets[t].attempts + 1
    <3> HIDE DEF t, TargetRow
    <3> QED  BY <2>1, RowEdits DEF TargetStatus
  <2> HIDE DEF t
  <2> QED  BY <1>1, <1>5, <2>2 DEF IInv, TypeOK
<1>7. /\ OneAttempt' /\ Startup' /\ ExternalRows' /\ RssRows'
      /\ Attempts' /\ RssAttempts' /\ Submissions'
  <2> HIDE DEF t, e
  <2>1. t[1] = e /\ t[2] = p  BY DEF t
  <2> QED  BY <1>1, <1>2, <1>3, <1>4, <1>6, <2>1, BeginKeeps
<1>8. WorkersShare'
  <2>1. /\ task'[worker].at = "validate" /\ EpisodeOf(worker)' = e
        /\ "rss" \notin left'
    BY <1>1, <1>2, <1>6 DEF Attempt, EpisodeOf
  <2>2. \A q \in left' : q # p /\ q \in left /\ <<e, q>> \in Targets /\ targets'[<<e, q>>] = targets[<<e, q>>]
    BY <1>1, <1>6 DEF Targets, IInv, TypeOK
  <2>3. \A b \in Requests : task'[b].at # "visit"
    BY <1>6, DistributionConstantsOK DEF IInv, WorkersShare, Actors
  <2> HIDE DEF e, t
  <2> QED  BY <2>1, <2>2, <2>3 DEF IInv, WorkersShare, e
<1> QED  BY <1>7, <1>8 DEF IInv

(* Startup takes over every publishing row.                               *)
LEMMA BootKeeps ==
  ASSUME IInv, TypeOK', Boot
  PROVE  IInv'
<1> USE DistributionConstantsOK
    DEF IInv, TypeOK, TargetRow, ActorTask, Places, Targets, Actors, At, Idle, Busy, Status,
        WithStatus, Platform, EpisodeOf, tables, Unbegun, Unpublished, Boot
<1>1. OneAttempt'  BY DEF OneAttempt, Attempts, RssAttempts, WorkersShare, Startup
<1>2. Startup'  BY DEF Startup
<1>3. ExternalRows'  BY DEF ExternalRows, RssRows, Attempts, RssAttempts
<1>4. RssRows'  BY DEF RssRows, Agree
<1>5. Attempts'  BY DEF Attempts, ExternalRows, RssRows, WorkersShare
<1>6. RssAttempts'  BY DEF RssAttempts, RssRows, Attempts, WorkersShare, OneAttempt
<1>7. WorkersShare'  BY DEF WorkersShare, Attempts, RssAttempts, ExternalRows, Startup
<1>8. Submissions'  BY DEF Submissions, ExternalRows, Attempts, WorkersShare, OneAttempt
<1> QED  BY <1>1, <1>2, <1>3, <1>4, <1>5, <1>6, <1>7, <1>8

(* A service is up once startup has nothing left to do.                   *)
LEMMA ServeKeeps ==
  ASSUME IInv, TypeOK', Serve
  PROVE  IInv'
<1> USE DistributionConstantsOK
    DEF IInv, TypeOK, TargetRow, ActorTask, Places, Targets, Actors, At, Idle, Busy, Status,
        WithStatus, Platform, EpisodeOf, tables, Unbegun, Unpublished, Serve
<1>1. OneAttempt'  BY DEF OneAttempt, Attempts, RssAttempts, WorkersShare, Startup
<1>2. Startup'  BY DEF Startup
<1>3. ExternalRows'  BY DEF ExternalRows, RssRows, Attempts, RssAttempts
<1>4. RssRows'  BY DEF RssRows, Agree
<1>5. Attempts'  BY DEF Attempts, ExternalRows, RssRows, WorkersShare
<1>6. RssAttempts'  BY DEF RssAttempts, RssRows, Attempts, WorkersShare, OneAttempt
<1>7. WorkersShare'  BY DEF WorkersShare, Attempts, RssAttempts, ExternalRows, Startup
<1>8. Submissions'  BY DEF Submissions, ExternalRows, Attempts, WorkersShare, OneAttempt
<1> QED  BY <1>1, <1>2, <1>3, <1>4, <1>5, <1>6, <1>7, <1>8

(* A dead process leaves publishing rows and nobody at them.              *)
LEMMA CrashKeeps ==
  ASSUME IInv, TypeOK', Crash
  PROVE  IInv'
<1> USE DistributionConstantsOK
    DEF IInv, TypeOK, TargetRow, ActorTask, Places, Targets, Actors, At, Idle, Busy, Status,
        WithStatus, Platform, EpisodeOf, tables, Unbegun, Unpublished, Crash
<1>1. OneAttempt'  BY DEF OneAttempt, Attempts, RssAttempts, WorkersShare, Startup
<1>2. Startup'  BY DEF Startup
<1>3. ExternalRows'  BY DEF ExternalRows, RssRows, Attempts, RssAttempts
<1>4. RssRows'  BY DEF RssRows, Agree
<1>5. Attempts'  BY DEF Attempts, ExternalRows, RssRows, WorkersShare
<1>6. RssAttempts'  BY DEF RssAttempts, RssRows, Attempts, WorkersShare, OneAttempt
<1>7. WorkersShare'  BY DEF WorkersShare, Attempts, RssAttempts, ExternalRows, Startup
<1>8. Submissions'  BY DEF Submissions, ExternalRows, Attempts, WorkersShare, OneAttempt
<1> QED  BY <1>1, <1>2, <1>3, <1>4, <1>5, <1>6, <1>7, <1>8

(* Startup settles the service's row before the target's.                 *)
LEMMA ReconcileRssKeeps ==
  ASSUME IInv, TypeOK', NEW e \in Episodes, ReconcileRss(e)
  PROVE  IInv'
<1>1. left = {} /\ \A a \in Actors : task[a] = Idle /\ task'[a] = Idle
  BY DEF ReconcileRss, IInv, Startup
<1>2. RssAttempts'  BY <1>1 DEF RssAttempts, Busy, Idle
<1>3. /\ rss[e] = "publishing" /\ \A d \in Episodes : d # e => rss'[d] = rss[d]
      /\ UNCHANGED <<targets, lost, misread, uploads, proc, task, left, todo>> /\ proc = "starting"
  BY DEF ReconcileRss, IInv, TypeOK
<1>4. \A a \in Actors : ~ Busy(a) /\ ~ Busy(a)' /\ task[a].at = "idle"  BY <1>1 DEF Busy, Idle
<1>5. OneAttempt'  BY <1>3, <1>4 DEF OneAttempt
<1>6. Startup'  BY <1>1, <1>3 DEF IInv, Startup, Status, WithStatus
<1>7. ExternalRows'
  <2>1. \A d \in Episodes : rss'[d] # "published" => rss[d] # "published"  BY <1>3
  <2> QED  BY <2>1, <1>3 DEF IInv, ExternalRows
<1>8. RssRows'
  <2> SUFFICES ASSUME NEW d \in Episodes
               PROVE  Agree(Status(<<d, "rss">>), rss'[d], d \in misread)
    BY <1>3 DEF RssRows, Agree, Status
  <2>1. Agree(Status(<<d, "rss">>), rss[d], d \in misread)  BY DEF IInv, RssRows
  <2> QED  BY <2>1, <1>3 DEF Agree
<1>9. Attempts'  BY <1>4 DEF Attempts
<1>10. WorkersShare'
  BY <1>1, <1>3, <1>4, DistributionConstantsOK DEF WorkersShare, Actors
<1>11. Submissions'  BY <1>3, <1>4 DEF IInv, Submissions, Status
<1> QED  BY <1>2, <1>5, <1>6, <1>7, <1>8, <1>9, <1>10, <1>11 DEF IInv

(* Startup settles a row of its own, or fails to read what it is about.   *)
LEMMA ReconcileTargetKeeps ==
  ASSUME IInv, TypeOK', NEW t \in Targets, ReconcileTarget(t) \/ MisreadTarget(t)
  PROVE  IInv'
<1>0. PICK s \in Checked(t) \cup {"failed"} :
        /\ targets' = [targets EXCEPT ![t] = RecordedRow(@, s)]
        /\ t[2] = "rss" => s \in Checked(t) \/ t[1] \in misread'
        /\ s \in Checked(t) \/ t[2] = "rss"
  BY DEF ReconcileTarget, MisreadTarget
<1>1. /\ Status(t) = "publishing" /\ proc = "starting"
      /\ UNCHANGED <<rss, lost, uploads, proc, task, left, boots>>
      /\ \A d \in Episodes : rss[d] # "publishing"
      /\ left = {} /\ \A a \in Actors : task[a] = Idle
      /\ todo = WithStatus("publishing") /\ todo' = todo \ {t}
      /\ \A d \in Episodes : d # t[1] \/ t[2] # "rss" => (d \in misread' <=> d \in misread)
  BY DEF ReconcileTarget, MisreadTarget, IInv, Startup, WithStatus, RssSettled
<1>2. /\ s \in TargetStatus \ {"none", "publishing"}
      /\ t[2] = "rss" =>
           /\ s \in {"pending", "published", "failed"} /\ (s = "published" => rss[t[1]] = "published")
           /\ t[1] \notin misread' => (rss[t[1]] = "published" => s = "published")
  <2>1. t[1] \in Episodes /\ t[2] \in {"rss", "netease", "xiaoyuzhou"}
    BY DistributionConstantsOK DEF Targets
  <2>2. CASE t[2] = "rss"
    <3>1. s = RssOutcome(t[1]) \/ (s = "failed" /\ t[1] \in misread')
      BY <1>0, <2>2 DEF Checked, CheckedRss
    <3> QED  BY <2>1, <2>2, <3>1, <1>1 DEF RssOutcome, TargetStatus, IInv, TypeOK, PublicationStatus
  <2>3. CASE t[2] = "netease"
    BY <1>0, <2>3 DEF Checked, CheckedNetEase, TargetStatus
  <2>4. CASE t[2] = "xiaoyuzhou"
    BY <1>0, <2>4 DEF Checked, TargetStatus
  <2> QED  BY <2>1, <2>2, <2>3, <2>4
<1>3. /\ targets'[t].status = s /\ targets'[t].attempts = targets[t].attempts
      /\ \A u \in Targets : u # t => targets'[u] = targets[u]
  <2>1. targets[t] \in TargetRow  BY DEF IInv, TypeOK
  <2> HIDE DEF TargetRow
  <2> QED  BY <1>0, <1>2, <2>1, RowEdits DEF IInv, TypeOK
<1>4. Startup'
  <2>1. todo' = todo \ {t}  BY <1>1
  <2>2. WithStatus("publishing")' = WithStatus("publishing") \ {t}
    BY <1>2, <1>3 DEF WithStatus, Status
  <2> QED  BY <1>1, <2>1, <2>2 DEF Startup
<1>5. ExternalRows'
  <2> SUFFICES ASSUME NEW d \in Episodes, NEW p \in Platforms \ {"rss"}, rss[d] # "published"
               PROVE  targets'[<<d, p>>].attempts = 0 /\ targets'[<<d, p>>].status \in Unbegun
    BY <1>1 DEF ExternalRows
  <2>1. <<d, p>> \in Targets /\ targets[<<d, p>>].attempts = 0 /\ Status(<<d, p>>) \in Unbegun
    BY DEF Targets, IInv, ExternalRows, Status
  <2>2. <<d, p>> # t  BY <2>1, <1>1 DEF Unbegun
  <2> QED  BY <2>1, <2>2, <1>3 DEF Status
<1>6. RssRows'
  <2> SUFFICES ASSUME NEW d \in Episodes
               PROVE  Agree(targets'[<<d, "rss">>].status, rss[d], d \in misread')
    BY <1>1 DEF RssRows, Agree, Status
  <2>1. <<d, "rss">> \in Targets  BY DistributionConstantsOK DEF Targets
  <2>2. CASE <<d, "rss">> = t  BY <2>2, <1>1, <1>2, <1>3 DEF Agree
  <2>3. CASE <<d, "rss">> # t
    <3>1. targets'[<<d, "rss">>] = targets[<<d, "rss">>]  BY <2>1, <2>3, <1>3
    <3>2. d \in misread' <=> d \in misread
      BY <2>3, <1>1, DistributionConstantsOK DEF Targets
    <3> QED  BY <3>1, <3>2 DEF IInv, RssRows, Agree, Status
  <2> QED  BY <2>2, <2>3
<1>7. \A a \in Actors : task'[a] = Idle /\ ~ Busy(a)'
  <2>1. \A a \in Actors : task'[a] = Idle  BY <1>1
  <2>2. Idle.at = "idle"  BY DEF Idle
  <2> QED  BY <2>1, <2>2 DEF Busy
<1>8. OneAttempt'  BY <1>1, <1>7 DEF OneAttempt
<1>9. Attempts' /\ RssAttempts'  BY <1>7 DEF Attempts, RssAttempts
<1>10. WorkersShare'  BY <1>1, <1>7 DEF WorkersShare, Actors, Idle
<1>11. Submissions'
  <2>1. ASSUME "netease" \in Platforms, NEW d \in Episodes
        PROVE  /\ uploads[d] <= targets'[<<d, "netease">>].attempts
               /\ targets'[<<d, "netease">>].status = "published" => uploads[d] > 0
    <3>1. <<d, "netease">> \in Targets  BY <2>1 DEF Targets
    <3>2. /\ uploads[d] <= targets[<<d, "netease">>].attempts
          /\ targets[<<d, "netease">>].status = "published" => uploads[d] > 0
      BY <2>1 DEF IInv, Submissions, Status
    <3>3. <<d, "netease">> = t /\ s = "published" => uploads[d] > 0
      <4> SUFFICES ASSUME <<d, "netease">> = t, s = "published" PROVE uploads[d] > 0
        OBVIOUS
      <4>1. t[1] = d /\ t[2] = "netease"  OBVIOUS
      <4>2. s \in CheckedNetEase(d)  BY <1>0, <4>1 DEF Checked
      <4>3. "published" \in CheckedNetEase(d)  BY <4>2
      <4> QED  BY <4>3 DEF CheckedNetEase
    <3> QED  BY <1>3, <3>1, <3>2, <3>3
  <2>2. "netease" \notin Platforms => \A d \in Episodes : uploads[d] = 0
    BY DEF IInv, Submissions
  <2> QED  BY <2>1, <2>2, <1>1, <1>7 DEF Submissions, Status
<1> QED  BY <1>4, <1>5, <1>6, <1>8, <1>9, <1>10, <1>11 DEF IInv

(* A request begins at an external row that asks for a human.             *)
LEMMA ResumeKeeps ==
  ASSUME IInv, TypeOK', NEW a \in Requests, NEW t \in Targets, Resume(a, t)
  PROVE  IInv'
<1>1. /\ a \in Actors /\ a # worker /\ ~Busy(a) /\ proc = "up" /\ Status(t) = "needs_attention"
      /\ targets[t] \in TargetRow /\ t = <<t[1], t[2]>> /\ t[1] \in Episodes /\ t[2] \in Platforms
      /\ UNCHANGED <<rss, lost, misread, uploads, proc, left, todo, boots>>
  BY DistributionConstantsOK DEF Resume, Resumable, Actors, At, Busy, IInv, TypeOK, Targets
<1>2. t[2] # "rss"  BY <1>1 DEF IInv, RssRows, Agree
<1>3. rss[t[1]] = "published"
  BY <1>1, <1>2 DEF IInv, ExternalRows, Status, Unbegun
<1>4. /\ targets'[t].status = "publishing" /\ targets'[t].attempts = targets[t].attempts + 1
      /\ \A u \in Targets : u # t => targets'[u] = targets[u]
      /\ task'[a] = Attempt(t) /\ \A b \in Actors : b # a => task'[b] = task[b]
  <2>1. BegunRow(targets[t]).status = "publishing" /\ BegunRow(targets[t]).attempts = targets[t].attempts + 1
    BY <1>1, RowEdits DEF TargetStatus
  <2> QED  BY <1>1, <2>1 DEF Resume, IInv, TypeOK
<1>5. /\ OneAttempt' /\ Startup' /\ ExternalRows' /\ RssRows'
      /\ Attempts' /\ RssAttempts' /\ Submissions'
  BY <1>1, <1>2, <1>3, <1>4, BeginKeeps
<1>6. WorkersShare'
  <2>1. task'[worker] = task[worker] /\ EpisodeOf(worker)' = EpisodeOf(worker)
    BY <1>1, <1>4 DEF Actors, EpisodeOf
  <2>2. \A b \in Requests : task'[b].at # "visit"
    BY <1>1, <1>4, DistributionConstantsOK DEF IInv, WorkersShare, Actors, Attempt
  <2>3. \A p \in left : EpisodeOf(worker) \in Episodes /\ <<EpisodeOf(worker), p>> \in Targets
    <3>1. left # {} => task[worker].target \in Targets
      BY DEF IInv, WorkersShare, Attempts, Busy, Actors
    <3> QED  BY <3>1 DEF EpisodeOf, Targets, IInv, TypeOK
  <2>4. \A p \in left : p # "rss" =>
           targets'[<<EpisodeOf(worker), p>>] = targets[<<EpisodeOf(worker), p>>]
    <3>1. \A p \in left : p # "rss" => Status(<<EpisodeOf(worker), p>>) \in Unbegun
      BY DEF IInv, WorkersShare, Status
    <3> QED  BY <3>1, <2>3, <1>1, <1>4 DEF Unbegun
  <2>5. <<EpisodeOf(worker), "rss">> # t  BY <1>2
  <2> QED  BY <1>1, <1>4, <2>1, <2>2, <2>3, <2>4, <2>5 DEF IInv, WorkersShare
<1> QED  BY <1>5, <1>6 DEF IInv

(* The worker takes the rows of an unpublished Episode.                   *)
LEMMA StartPublishKeeps ==
  ASSUME IInv, TypeOK', NEW e \in Episodes, StartPublish(e)
  PROVE  IInv'
<1> USE DistributionConstantsOK
    DEF IInv, TypeOK, TargetRow, ActorTask, Places, Targets, Actors, At, Idle, Busy, Status,
        WithStatus, Platform, EpisodeOf, tables, Unbegun, Unpublished, StartPublish
<1>1. OneAttempt'  BY DEF OneAttempt, Attempts, RssAttempts, WorkersShare, Startup
<1>2. Startup'  BY DEF Startup
<1>3. ExternalRows'  BY DEF ExternalRows, RssRows, Attempts, RssAttempts
<1>4. RssRows'  BY DEF RssRows, Agree
<1>5. Attempts'  BY DEF Attempts, ExternalRows, RssRows, WorkersShare
<1>6. RssAttempts'  BY DEF RssAttempts, RssRows, Attempts, WorkersShare, OneAttempt
<1>7. WorkersShare'  BY DEF WorkersShare, Attempts, RssAttempts, ExternalRows, Startup
<1>8. Submissions'  BY DEF Submissions, ExternalRows, Attempts, WorkersShare, OneAttempt
<1> QED  BY <1>1, <1>2, <1>3, <1>4, <1>5, <1>6, <1>7, <1>8

(* A lost file touches no row.                                            *)
LEMMA LoseMediaKeeps ==
  ASSUME IInv, TypeOK', NEW e \in Episodes, LoseMedia(e)
  PROVE  IInv'
<1> USE DistributionConstantsOK
    DEF IInv, TypeOK, TargetRow, ActorTask, Places, Targets, Actors, At, Idle, Busy, Status,
        WithStatus, Platform, EpisodeOf, tables, Unbegun, Unpublished, LoseMedia
<1>1. OneAttempt'  BY DEF OneAttempt, Attempts, RssAttempts, WorkersShare, Startup
<1>2. Startup'  BY DEF Startup
<1>3. ExternalRows'  BY DEF ExternalRows, RssRows, Attempts, RssAttempts
<1>4. RssRows'  BY DEF RssRows, Agree
<1>5. Attempts'  BY DEF Attempts, ExternalRows, RssRows, WorkersShare
<1>6. RssAttempts'  BY DEF RssAttempts, RssRows, Attempts, WorkersShare, OneAttempt
<1>7. WorkersShare'  BY DEF WorkersShare, Attempts, RssAttempts, ExternalRows, Startup
<1>8. Submissions'  BY DEF Submissions, ExternalRows, Attempts, WorkersShare, OneAttempt
<1> QED  BY <1>1, <1>2, <1>3, <1>4, <1>5, <1>6, <1>7, <1>8

(* A row is created pending.                                              *)
LEMMA ReportTargetKeeps ==
  ASSUME IInv, TypeOK', NEW t \in Targets, ReportTarget(t)
  PROVE  IInv'
<1>1. /\ Status(t) = "none" /\ targets[t] \in TargetRow /\ targets \in [Targets -> TargetRow]
      /\ proc = "up" /\ UNCHANGED <<rss, misread, uploads, proc, task, left, todo>>
      /\ targets' = [targets EXCEPT ![t] = EnsuredRow(@)]
  BY DEF ReportTarget, IInv, TypeOK
<1>2. /\ targets'[t].status = "pending"
      /\ \A u \in Targets : /\ targets'[u].attempts = targets[u].attempts
                            /\ u # t => targets'[u] = targets[u]
  <2>1. EnsuredRow(targets[t]).status = "pending" /\ EnsuredRow(targets[t]).attempts = targets[t].attempts
    BY <1>1, RowEdits DEF Status, TargetStatus
  <2> QED  BY <2>1, <1>1
<1>3. \A b \in Actors : /\ Busy(b)' = Busy(b) /\ Platform(b)' = Platform(b) /\ EpisodeOf(b)' = EpisodeOf(b)
                        /\ Busy(b) => task[b].target \in Targets /\ task[b].target # t
  BY <1>1, BusyFacts DEF Busy, Platform, EpisodeOf
<1>4. OneAttempt'
  <2>1. \A u \in Targets : targets'[u].status = "publishing" => targets[u].status = "publishing"
    BY <1>2
  <2>2. \A b \in Actors : Busy(b) => targets'[task[b].target] = targets[task[b].target]
    BY <1>2, <1>3
  <2> QED  BY <2>1, <2>2, <1>1, <1>3 DEF IInv, OneAttempt, Status, WithStatus
<1>5. Startup'  BY <1>1 DEF IInv, Startup
<1>6. ExternalRows'
  <2>1. \A e \in Episodes, p \in Platforms : <<e, p>> \in Targets  BY DEF Targets
  <2> QED  BY <2>1, <1>1, <1>2 DEF IInv, ExternalRows, Unbegun
<1>7. RssRows'
  <2> SUFFICES ASSUME NEW e \in Episodes
               PROVE  Agree(targets'[<<e, "rss">>].status, rss[e], e \in misread)
    BY <1>1 DEF RssRows, Agree, Status
  <2>1. <<e, "rss">> \in Targets  BY DistributionConstantsOK DEF Targets
  <2> QED  BY <2>1, <1>1, <1>2 DEF IInv, RssRows, Agree, Status
<1>8. Attempts'  BY <1>1, <1>2, <1>3 DEF IInv, Attempts
<1>9. RssAttempts'  BY <1>1, <1>3 DEF IInv, RssAttempts
<1>10. WorkersShare'
  <2>1. ASSUME NEW p \in left
        PROVE  /\ targets'[<<EpisodeOf(worker), p>>].attempts = targets[<<EpisodeOf(worker), p>>].attempts
               /\ targets'[<<EpisodeOf(worker), p>>].status \in
                    {targets[<<EpisodeOf(worker), p>>].status, "pending"}
    <3>1. <<EpisodeOf(worker), p>> \in Targets
      <4>1. worker \in Actors /\ task[worker].at # "idle"
        BY DEF Actors, IInv, WorkersShare
      <4>2. task[worker].target \in Targets  BY <4>1, BusyFacts DEF IInv, WorkersShare, Busy
      <4> QED  BY <4>2 DEF IInv, TypeOK, Targets, EpisodeOf
    <3> QED  BY <3>1, <1>2
  <2>2. EpisodeOf(worker)' = EpisodeOf(worker)  BY <1>1 DEF EpisodeOf
  <2>3. UNCHANGED <<rss, task, left>>  BY <1>1
  <2> QED  BY <2>1, <2>2, <2>3 DEF IInv, WorkersShare, Unbegun
<1>11. Submissions'
  <2>1. ASSUME "netease" \in Platforms, NEW e \in Episodes
        PROVE  /\ uploads[e] <= targets'[<<e, "netease">>].attempts
               /\ targets'[<<e, "netease">>].status = "published" => uploads[e] > 0
    <3>1. <<e, "netease">> \in Targets  BY <2>1 DEF Targets
    <3>2. uploads[e] <= targets[<<e, "netease">>].attempts
          /\ (targets[<<e, "netease">>].status = "published" => uploads[e] > 0)
      BY <2>1 DEF IInv, Submissions, Status
    <3> QED  BY <3>1, <3>2, <1>2
  <2>2. ASSUME NEW b \in Actors, Busy(b), Platform(b) = "netease"
        PROVE  targets'[task[b].target].attempts = targets[task[b].target].attempts
    BY <2>2, <1>2, <1>3
  <2> QED  BY <2>1, <2>2, <1>1, <1>3 DEF IInv, Submissions, Status
<1> QED  BY <1>4, <1>5, <1>6, <1>7, <1>8, <1>9, <1>10, <1>11 DEF IInv


-----------------------------------------------------------------------------
(* Invariance *)

(* Empty tables and no process satisfy the invariant.                     *)
LEMMA InitInvariant == Init => IInv
<1> SUFFICES ASSUME Init PROVE IInv  OBVIOUS
<1> USE DistributionConstantsOK DEF Init, NoRow, Idle, Busy, Status, Actors
<1>1. TypeOK
  BY DEF TypeOK, TargetRow, TargetStatus, PublicationStatus, ActorTask, Places
<1>2. OneAttempt /\ Startup  BY DEF OneAttempt, Startup
<1>3. ExternalRows /\ RssRows
  BY DEF ExternalRows, RssRows, Agree, Targets, Unbegun
<1>4. Attempts /\ RssAttempts /\ WorkersShare  BY DEF Attempts, RssAttempts, WorkersShare
<1>5. Submissions  BY DEF Submissions, Targets
<1> QED  BY <1>1, <1>2, <1>3, <1>4, <1>5 DEF IInv

(* A step that changes nothing keeps the invariant.                       *)
LEMMA StutterKeeps ==
  ASSUME IInv, UNCHANGED vars
  PROVE  IInv'
<1> USE DEF vars, tables, Busy, Status, WithStatus, Platform, EpisodeOf
<1>1. TypeOK' /\ OneAttempt' /\ Startup'  BY DEF IInv, TypeOK, OneAttempt, Startup
<1>2. ExternalRows' /\ RssRows'  BY DEF IInv, ExternalRows, RssRows
<1>3. Attempts' /\ RssAttempts'  BY DEF IInv, Attempts, RssAttempts
<1>4. WorkersShare' /\ Submissions'  BY DEF IInv, WorkersShare, Submissions
<1> QED  BY <1>1, <1>2, <1>3, <1>4 DEF IInv

(* Every step keeps the invariant.                                        *)
LEMMA NextInvariant == IInv /\ [Next]_vars => IInv'
<1> SUFFICES ASSUME IInv, [Next]_vars PROVE IInv'  OBVIOUS
<1>0. TypeOK'  BY TypesKept
<1>1. CASE UNCHANGED vars  BY <1>1, StutterKeeps
<1>2. ASSUME NEW a \in Actors, AttemptSteps(a) PROVE IInv'
  BY <1>0, <1>2, RssKeeps, AdapterKeeps, SubmitKeeps, RecordResultKeeps DEF AttemptSteps
<1>3. CASE WorkerSteps
  BY <1>0, <1>2, <1>3, EndPublishKeeps, VisitTargetKeeps DEF WorkerSteps, Actors
<1>4. CASE StartupSteps
  BY <1>0, <1>4, BootKeeps, ServeKeeps, ReconcileRssKeeps, ReconcileTargetKeeps DEF StartupSteps
<1>5. CASE Crash  BY <1>0, <1>5, CrashKeeps
<1>6. CASE \E a \in Requests : AttemptSteps(a) \/ \E t \in Targets : Resume(a, t)
  BY <1>0, <1>2, <1>6, ResumeKeeps DEF Actors
<1>7. CASE \E e \in Episodes : StartPublish(e) \/ LoseMedia(e)
  BY <1>0, <1>7, StartPublishKeeps, LoseMediaKeeps
<1>8. CASE \E t \in Targets : ReportTarget(t)  BY <1>0, <1>8, ReportTargetKeeps
<1> QED  BY <1>1, <1>3, <1>4, <1>5, <1>6, <1>7, <1>8 DEF Next

(* The invariant the theorems below are read off from.                     *)
THEOREM Invariance == Spec => []IInv
  BY InitInvariant, NextInvariant, PTL DEF Spec

-----------------------------------------------------------------------------
(* What it implies *)

(* Rows and tasks always have their types (db/models.py).                  *)
THEOREM TypeCorrect == Spec => []TypeOK
<1>1. IInv => TypeOK  BY DEF IInv
<1> QED  BY <1>1, Invariance, PTL

(* However many requests resume targets beside the worker, no two attempts *)
(* share a row, and a serving process has somebody at every publishing row *)
(* (publishing/dispatcher.py).                                             *)
THEOREM RowsAreTriedOnce == Spec => []OneAttempt
<1>1. IInv => OneAttempt  BY DEF IInv
<1> QED  BY <1>1, Invariance, PTL

(* No external platform ever has what RSS has not published, whatever dies *)
(* or is reconciled in between (publishing/dispatcher.py:155).             *)
THEOREM ExternalFollowsRss == Spec => []UploadsFollowRss
<1>1. IInv => UploadsFollowRss
  <2> SUFFICES ASSUME IInv, NEW e \in Episodes, uploads[e] > 0
               PROVE  rss[e] = "published"
    BY DEF UploadsFollowRss
  <2>1. uploads[e] \in Nat /\ uploads[e] # 0  BY DEF IInv, TypeOK
  <2>2. "netease" \in Platforms  BY <2>1 DEF IInv, Submissions
  <2>3. uploads[e] <= targets[<<e, "netease">>].attempts  BY <2>2 DEF IInv, Submissions
  <2>4. targets[<<e, "netease">>].attempts # 0
    BY <2>1, <2>2, <2>3 DEF IInv, TypeOK, TargetRow, Targets
  <2> QED  BY <2>2, <2>4 DEF IInv, ExternalRows
<1> QED  BY <1>1, Invariance, PTL

(* Wherever the process died between the commit of the service and the one *)
(* of the dispatcher, a published target has a published publication, and  *)
(* a serving process misses no published publication, unless files of      *)
(* PUBLIC_DIR could not be read (publishing/dispatcher.py:158).            *)
THEOREM TablesAgree == Spec => []RssRowIsTruthful
<1>1. IInv => RssRowIsTruthful
  <2> SUFFICES ASSUME IInv, NEW e \in Episodes
               PROVE  /\ Status(<<e, "rss">>) = "published" => rss[e] = "published"
                      /\ proc = "up" /\ rss[e] = "published" /\ e \notin misread =>
                           \/ Status(<<e, "rss">>) = "published"
                           \/ \E a \in Actors : Busy(a) /\ task[a].target = <<e, "rss">>
    BY DEF RssRowIsTruthful
  <2>1. <<e, "rss">> \in Targets  BY DistributionConstantsOK DEF Targets
  <2>2. proc = "up" /\ Status(<<e, "rss">>) = "publishing" =>
          \E a \in Actors : Busy(a) /\ task[a].target = <<e, "rss">>
    BY <2>1 DEF IInv, OneAttempt, WithStatus
  <2>3. Agree(Status(<<e, "rss">>), rss[e], e \in misread)  BY DEF IInv, RssRows
  <2> QED  BY <2>2, <2>3 DEF Agree
<1> QED  BY <1>1, Invariance, PTL

(* The worker's submission is the first one: what the platform has         *)
(* accepted is only sent again by the request of a person.                 *)
THEOREM OnlyAPersonResends == Spec => OnlyResumeResends
<1> DEFINE Resent ==
      \A e \in Episodes :
        uploads[e] > 0 /\ uploads'[e] # uploads[e] =>
          \E a \in Requests : task[a].at = "form" /\ task[a].target = <<e, "netease">>
<1>1. IInv /\ [Next]_vars => [Resent]_vars
  <2> SUFFICES ASSUME IInv, [Next]_vars, NEW e \in Episodes,
                      uploads[e] > 0, uploads'[e] # uploads[e]
               PROVE  \E a \in Requests : task[a].at = "form" /\ task[a].target = <<e, "netease">>
    OBVIOUS
  <2>1. PICK a \in Actors : Submit(a)
    BY DEF Next, WorkerSteps, StartupSteps, AttemptSteps, RssBegin, RssPublish, AbandonRss,
       Validate, StopForHuman, Confirm, XiaoyuzhouPublish, RecordResult, EndPublish, VisitTarget, Boot,
       Serve, Crash, ReconcileRss, ReconcileTarget, MisreadTarget, Resume, StartPublish, LoseMedia,
       ReportTarget, Actors, vars
  <2>2. Busy(a) /\ task[a].at = "form" /\ Platform(a) = "netease"
    BY <2>1 DEF Submit, At, Busy, IInv, Attempts
  <2>3. EpisodeOf(a) = e  BY <2>1 DEF Submit, IInv, TypeOK
  <2>4. task[a].target = <<e, "netease">>  BY <2>2, <2>3, BusyFacts
  <2>5. a # worker
    <3> SUFFICES ASSUME a = worker PROVE FALSE  OBVIOUS
    <3>1. targets[task[a].target].attempts = 1  BY <2>2 DEF IInv, Attempts
    <3>2. uploads[e] < targets[task[a].target].attempts
      BY <2>2, <2>3 DEF IInv, Submissions
    <3>3. uploads[e] \in Nat  BY DEF IInv, TypeOK
    <3> QED  BY <3>1, <3>2, <3>3
  <2> QED  BY <2>2, <2>4, <2>5 DEF Actors
<1> QED  BY <1>1, Invariance, PTL DEF Spec, OnlyResumeResends

-----------------------------------------------------------------------------
(* Distribution implements UploadLedger *)

LedgerVars == <<[e \in Episodes |-> Phase(e)],
                [e \in Episodes |-> targets[<<e, "netease">>].attempts],
                uploads>>

(* An edit that changes no NetEase row but to create it is not in the ledger. *)
LEMMA EditAside ==
  ASSUME IInv, "netease" \in Platforms, NEW t \in Targets, UNCHANGED uploads,
         \A u \in Targets : u # t => targets'[u] = targets[u],
         t[2] = "netease" =>
           /\ Status(t) = "none" /\ targets'[t].status = "pending"
           /\ targets'[t].attempts = targets[t].attempts
  PROVE  UNCHANGED LedgerVars
<1>1. ASSUME NEW e \in Episodes
      PROVE  /\ Phase(e)' = Phase(e)
             /\ targets'[<<e, "netease">>].attempts = targets[<<e, "netease">>].attempts
  <2>1. <<e, "netease">> \in Targets  BY DEF Targets
  <2>2. CASE <<e, "netease">> = t  BY <2>2 DEF Phase, Status
  <2>3. CASE <<e, "netease">> # t  BY <2>1, <2>3 DEF Phase, Status
  <2> QED  BY <2>2, <2>3
<1> QED  BY <1>1 DEF LedgerVars

(* Beginning an attempt at a NetEase row is a try.                        *)
LEMMA EditTries ==
  ASSUME IInv, "netease" \in Platforms, NEW t \in Targets, UNCHANGED uploads,
         \A u \in Targets : u # t => targets'[u] = targets[u],
         t[2] = "netease", Status(t) \notin {"publishing", "published"},
         targets'[t].status = "publishing",
         targets'[t].attempts = targets[t].attempts + 1
  PROVE  Ledger!Next
<1> DEFINE d == t[1]
<1>0. d \in Episodes /\ t = <<d, "netease">>  BY DEF Targets
<1>1. Phase(d) = "open" /\ Phase(d)' = "trying"  BY <1>0 DEF Phase, Status
<1>2. ASSUME NEW e \in Episodes, e # d
      PROVE  Phase(e)' = Phase(e) /\ targets'[<<e, "netease">>] = targets[<<e, "netease">>]
  <2>1. <<e, "netease">> \in Targets /\ <<e, "netease">> # t  BY <1>0, <1>2 DEF Targets
  <2> QED  BY <2>1 DEF Phase, Status
<1>3. [e \in Episodes |-> Phase(e)]' = [[e \in Episodes |-> Phase(e)] EXCEPT ![d] = "trying"]
  BY <1>0, <1>1, <1>2
<1>4. [e \in Episodes |-> targets[<<e, "netease">>].attempts]' =
        [[e \in Episodes |-> targets[<<e, "netease">>].attempts] EXCEPT ![d] = @ + 1]
  BY <1>0, <1>2
<1>5. Ledger!Try(d)  BY <1>0, <1>1, <1>3, <1>4 DEF Ledger!Try
<1> QED  BY <1>0, <1>5 DEF Ledger!Next

(* Ending an attempt at a NetEase row gives up or closes.                 *)
LEMMA EditEnds ==
  ASSUME IInv, "netease" \in Platforms, NEW t \in Targets, UNCHANGED uploads,
         \A u \in Targets : u # t => targets'[u] = targets[u],
         t[2] = "netease", Status(t) = "publishing",
         targets'[t].status # "publishing",
         targets'[t].status = "published" => uploads[t[1]] > 0,
         targets'[t].attempts = targets[t].attempts
  PROVE  Ledger!Next
<1> DEFINE d == t[1]
<1>0. d \in Episodes /\ t = <<d, "netease">>  BY DEF Targets
<1>1. /\ Phase(d) = "trying" /\ Phase(d)' \in {"open", "done"}
      /\ Phase(d)' = "done" => uploads[d] > 0
  BY <1>0 DEF Phase, Status
<1>2. ASSUME NEW e \in Episodes, e # d
      PROVE  Phase(e)' = Phase(e) /\ targets'[<<e, "netease">>] = targets[<<e, "netease">>]
  <2>1. <<e, "netease">> \in Targets /\ <<e, "netease">> # t  BY <1>0, <1>2 DEF Targets
  <2> QED  BY <2>1 DEF Phase, Status
<1>3. [e \in Episodes |-> Phase(e)]' = [[e \in Episodes |-> Phase(e)] EXCEPT ![d] = Phase(d)']
  BY <1>0, <1>1, <1>2
<1>4. UNCHANGED [e \in Episodes |-> targets[<<e, "netease">>].attempts]
  BY <1>0, <1>2
<1>5. Ledger!GiveUp(d) \/ Ledger!Close(d)
  BY <1>0, <1>1, <1>3, <1>4 DEF Ledger!GiveUp, Ledger!Close
<1> QED  BY <1>0, <1>5 DEF Ledger!Next

(* A submission is accepted under the try its row records.                *)
LEMMA SubmitAccepts ==
  ASSUME IInv, "netease" \in Platforms, NEW a \in Actors, Submit(a)
  PROVE  Ledger!Next
<1> DEFINE d == EpisodeOf(a)
<1>1. Busy(a) /\ task[a].at = "form" /\ Platform(a) = "netease"
  BY DEF Submit, At, Busy, IInv, Attempts
<1>2. d \in Episodes /\ Phase(d) = "trying" /\ task[a].target = <<d, "netease">>
  BY <1>1, BusyFacts DEF Phase
<1>3. uploads[d] < targets[<<d, "netease">>].attempts  BY <1>1, <1>2 DEF IInv, Submissions
<1>4. UNCHANGED <<[e \in Episodes |-> Phase(e)],
                  [e \in Episodes |-> targets[<<e, "netease">>].attempts]>>
  BY DEF Submit, tables, Phase, Status
<1>5. uploads' = [uploads EXCEPT ![d] = @ + 1]  BY DEF Submit
<1>6. Ledger!Accept(d)  BY <1>2, <1>3, <1>4, <1>5 DEF Ledger!Accept
<1> QED  BY <1>2, <1>6 DEF Ledger!Next

(* Each step is a step of the ledger or leaves it alone.                   *)
LEMMA StepRefines ==
  ASSUME IInv, "netease" \in Platforms, [Next]_vars
  PROVE  [Ledger!Next]_LedgerVars
<1>1. CASE UNCHANGED <<targets, uploads>>
  BY <1>1 DEF LedgerVars, Phase, Status
<1>2. ASSUME NEW a \in Actors, RecordResult(a) PROVE [Ledger!Next]_LedgerVars
  <2> DEFINE t == task[a].target
             o == task[a].outcome
  <2>1. /\ Busy(a) /\ task[a].at = "record" /\ o \in {"published", "failed", "needs_attention"}
        /\ t \in Targets /\ targets[t] \in TargetRow /\ Status(t) = "publishing"
        /\ t[2] = "netease" /\ o = "published" => uploads[t[1]] > 0
    BY <1>2, BusyFacts
       DEF RecordResult, At, Busy, IInv, Attempts, Submissions, Platform, EpisodeOf
  <2>2. targets' = [targets EXCEPT ![t] = RecordedRow(@, o)] /\ UNCHANGED uploads
    BY <1>2 DEF RecordResult, Recorded
  <2>3. RecordedRow(targets[t], o).status = o /\ RecordedRow(targets[t], o).attempts = targets[t].attempts
    <3> HIDE DEF t, o, TargetRow
    <3> QED  BY <2>1, RowEdits DEF TargetStatus
  <2>4. /\ targets'[t].status = o /\ targets'[t].attempts = targets[t].attempts
        /\ \A u \in Targets : u # t => targets'[u] = targets[u]
    <3> HIDE DEF t, o
    <3> QED  BY <2>1, <2>2, <2>3 DEF IInv, TypeOK
  <2> HIDE DEF t, o
  <2> QED  BY <2>1, <2>2, <2>4, EditAside, EditEnds
<1>3. ASSUME NEW p \in Platforms, VisitTarget(p) PROVE [Ledger!Next]_LedgerVars
  <2> DEFINE t == <<task[worker].target[1], p>>
  <2>1. /\ t \in Targets /\ targets[t] \in TargetRow /\ t[2] = p /\ UNCHANGED uploads
        /\ p = "netease" => Status(t) \in Unbegun
    BY <1>3 DEF VisitTarget, At, Turn, Actors, IInv, TypeOK, WorkersShare, EpisodeOf, Targets, Status
  <2>2. CASE UNCHANGED targets  BY <1>1, <2>1, <2>2
  <2>3. CASE targets' = [targets EXCEPT ![t] = BegunRow(EnsuredRow(@))]
    <3>1. EnsuredRow(targets[t]) \in TargetRow /\ EnsuredRow(targets[t]).attempts = targets[t].attempts
      BY <2>1, RowEdits DEF TargetStatus
    <3>2. /\ BegunRow(EnsuredRow(targets[t])).status = "publishing"
          /\ BegunRow(EnsuredRow(targets[t])).attempts = targets[t].attempts + 1
      <4> HIDE DEF t, TargetRow
      <4> QED  BY <3>1, RowEdits DEF TargetStatus
    <3> HIDE DEF t
    <3>3. /\ targets'[t].status = "publishing" /\ targets'[t].attempts = targets[t].attempts + 1
          /\ \A u \in Targets : u # t => targets'[u] = targets[u]
      BY <2>1, <2>3, <3>2 DEF IInv, TypeOK
    <3> QED  BY <2>1, <3>3, EditAside, EditTries DEF Unbegun
  <2> QED  BY <1>3, <2>2, <2>3 DEF VisitTarget
<1>4. ASSUME NEW t \in Targets, ReconcileTarget(t) \/ MisreadTarget(t) PROVE [Ledger!Next]_LedgerVars
  <2>1. PICK s \in Checked(t) \cup {"failed"} : targets' = [targets EXCEPT ![t] = RecordedRow(@, s)]
    BY <1>4 DEF ReconcileTarget, MisreadTarget
  <2>2. Status(t) = "publishing" /\ targets[t] \in TargetRow /\ UNCHANGED uploads
    BY <1>4 DEF ReconcileTarget, MisreadTarget, IInv, TypeOK, Startup, WithStatus
  <2>3. t[2] = "netease" => /\ s \in TargetStatus \ {"none", "publishing"}
                            /\ s = "published" => uploads[t[1]] > 0
    BY <2>1 DEF Checked, CheckedNetEase, TargetStatus
  <2>4. \A u \in Targets : u # t => targets'[u] = targets[u]
    BY <2>1 DEF IInv, TypeOK
  <2>5. t[2] = "netease" => targets'[t].status = s /\ targets'[t].attempts = targets[t].attempts
    <3> HIDE DEF TargetRow
    <3> QED  BY <2>1, <2>2, <2>3, RowEdits DEF IInv, TypeOK
  <2> QED  BY <2>2, <2>3, <2>4, <2>5, EditAside, EditEnds
<1>5. ASSUME NEW a \in Requests, NEW t \in Targets, Resume(a, t) PROVE [Ledger!Next]_LedgerVars
  <2>1. Status(t) = "needs_attention" /\ targets[t] \in TargetRow /\ UNCHANGED uploads
    BY <1>5 DEF Resume, Resumable, IInv, TypeOK
  <2>2. BegunRow(targets[t]).status = "publishing" /\ BegunRow(targets[t]).attempts = targets[t].attempts + 1
    BY <2>1, RowEdits DEF TargetStatus
  <2>3. /\ targets'[t].status = "publishing" /\ targets'[t].attempts = targets[t].attempts + 1
        /\ \A u \in Targets : u # t => targets'[u] = targets[u]
    BY <1>5, <2>2 DEF Resume, IInv, TypeOK
  <2> QED  BY <2>1, <2>3, EditAside, EditTries
<1>6. ASSUME NEW t \in Targets, ReportTarget(t) PROVE [Ledger!Next]_LedgerVars
  <2>1. targets[t] \in TargetRow /\ Status(t) = "none" /\ UNCHANGED uploads
    BY <1>6 DEF ReportTarget, IInv, TypeOK
  <2>2. EnsuredRow(targets[t]).status = "pending" /\ EnsuredRow(targets[t]).attempts = targets[t].attempts
    BY <2>1, RowEdits DEF TargetStatus, Status
  <2>3. /\ targets'[t].status = "pending" /\ targets'[t].attempts = targets[t].attempts
        /\ \A u \in Targets : u # t => targets'[u] = targets[u]
    BY <1>6, <2>2 DEF ReportTarget, IInv, TypeOK
  <2> QED  BY <2>1, <2>3, EditAside
<1>7. ASSUME NEW a \in Actors, AttemptSteps(a) PROVE [Ledger!Next]_LedgerVars
  <2>1. CASE Submit(a)  BY <2>1, SubmitAccepts
  <2>2. CASE RecordResult(a)  BY <2>2, <1>2
  <2> QED  BY <1>7, <2>1, <2>2, <1>1
           DEF AttemptSteps, RssBegin, RssPublish, AbandonRss, Validate, StopForHuman, Confirm,
               XiaoyuzhouPublish, tables
<1> QED
  BY <1>1, <1>3, <1>4, <1>5, <1>6, <1>7
     DEF Next, WorkerSteps, StartupSteps, EndPublish, Boot, Serve, Crash, ReconcileRss, StartPublish,
         LoseMedia, Actors, tables, vars

(* The rows of the NetEase target keep the ledger a platform without       *)
(* idempotency is owed: a submission per recorded attempt at most, and a   *)
(* target that is closed for good once something was accepted.             *)
THEOREM DistributionKeepsLedger ==
  ASSUME "netease" \in Platforms
  PROVE  Spec => KeepsLedger
<1>1. Init => Ledger!Init
  BY DEF Init, Ledger!Init, NoRow, Phase, Status, Targets
<1>2. IInv /\ [Next]_vars => [Ledger!Next]_LedgerVars  BY StepRefines
<1> QED
  BY <1>1, <1>2, Invariance, PTL DEF Spec, KeepsLedger, Ledger!Spec, Ledger!vars, LedgerVars

==============================================================================
