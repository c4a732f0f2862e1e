-------------------------- MODULE PublicationProofs --------------------------
(***************************************************************************)
(* Theorems about Publication, for any sets of Episodes and audio          *)
(* contents, anything that may get lost, and any number of crashes, merges *)
(* and file errors.                                                        *)
(*                                                                         *)
(* They rest on one inductive invariant, IInv: what holds of each table    *)
(* row and file (EpisodeRows, PublicationRows), what the place of the      *)
(* actor implies of its Episode (ActorPlace, HeldRow), and who owns a row  *)
(* that is publishing (Owned).                                             *)
(***************************************************************************)
EXTENDS Publication, TLAPS

-----------------------------------------------------------------------------
(* The inductive invariant *)

RunPlaces == {"create_episode", "generate_audio", "merge", "finalize", "publish",
              "create_publication", "begin", "promote", "persist"}

PublishingPlaces == {"promote", "persist", "write", "mark", "fail"}

(* Where the actor can be in each phase of the process.                    *)
ActorPlace ==
  /\ proc = "down" => pc = "idle"
  /\ pc = "idle" => proc # "starting"
  /\ pc \in {"reconcile", "check", "rebuild"} => proc = "starting"
  /\ pc \in RunPlaces => proc = "up"
  /\ pc \in {"idle", "reconcile", "check", "rebuild"} <=> ep = NoEpisode
  /\ proc # "starting" => todo = {}
  /\ pc \in {"check", "rebuild"} => todo = {}
  /\ proc # "up" => abandoned = {}

(* An Episode and its draft file.                                          *)
EpisodeRows ==
  \A e \in Episodes :
    /\ episodes[e].status = "none" => episodes[e].version = 0 /\ draft[e] = NoAudio
    /\ episodes[e].version = 0 <=> episodes[e].audio = NoAudio
    /\ episodes[e].status \in {"review_required", "approved", "publishing"} =>
         draft[e] = episodes[e].audio
    /\ episodes[e].status \in {"approved", "publishing"} =>
         episodes[e].approved = episodes[e].version /\ episodes[e].version # 0

PublicationRows ==
  \A e \in Episodes : publications[e].status = "published" => publications[e].asset # NoAudio

(* What the actor's place says of the Episode it holds.                    *)
HeldRow ==
  /\ pc = "generate_audio" => episodes[ep].status # "none"
  /\ pc \in {"merge", "finalize"} => episodes[ep].status = "draft"
  /\ pc = "finalize" => draft[ep] # NoAudio
  /\ pc = "publish" => episodes[ep].version # 0
  /\ pc \in {"create_publication", "begin"} => episodes[ep].status = "approved"
  /\ pc \in PublishingPlaces => publications[ep].status = "publishing"
  /\ pc \in {"write", "mark"} => publications[ep].asset # NoAudio

(* A publishing row belongs to the worker, to a startup that will get to it, or is *)
(* one this process has left behind.                                               *)
Owned ==
  /\ todo \subseteq WithStatus("publishing")
  /\ abandoned \subseteq WithStatus("publishing")
  /\ pc \in PublishingPlaces => ep \notin abandoned
  /\ \A e \in WithStatus("publishing") :
       /\ proc = "up" /\ e \notin abandoned => ep = e /\ pc \in PublishingPlaces
       /\ proc = "starting" => e \in todo

IInv == /\ TypeOK /\ ActorPlace /\ EpisodeRows /\ PublicationRows /\ HeldRow
        /\ StatusesAgree /\ Owned /\ FeedShowsPublished

-----------------------------------------------------------------------------
(* Preservation *)

TablesTyped ==
  episodes \in [Episodes -> EpisodeRow] /\ publications \in [Episodes -> PublicationRow]

(* SetStatus edits two rows and keeps the tables' types.                   *)
LEMMA SetStatusEdits ==
  ASSUME TypeOK, NEW e \in Episodes, NEW es \in EpisodeStatus, NEW ps \in PublicationStatus,
         SetStatus(e, es, ps)
  PROVE  /\ episodes' \in [Episodes -> EpisodeRow]
         /\ publications' \in [Episodes -> PublicationRow]
         /\ episodes'[e] = [episodes[e] EXCEPT !.status = es]
         /\ publications'[e] = [publications[e] EXCEPT !.status = ps]
         /\ \A f \in Episodes \ {e} : episodes'[f] = episodes[f] /\ publications'[f] = publications[f]
  BY DEF TypeOK, SetStatus, EpisodeRow, PublicationRow

LEMMA EpisodeEdits ==
  ASSUME TypeOK, NEW e \in Episodes, NEW es \in EpisodeStatus,
         episodes' = [episodes EXCEPT ![e].status = es]
  PROVE  episodes' \in [Episodes -> EpisodeRow]
  BY DEF TypeOK, EpisodeRow

(* The actions that change an Episode or its draft. *)
LEMMA EpisodeWriters ==
  ASSUME [Next]_vars
  PROVE  \/ UNCHANGED <<episodes, draft>>
         \/ CreateEpisode \/ InvalidateApproval \/ KeepDraft \/ Finalize \/ Approve
         \/ BeginPublish \/ MarkPublished \/ MarkFailed
         \/ \E a \in Audios : Merge(a)
         \/ \E e \in Episodes : ReconcileVerified(e)
         \/ \E e \in Episodes : ReturnToPending(e)
  BY DEF Next, EpisodeSteps, PublishSteps, StartupSteps, Environment, vars, tables,
         files, actor, marks, counts, RaiseOSError, OnlyActor, ReuseEpisode,
         StopPipeline, RefuseAudio, FailAudio, AlreadyApproved, SkipPublish,
         CreatePublication, PromoteAsset, PersistCandidate, WriteFeed, RefuseFeed,
         FileFault, AbandonRow, Boot, EndReconcile, Readmit, MisreadRow,
         FeedIsCurrent, FeedIsStale, MisreadFeed, RebuildFeed, RebuildRefused,
         RebuildFault, Crash, EndOfProcess, AbortStartup, LoseFeed, LoseMedia,
         StartRun

(* The actions that change a publication. *)
LEMMA PublicationWriters ==
  ASSUME [Next]_vars
  PROVE  \/ UNCHANGED publications
         \/ CreatePublication \/ BeginPublish \/ PersistCandidate \/ MarkPublished
         \/ MarkFailed
         \/ \E e \in Episodes : ReconcileVerified(e)
         \/ \E e \in Episodes : ReturnToPending(e)
  BY DEF Next, EpisodeSteps, PublishSteps, StartupSteps, Environment, vars, tables,
         files, actor, marks, counts, RaiseOSError, OnlyActor, CreateEpisode,
         ReuseEpisode, StopPipeline, RefuseAudio, InvalidateApproval, FailAudio,
         KeepDraft, Merge, Finalize, Approve, AlreadyApproved, SkipPublish,
         PromoteAsset, WriteFeed, RefuseFeed, FileFault, AbandonRow, Boot,
         EndReconcile, Readmit, MisreadRow, FeedIsCurrent, FeedIsStale,
         MisreadFeed, RebuildFeed, RebuildRefused, RebuildFault, Crash,
         EndOfProcess, AbortStartup, LoseFeed, LoseMedia, StartRun

(* The actions that change either table. *)
LEMMA StatusWriters ==
  ASSUME [Next]_vars
  PROVE  \/ UNCHANGED <<episodes, publications>>
         \/ CreateEpisode \/ InvalidateApproval \/ KeepDraft \/ Finalize \/ Approve
         \/ CreatePublication \/ BeginPublish \/ PersistCandidate \/ MarkPublished
         \/ MarkFailed
         \/ \E e \in Episodes : ReconcileVerified(e)
         \/ \E e \in Episodes : ReturnToPending(e)
  BY DEF Next, EpisodeSteps, PublishSteps, StartupSteps, Environment, vars, tables,
         files, actor, marks, counts, RaiseOSError, OnlyActor, ReuseEpisode,
         StopPipeline, RefuseAudio, FailAudio, Merge, AlreadyApproved, SkipPublish,
         PromoteAsset, WriteFeed, RefuseFeed, FileFault, AbandonRow, Boot,
         EndReconcile, Readmit, MisreadRow, FeedIsCurrent, FeedIsStale,
         MisreadFeed, RebuildFeed, RebuildRefused, RebuildFault, Crash,
         EndOfProcess, AbortStartup, LoseFeed, LoseMedia, StartRun

(* No step detaches an approval from the draft it was given for. *)
LEMMA NextEpisodeRows ==
  ASSUME IInv, [Next]_vars
  PROVE  EpisodeRows'
<1> USE PublicationConstantsOK DEF IInv, TypeOK, ActorPlace, RunPlaces, Places,
        HeldRow, PublishingPlaces, EpisodeRows, StatusesAgree, Owned, EpisodeRow,
        At, tables, files
<1>1. CASE UNCHANGED <<episodes, draft>>
  BY <1>1
<1>2. CASE CreateEpisode
  BY <1>2 DEF CreateEpisode
<1>3. CASE InvalidateApproval
  BY <1>3 DEF InvalidateApproval
<1>4. CASE KeepDraft
  BY <1>4 DEF KeepDraft
<1>5. CASE Finalize
  BY <1>5 DEF Finalize
<1>6. CASE Approve
  BY <1>6 DEF Approve
<1>7. CASE BeginPublish
  BY <1>7 DEF BeginPublish, SetStatus
<1>8. CASE MarkPublished
  BY <1>8 DEF MarkPublished, SetStatus
<1>9. CASE MarkFailed
  BY <1>9 DEF MarkFailed, SetStatus, Reopened
<1>10. ASSUME NEW a \in Audios, Merge(a)
      PROVE  EpisodeRows'
  BY <1>10 DEF Merge
<1>11. ASSUME NEW e \in Episodes, ReconcileVerified(e)
      PROVE  EpisodeRows'
  BY <1>11 DEF ReconcileVerified, SetStatus
<1>12. ASSUME NEW e \in Episodes, ReturnToPending(e)
      PROVE  EpisodeRows'
  BY <1>12 DEF ReturnToPending, SetStatus, Reopened
<1> QED
  BY <1>1, <1>2, <1>3, <1>4, <1>5, <1>6, <1>7, <1>8, <1>9, <1>10, <1>11, <1>12,
     EpisodeWriters

(* No step publishes a row that names no asset. *)
LEMMA NextPublicationRows ==
  ASSUME IInv, [Next]_vars
  PROVE  PublicationRows'
<1> USE PublicationConstantsOK DEF IInv, TypeOK, ActorPlace, RunPlaces, Places,
        HeldRow, PublishingPlaces, PublicationRows, PublicationRow, Owned,
        WithStatus, At
<1>1. CASE UNCHANGED publications
  BY <1>1
<1>2. CASE CreatePublication
  BY <1>2 DEF CreatePublication
<1>3. CASE BeginPublish
  BY <1>3 DEF BeginPublish, SetStatus
<1>4. CASE PersistCandidate
  BY <1>4 DEF PersistCandidate
<1>5. CASE MarkPublished
  BY <1>5 DEF MarkPublished, SetStatus
<1>6. CASE MarkFailed
  BY <1>6 DEF MarkFailed, SetStatus
<1>7. ASSUME NEW e \in Episodes, ReconcileVerified(e)
      PROVE  PublicationRows'
  BY <1>7 DEF ReconcileVerified, SetStatus, Verifies
<1>8. ASSUME NEW e \in Episodes, ReturnToPending(e)
      PROVE  PublicationRows'
  BY <1>8 DEF ReturnToPending, SetStatus
<1> QED
  BY <1>1, <1>2, <1>3, <1>4, <1>5, <1>6, <1>7, <1>8, PublicationWriters

(* Each transaction moves both tables into and out of publishing and published. *)
LEMMA NextStatusesAgree ==
  ASSUME IInv, [Next]_vars
  PROVE  StatusesAgree'
<1> USE PublicationConstantsOK DEF IInv, TypeOK, ActorPlace, RunPlaces, Places,
        HeldRow, PublishingPlaces, StatusesAgree, EpisodeRow, PublicationRow,
        Owned, WithStatus, At
<1>1. CASE UNCHANGED <<episodes, publications>>
  BY <1>1
<1>2. CASE CreateEpisode
  BY <1>2 DEF CreateEpisode
<1>3. CASE InvalidateApproval
  BY <1>3 DEF InvalidateApproval
<1>4. CASE KeepDraft
  BY <1>4 DEF KeepDraft
<1>5. CASE Finalize
  BY <1>5 DEF Finalize
<1>6. CASE Approve
  BY <1>6 DEF Approve
<1>7. CASE CreatePublication
  BY <1>7 DEF CreatePublication
<1>8. CASE BeginPublish
  BY <1>8 DEF BeginPublish, SetStatus
<1>9. CASE PersistCandidate
  BY <1>9 DEF PersistCandidate
<1>10. CASE MarkPublished
  BY <1>10 DEF MarkPublished, SetStatus
<1>11. CASE MarkFailed
  BY <1>11 DEF MarkFailed, SetStatus, Reopened
<1>12. ASSUME NEW e \in Episodes, ReconcileVerified(e)
      PROVE  StatusesAgree'
  BY <1>12 DEF ReconcileVerified, SetStatus
<1>13. ASSUME NEW e \in Episodes, ReturnToPending(e)
      PROVE  StatusesAgree'
  BY <1>13 DEF ReturnToPending, SetStatus, Reopened
<1> QED
  BY <1>1, <1>2, <1>3, <1>4, <1>5, <1>6, <1>7, <1>8, <1>9, <1>10, <1>11, <1>12,
     <1>13, StatusWriters

(* Both tables keep their types. *)
LEMMA NextTables ==
  ASSUME IInv, [Next]_vars
  PROVE  TablesTyped'
<1> USE PublicationConstantsOK DEF IInv, TypeOK, ActorPlace, RunPlaces, Places, At,
        TablesTyped
<1>1. CASE UNCHANGED <<episodes, publications>>
  BY <1>1
<1>2. CASE CreateEpisode
  BY <1>2, EpisodeEdits DEF CreateEpisode, EpisodeStatus
<1>3. CASE InvalidateApproval
  BY <1>3 DEF InvalidateApproval, EpisodeRow, EpisodeStatus
<1>4. CASE KeepDraft
  BY <1>4, EpisodeEdits DEF KeepDraft, EpisodeStatus
<1>5. CASE Finalize
  BY <1>5 DEF Finalize, EpisodeRow, EpisodeStatus
<1>6. CASE Approve
  BY <1>6 DEF Approve, EpisodeRow, EpisodeStatus
<1>7. CASE CreatePublication
  BY <1>7 DEF CreatePublication, PublicationRow, PublicationStatus
<1>8. CASE BeginPublish
  BY <1>8, SetStatusEdits DEF BeginPublish, EpisodeStatus, PublicationStatus
<1>9. CASE PersistCandidate
  BY <1>9 DEF PersistCandidate, PublicationRow, HeldRow, StatusesAgree,
         EpisodeRows, PublishingPlaces
<1>10. CASE MarkPublished
  BY <1>10, SetStatusEdits DEF MarkPublished, EpisodeStatus, PublicationStatus
<1>11. CASE MarkFailed
  <2>1. ep \in Episodes
    BY <1>11 DEF MarkFailed
  <2>2. Reopened(ep) \in EpisodeStatus
    BY <2>1 DEF Reopened, EpisodeRow, EpisodeStatus
  <2>3. SetStatus(ep, Reopened(ep), "failed")
    BY <1>11 DEF MarkFailed
  <2> QED
    BY <2>1, <2>2, <2>3, SetStatusEdits DEF PublicationStatus
<1>12. ASSUME NEW e \in Episodes, ReconcileVerified(e)
      PROVE  TablesTyped'
  BY <1>12, SetStatusEdits DEF ReconcileVerified, EpisodeStatus, PublicationStatus
<1>13. ASSUME NEW e \in Episodes, ReturnToPending(e)
      PROVE  TablesTyped'
  <2>1. Reopened(e) \in EpisodeStatus
    BY DEF Reopened, EpisodeRow, EpisodeStatus
  <2>2. SetStatus(e, Reopened(e), "pending")
    BY <1>13 DEF ReturnToPending
  <2> QED
    BY <2>1, <2>2, SetStatusEdits DEF PublicationStatus
<1> QED
  BY <1>1, <1>2, <1>3, <1>4, <1>5, <1>6, <1>7, <1>8, <1>9, <1>10, <1>11, <1>12,
     <1>13, StatusWriters

(* The actions that change a file. *)
LEMMA FileWriters ==
  ASSUME [Next]_vars
  PROVE  \/ UNCHANGED files
         \/ PromoteAsset \/ WriteFeed \/ RebuildFeed \/ LoseFeed
         \/ \E a \in Audios : Merge(a)
         \/ \E e \in Episodes : LoseMedia(e)
  BY DEF Next, EpisodeSteps, PublishSteps, StartupSteps, Environment, vars, tables,
         files, actor, marks, counts, RaiseOSError, OnlyActor, CreateEpisode,
         ReuseEpisode, StopPipeline, RefuseAudio, InvalidateApproval, FailAudio,
         KeepDraft, Finalize, Approve, AlreadyApproved, SkipPublish,
         CreatePublication, BeginPublish, PersistCandidate, RefuseFeed, FileFault,
         AbandonRow, MarkPublished, MarkFailed, Boot, EndReconcile,
         ReconcileVerified, ReturnToPending, Readmit, MisreadRow, FeedIsCurrent,
         FeedIsStale, MisreadFeed, RebuildRefused, RebuildFault, Crash,
         EndOfProcess, AbortStartup, StartRun

(* The files hold audio contents, and a public item is one of an audio.      *)
LEMMA NextFiles ==
  ASSUME IInv, [Next]_vars
  PROVE  /\ draft' \in [Episodes -> Audios \cup {NoAudio}]
         /\ media' \subseteq Episodes \X Audios
         /\ feed' \subseteq Episodes \X Audios
<1> DEFINE Goal == /\ draft' \in [Episodes -> Audios \cup {NoAudio}]
                   /\ media' \subseteq Episodes \X Audios
                   /\ feed' \subseteq Episodes \X Audios
<1> USE DEF IInv, TypeOK, ActorPlace, At, tables, files
<1>1. CASE UNCHANGED files
  BY <1>1
<1>2. CASE PromoteAsset
  <2>1. ep \in Episodes /\ episodes[ep].status = "publishing"
    BY <1>2 DEF PromoteAsset, HeldRow, PublishingPlaces, StatusesAgree
  <2>2. episodes[ep].audio # NoAudio /\ draft[ep] = episodes[ep].audio
    BY <2>1 DEF EpisodeRows
  <2>3. draft[ep] \in Audios
    BY <2>1, <2>2
  <2> QED
    BY <1>2, <2>1, <2>3 DEF PromoteAsset
<1>3. CASE WriteFeed
  BY <1>3 DEF WriteFeed
<1>4. CASE RebuildFeed
  BY <1>4 DEF RebuildFeed
<1>5. CASE LoseFeed
  BY <1>5 DEF LoseFeed
<1>6. ASSUME NEW a \in Audios, Merge(a)
      PROVE  Goal
  BY <1>6 DEF Merge
<1>7. ASSUME NEW e \in Episodes, LoseMedia(e)
      PROVE  Goal
  BY <1>7 DEF LoseMedia
<1> QED
  BY <1>1, <1>2, <1>3, <1>4, <1>5, <1>6, <1>7, FileWriters

(* The actor and the counters.                                               *)
LEMMA NextActorTyped ==
  ASSUME IInv, [Next]_vars
  PROVE  /\ proc' \in {"down", "starting", "up"} /\ pc' \in Places
         /\ ep' \in Episodes \cup {NoEpisode} /\ todo' \subseteq Episodes
         /\ swallowed' \in BOOLEAN /\ abandoned' \subseteq Episodes
         /\ boots' \in 0 .. MaxBoots /\ faults' \in 0 .. MaxFaults
<1> DEFINE Goal == /\ proc' \in {"down", "starting", "up"} /\ pc' \in Places
                   /\ ep' \in Episodes \cup {NoEpisode} /\ todo' \subseteq Episodes
                   /\ swallowed' \in BOOLEAN /\ abandoned' \subseteq Episodes
                   /\ boots' \in 0 .. MaxBoots /\ faults' \in 0 .. MaxFaults
<1> USE PublicationConstantsOK
    DEF IInv, TypeOK, Places, tables, files, actor, marks, counts, RaiseOSError, Goto, Leave, OnlyActor
<1>1. CASE EpisodeSteps
  <2>1. CASE CreateEpisode
    BY <2>1 DEF CreateEpisode
  <2>2. CASE ReuseEpisode
    BY <2>2 DEF ReuseEpisode
  <2>3. CASE StopPipeline
    BY <2>3 DEF StopPipeline
  <2>4. CASE RefuseAudio
    BY <2>4 DEF RefuseAudio
  <2>5. CASE InvalidateApproval
    BY <2>5 DEF InvalidateApproval
  <2>6. CASE FailAudio
    BY <2>6 DEF FailAudio
  <2>7. CASE KeepDraft
    BY <2>7 DEF KeepDraft
  <2>8. ASSUME NEW a \in Audios, Merge(a)
        PROVE  Goal
    BY <2>8 DEF Merge
  <2>9. CASE Finalize
    BY <2>9 DEF Finalize
  <2> QED
    BY <1>1, <2>1, <2>2, <2>3, <2>4, <2>5, <2>6, <2>7, <2>8, <2>9 DEF EpisodeSteps
<1>2. CASE PublishSteps
  <2>1. CASE Approve
    BY <2>1 DEF Approve
  <2>2. CASE AlreadyApproved
    BY <2>2 DEF AlreadyApproved
  <2>3. CASE SkipPublish
    BY <2>3 DEF SkipPublish
  <2>4. CASE CreatePublication
    BY <2>4 DEF CreatePublication
  <2>5. CASE BeginPublish
    BY <2>5 DEF BeginPublish
  <2>6. CASE PromoteAsset
    BY <2>6 DEF PromoteAsset
  <2>7. CASE PersistCandidate
    BY <2>7 DEF PersistCandidate
  <2>8. CASE WriteFeed
    BY <2>8 DEF WriteFeed
  <2>9. CASE RefuseFeed
    BY <2>9 DEF RefuseFeed
  <2>10. CASE FileFault
    BY <2>10 DEF FileFault
  <2>11. CASE MarkPublished
    BY <2>11 DEF MarkPublished
  <2>12. CASE AbandonRow
    BY <2>12 DEF AbandonRow, At, ActorPlace
  <2>13. CASE MarkFailed
    BY <2>13 DEF MarkFailed
  <2> QED
    BY <1>2, <2>1, <2>2, <2>3, <2>4, <2>5, <2>6, <2>7, <2>8, <2>9, <2>10,
       <2>11, <2>12, <2>13 DEF PublishSteps
<1>3. CASE StartupSteps
  <2>1. CASE Boot
    BY <2>1 DEF Boot, WithStatus
  <2>2. CASE EndReconcile
    BY <2>2 DEF EndReconcile
  <2>3. ASSUME NEW e \in Episodes, ReconcileVerified(e)
        PROVE  Goal
    BY <2>3 DEF ReconcileVerified
  <2>4. ASSUME NEW e \in Episodes, ReturnToPending(e)
        PROVE  Goal
    BY <2>4 DEF ReturnToPending
  <2>5. ASSUME NEW e \in Episodes, Readmit(e)
        PROVE  Goal
    BY <2>5 DEF Readmit
  <2>6. CASE FeedIsCurrent
    BY <2>6 DEF FeedIsCurrent, Serve
  <2>7. CASE RebuildFeed
    BY <2>7 DEF RebuildFeed, Serve
  <2>8. CASE RebuildRefused
    BY <2>8 DEF RebuildRefused, Serve
  <2>9. CASE RebuildFault
    BY <2>9 DEF RebuildFault, Serve
  <2>10. ASSUME NEW e \in Episodes, MisreadRow(e)
         PROVE  Goal
    BY <2>10 DEF MisreadRow
  <2>11. CASE FeedIsStale \/ MisreadFeed
    BY <2>11 DEF FeedIsStale, MisreadFeed
  <2> QED
    BY <1>3, <2>1, <2>2, <2>3, <2>4, <2>5, <2>6, <2>7, <2>8, <2>9, <2>10, <2>11
       DEF StartupSteps
<1>4. CASE Environment
  BY <1>4 DEF Environment, Crash, EndOfProcess, AbortStartup, LoseFeed, LoseMedia, StartRun
<1>5. CASE UNCHANGED vars
  BY <1>5 DEF vars
<1> QED
  BY <1>1, <1>2, <1>3, <1>4, <1>5 DEF Next

(* Every step keeps every variable in its type.                              *)
LEMMA NextTypeOK ==
  ASSUME IInv, [Next]_vars
  PROVE  TypeOK'
  BY NextTables, NextFiles, NextActorTyped DEF TypeOK, TablesTyped

(* The actor is where the phase of the process allows. *)
LEMMA NextActorPlace ==
  ASSUME IInv, [Next]_vars
  PROVE  ActorPlace'
<1> USE PublicationConstantsOK DEF IInv, TypeOK, ActorPlace, RunPlaces, Places,
        tables, files, actor, marks, counts, RaiseOSError, At, Goto, Leave,
        OnlyActor, SetStatus
<1>1. CASE EpisodeSteps
  BY <1>1 DEF EpisodeSteps, CreateEpisode, ReuseEpisode, StopPipeline, RefuseAudio,
         InvalidateApproval, FailAudio, KeepDraft, Merge, Finalize
<1>2. CASE PublishSteps
  BY <1>2 DEF PublishSteps, Approve, AlreadyApproved, SkipPublish,
         CreatePublication, BeginPublish, PromoteAsset, PersistCandidate,
         WriteFeed, RefuseFeed, FileFault, AbandonRow, MarkPublished, MarkFailed
<1>3. CASE StartupSteps
  BY <1>3 DEF StartupSteps, Boot, EndReconcile, ReconcileVerified, ReturnToPending,
         Readmit, MisreadRow, FeedIsCurrent, FeedIsStale, MisreadFeed, RebuildFeed,
         RebuildRefused, RebuildFault, Serve
<1>4. CASE Environment
  BY <1>4 DEF Environment, Crash, EndOfProcess, AbortStartup, LoseFeed, LoseMedia, StartRun
<1>5. CASE UNCHANGED vars
  BY <1>5 DEF vars
<1> QED
  BY <1>1, <1>2, <1>3, <1>4, <1>5 DEF Next

(* Each place establishes what the next one takes for granted. *)
LEMMA NextHeldRow ==
  ASSUME IInv, [Next]_vars
  PROVE  HeldRow'
<1> USE PublicationConstantsOK DEF IInv, TypeOK, ActorPlace, RunPlaces, Places,
        HeldRow, PublishingPlaces, EpisodeRows, Owned, WithStatus, EpisodeRow,
        PublicationRow, tables, files, actor, marks, counts, RaiseOSError, At,
        Goto, Leave, OnlyActor, SetStatus
<1>1. CASE EpisodeSteps
  <2>1. CASE CreateEpisode
    BY <2>1 DEF CreateEpisode
  <2>2. CASE ReuseEpisode
    BY <2>2 DEF ReuseEpisode
  <2>3. CASE StopPipeline
    BY <2>3 DEF StopPipeline
  <2>4. CASE RefuseAudio
    BY <2>4 DEF RefuseAudio
  <2>5. CASE InvalidateApproval
    <3>1. ep \in Episodes /\ episodes[ep].status \in {"draft", "review_required", "approved"}
      BY <2>5 DEF InvalidateApproval, EpisodeStatus
    <3>2. episodes'[ep].status = "draft" /\ pc' = "merge" /\ ep' = ep
      BY <2>5, <3>1 DEF InvalidateApproval
    <3> QED
      BY <3>2
  <2>6. CASE FailAudio
    BY <2>6 DEF FailAudio
  <2>7. CASE KeepDraft
    BY <2>7 DEF KeepDraft
  <2>8. ASSUME NEW a \in Audios, Merge(a)
        PROVE  HeldRow'
    BY <2>8 DEF Merge
  <2>9. CASE Finalize
    BY <2>9 DEF Finalize
  <2> QED
    BY <1>1, <2>1, <2>2, <2>3, <2>4, <2>5, <2>6, <2>7, <2>8, <2>9 DEF EpisodeSteps
<1>2. CASE PublishSteps
  <2>1. CASE Approve
    BY <2>1 DEF Approve
  <2>2. CASE AlreadyApproved
    BY <2>2 DEF AlreadyApproved
  <2>3. CASE SkipPublish
    BY <2>3 DEF SkipPublish
  <2>4. CASE CreatePublication
    BY <2>4 DEF CreatePublication
  <2>5. CASE BeginPublish
    BY <2>5 DEF BeginPublish
  <2>6. CASE PromoteAsset
    BY <2>6 DEF PromoteAsset
  <2>7. CASE PersistCandidate
    BY <2>7 DEF PersistCandidate, StatusesAgree
  <2>8. CASE WriteFeed
    BY <2>8 DEF WriteFeed
  <2>9. CASE RefuseFeed
    BY <2>9 DEF RefuseFeed
  <2>10. CASE FileFault
    BY <2>10 DEF FileFault
  <2>11. CASE MarkPublished
    BY <2>11 DEF MarkPublished
  <2>12. CASE AbandonRow
    BY <2>12 DEF AbandonRow
  <2>13. CASE MarkFailed
    BY <2>13 DEF MarkFailed
  <2> QED
    BY <1>2, <2>1, <2>2, <2>3, <2>4, <2>5, <2>6, <2>7, <2>8, <2>9, <2>10,
       <2>11, <2>12, <2>13 DEF PublishSteps
<1>3. CASE StartupSteps
  <2>1. CASE Boot \/ EndReconcile  BY <2>1 DEF Boot, EndReconcile
  <2>2. CASE \E e \in Episodes : ReconcileVerified(e) \/ ReturnToPending(e)
    BY <2>2 DEF ReconcileVerified, ReturnToPending
  <2>3. CASE \E e \in Episodes : Readmit(e) \/ MisreadRow(e)
    BY <2>3 DEF Readmit, MisreadRow, Verifies
  <2>4. CASE FeedIsCurrent \/ FeedIsStale \/ MisreadFeed
    BY <2>4 DEF FeedIsCurrent, FeedIsStale, MisreadFeed, Serve
  <2>5. CASE RebuildFeed \/ RebuildRefused \/ RebuildFault
    BY <2>5 DEF RebuildFeed, RebuildRefused, RebuildFault, Serve
  <2> QED  BY <1>3, <2>1, <2>2, <2>3, <2>4, <2>5 DEF StartupSteps
<1>4. CASE Environment
  BY <1>4 DEF Environment, Crash, EndOfProcess, AbortStartup, LoseFeed, LoseMedia, StartRun
<1>5. CASE UNCHANGED vars
  BY <1>5 DEF vars
<1> QED
  BY <1>1, <1>2, <1>3, <1>4, <1>5 DEF Next

(* A row enters publishing in the hands of the worker, and leaves it with them. *)
LEMMA NextOwned ==
  ASSUME IInv, [Next]_vars
  PROVE  Owned'
<1> USE PublicationConstantsOK DEF IInv, TypeOK, ActorPlace, RunPlaces, Places,
        HeldRow, PublishingPlaces, Owned, WithStatus, StatusesAgree, Reopened,
        PublicationRow, tables, files, actor, marks, counts, RaiseOSError, At,
        Goto, Leave, OnlyActor, SetStatus
<1>1. CASE EpisodeSteps
  BY <1>1 DEF EpisodeSteps, CreateEpisode, ReuseEpisode, StopPipeline, RefuseAudio,
         InvalidateApproval, FailAudio, KeepDraft, Merge, Finalize
<1>2. CASE PublishSteps
  <2>1. CASE Approve \/ AlreadyApproved \/ SkipPublish
    BY <2>1 DEF Approve, AlreadyApproved, SkipPublish
  <2>2. CASE CreatePublication
    BY <2>2 DEF CreatePublication
  <2>3. CASE BeginPublish
    <3>1. ep \in Episodes /\ publications[ep].status # "publishing" /\ proc = "up"
      BY <2>3 DEF BeginPublish
    <3>2. WithStatus("publishing")' = WithStatus("publishing") \cup {ep}
      BY <2>3, <3>1 DEF BeginPublish
    <3> QED
      BY <2>3, <3>1, <3>2 DEF BeginPublish
  <2>4. CASE PromoteAsset \/ PersistCandidate
    BY <2>4 DEF PromoteAsset, PersistCandidate
  <2>5. CASE WriteFeed \/ RefuseFeed \/ FileFault
    BY <2>5 DEF WriteFeed, RefuseFeed, FileFault
  <2>6. CASE MarkPublished
    BY <2>6 DEF MarkPublished
  <2>7. CASE AbandonRow
    BY <2>7 DEF AbandonRow
  <2>8. CASE MarkFailed
    BY <2>8 DEF MarkFailed
  <2> QED
    BY <1>2, <2>1, <2>2, <2>3, <2>4, <2>5, <2>6, <2>7, <2>8 DEF PublishSteps
<1>3. CASE StartupSteps
  <2>1. CASE Boot \/ EndReconcile  BY <2>1 DEF Boot, EndReconcile
  <2>2. CASE \E e \in Episodes :
               ReconcileVerified(e) \/ ReturnToPending(e) \/ Readmit(e) \/ MisreadRow(e)
    BY <2>2 DEF ReconcileVerified, ReturnToPending, Readmit, MisreadRow
  <2>3. CASE FeedIsCurrent \/ FeedIsStale \/ MisreadFeed \/ RebuildFeed
    BY <2>3 DEF FeedIsCurrent, FeedIsStale, MisreadFeed, RebuildFeed, Serve
  <2>4. CASE RebuildRefused \/ RebuildFault  BY <2>4 DEF RebuildRefused, RebuildFault, Serve
  <2> QED  BY <1>3, <2>1, <2>2, <2>3, <2>4 DEF StartupSteps
<1>4. CASE Environment
  BY <1>4 DEF Environment, Crash, EndOfProcess, AbortStartup, LoseFeed, LoseMedia, StartRun
<1>5. CASE UNCHANGED vars
  BY <1>5 DEF vars
<1> QED
  BY <1>1, <1>2, <1>3, <1>4, <1>5 DEF Next

(* The actions that change what the rows promise or what the feed shows. *)
LEMMA FeedPromiseWriters ==
  ASSUME [Next]_vars
  PROVE  \/ UNCHANGED <<publications, feed, proc, swallowed>>
         \/ CreatePublication \/ BeginPublish \/ PersistCandidate \/ WriteFeed
         \/ MarkPublished \/ MarkFailed \/ FeedIsCurrent \/ RebuildFeed
         \/ RebuildRefused \/ RebuildFault \/ Boot \/ EndOfProcess \/ LoseFeed
         \/ \E e \in Episodes : ReconcileVerified(e)
         \/ \E e \in Episodes : ReturnToPending(e)
  BY DEF Next, EpisodeSteps, PublishSteps, StartupSteps, Environment, vars, tables,
         files, actor, marks, counts, RaiseOSError, OnlyActor, CreateEpisode,
         ReuseEpisode, StopPipeline, RefuseAudio, InvalidateApproval, FailAudio,
         KeepDraft, Merge, Finalize, Approve, AlreadyApproved, SkipPublish,
         PromoteAsset, RefuseFeed, FileFault, AbandonRow, EndReconcile, Readmit,
         MisreadRow, FeedIsStale, MisreadFeed, Crash, AbortStartup, LoseMedia, StartRun

(* A published row is in the feed before the decision, and in each feed after it. *)
LEMMA NextFeedShowsPublished ==
  ASSUME IInv, [Next]_vars
  PROVE  FeedShowsPublished'
<1> USE PublicationConstantsOK DEF IInv, TypeOK, ActorPlace, RunPlaces, Places,
        HeldRow, PublishingPlaces, FeedShowsPublished, FeedItems, Item, WithStatus,
        Owned, StatusesAgree, PublicationRow, At, tables, files, actor, marks,
        counts, RaiseOSError
<1>1. CASE UNCHANGED <<publications, feed, proc, swallowed>>
  BY <1>1
<1>2. CASE CreatePublication
  BY <1>2 DEF CreatePublication
<1>3. CASE BeginPublish
  BY <1>3 DEF BeginPublish, SetStatus
<1>4. CASE PersistCandidate
  BY <1>4 DEF PersistCandidate
<1>5. CASE WriteFeed
  BY <1>5 DEF WriteFeed
<1>6. CASE MarkPublished
  <2>1. ep \in Episodes /\ Item(ep) \in feed
    BY <1>6 DEF MarkPublished, Verifies
  <2>2. /\ \A e \in Episodes : publications'[e].asset = publications[e].asset
        /\ \A e \in Episodes \ {ep} : publications'[e].status = publications[e].status
    BY <1>6, <2>1 DEF MarkPublished, SetStatus
  <2>3. UNCHANGED <<feed, proc, swallowed>>
    BY <1>6 DEF MarkPublished
  <2>4. FeedItems({})' \subseteq FeedItems({}) \cup {Item(ep)}
    BY <2>1, <2>2
  <2>5. proc = "up" /\ ~swallowed => FeedItems({}) \subseteq feed
    BY DEF FeedShowsPublished
  <2> HIDE DEF FeedItems, Item
  <2> QED
    BY <2>1, <2>3, <2>4, <2>5 DEF FeedShowsPublished
<1>7. CASE MarkFailed
  BY <1>7 DEF MarkFailed, SetStatus
<1>8. ASSUME NEW e \in Episodes, ReconcileVerified(e)
      PROVE  FeedShowsPublished'
  BY <1>8 DEF ReconcileVerified, SetStatus
<1>9. ASSUME NEW e \in Episodes, ReturnToPending(e)
      PROVE  FeedShowsPublished'
  BY <1>9 DEF ReturnToPending, SetStatus
<1>10. CASE FeedIsCurrent
  BY <1>10 DEF FeedIsCurrent, Serve, Verifies
<1>11. CASE RebuildFeed
  BY <1>11 DEF RebuildFeed, Serve
<1>12. CASE RebuildRefused
  BY <1>12 DEF RebuildRefused, Serve
<1>13. CASE RebuildFault
  BY <1>13 DEF RebuildFault, Serve
<1>14. CASE Boot
  BY <1>14 DEF Boot
<1>15. CASE EndOfProcess
  BY <1>15 DEF EndOfProcess
<1>16. CASE LoseFeed
  BY <1>16 DEF LoseFeed
<1> QED
  BY <1>1, <1>2, <1>3, <1>4, <1>5, <1>6, <1>7, <1>8, <1>9, <1>10, <1>11, <1>12,
     <1>13, <1>14, <1>15, <1>16, FeedPromiseWriters

-----------------------------------------------------------------------------
(* The inductive invariant holds *)

(* Nothing is published, and nobody is at work, when the first process boots. *)
LEMMA InitInvariant == Init => IInv
<1> SUFFICES ASSUME Init PROVE IInv
  OBVIOUS
<1> USE PublicationConstantsOK DEF Init
<1>1. TypeOK
  <2>1. NoEpisodeRow \in EpisodeRow
    BY DEF NoEpisodeRow, EpisodeRow, EpisodeStatus
  <2>2. NoPublicationRow \in PublicationRow
    BY DEF NoPublicationRow, PublicationRow, PublicationStatus
  <2>3. 0 \in 0 .. MaxBoots /\ 0 \in 0 .. MaxFaults
    OBVIOUS
  <2>4. /\ episodes \in [Episodes -> EpisodeRow] /\ publications \in [Episodes -> PublicationRow]
        /\ draft \in [Episodes -> Audios \cup {NoAudio}]
    BY <2>1, <2>2
  <2> QED
    BY <2>3, <2>4 DEF TypeOK, Places
<1>2. ActorPlace /\ HeldRow
  BY DEF ActorPlace, HeldRow, RunPlaces, PublishingPlaces
<1>3. EpisodeRows /\ PublicationRows
  BY DEF EpisodeRows, PublicationRows, NoEpisodeRow, NoPublicationRow
<1>4. StatusesAgree /\ Owned
  BY DEF StatusesAgree, Owned, WithStatus, NoEpisodeRow, NoPublicationRow
<1>5. FeedShowsPublished
  BY DEF FeedShowsPublished
<1> QED
  BY <1>1, <1>2, <1>3, <1>4, <1>5 DEF IInv

(* Every step preserves it.                                                   *)
LEMMA NextInvariant == IInv /\ [Next]_vars => IInv'
  BY NextTypeOK, NextActorPlace, NextEpisodeRows, NextPublicationRows, NextHeldRow,
     NextStatusesAgree, NextOwned, NextFeedShowsPublished DEF IInv

(* The invariant the theorems below are read off from.                        *)
THEOREM Invariance == Spec => []IInv
  BY InitInvariant, NextInvariant, PTL DEF Spec

-----------------------------------------------------------------------------
(* What it implies *)

(* Rows, files and the actor always have their types (db/models.py).          *)
THEOREM TypeCorrect == Spec => []TypeOK
<1>1. IInv => TypeOK
  BY DEF IInv
<1> QED
  BY <1>1, Invariance, PTL

(* However often the process dies between two transactions, the episodes and  *)
(* the publications agree on what is being published and what is published,   *)
(* also for a row that was left behind (publishing/service.py).               *)
THEOREM TablesAgree == Spec => []StatusesAgree
<1>1. IInv => StatusesAgree
  BY DEF IInv
<1> QED
  BY <1>1, Invariance, PTL

(* No rebuild of the audio leaves an approval behind that would publish other *)
(* bytes than the ones it was given for (tts/service.py:167).                 *)
THEOREM ApprovalIsForTheDraft == Spec => []ApprovedIsDraft
<1>1. IInv => ApprovedIsDraft
  <2> SUFFICES ASSUME IInv, NEW e \in Episodes,
                      episodes[e].status \in {"approved", "publishing"}
               PROVE  CurrentApproval(e) /\ draft[e] = episodes[e].audio
    BY DEF ApprovedIsDraft
  <2>1. episodes[e].approved = episodes[e].version /\ episodes[e].version # 0
    BY DEF IInv, EpisodeRows
  <2>2. episodes[e].audio # NoAudio /\ draft[e] = episodes[e].audio
    BY <2>1 DEF IInv, EpisodeRows
  <2> QED
    BY <2>1, <2>2 DEF CurrentApproval
<1> QED
  BY <1>1, Invariance, PTL

(* While the service is up, each row that is publishing is the one the worker *)
(* is busy with or one that this process could not verify, which no run takes *)
(* up again: reconcile has left none behind (publishing/service.py:117), and  *)
(* only the exception of publish at service.py:240 skips _mark_publish_failed. *)
THEOREM WorkerOwnsPublishing == Spec => []ServingOwnsPublishing
<1>1. IInv => ServingOwnsPublishing
  <2> SUFFICES ASSUME IInv, proc = "up"  PROVE ServingOwnsPublishing
    BY DEF ServingOwnsPublishing
  <2>1. abandoned \subseteq WithStatus("publishing")
    BY DEF IInv, Owned
  <2>2. ASSUME NEW e \in abandoned, ep = e
        PROVE  pc \in {"create_episode", "generate_audio", "publish"}
    <3>1. e \in Episodes /\ episodes[e].status = "publishing"
      BY <2>1 DEF WithStatus, IInv, StatusesAgree
    <3>2. pc \in Places /\ pc \notin PublishingPlaces
      BY <2>2 DEF IInv, TypeOK, Owned
    <3>3. pc \notin {"merge", "finalize", "create_publication", "begin"}
      BY <2>2, <3>1 DEF IInv, HeldRow
    <3>4. pc \notin {"idle", "reconcile", "check", "rebuild"}
      BY <2>2, <3>1, PublicationConstantsOK DEF IInv, ActorPlace
    <3> QED
      BY <3>2, <3>3, <3>4 DEF Places, PublishingPlaces
  <2>3. \A e \in WithStatus("publishing") \ abandoned :
          ep = e /\ pc \in {"promote", "persist", "write", "mark", "fail"}
    BY DEF IInv, Owned, PublishingPlaces
  <2> QED
    BY <2>1, <2>2, <2>3 DEF ServingOwnsPublishing
<1> QED
  BY <1>1, Invariance, PTL

(* A service that has swallowed no failed rebuild shows all it has published, *)
(* whatever was lost while it was down (publishing/service.py:150).           *)
THEOREM FeedIsComplete == Spec => []FeedShowsPublished
<1>1. IInv => FeedShowsPublished
  BY DEF IInv
<1> QED
  BY <1>1, Invariance, PTL

-----------------------------------------------------------------------------
(* Publication implements PublicFeed *)

(* The public promise is the items of the published rows.                     *)
LEMMA PromisedItems ==
  ASSUME IInv
  PROVE  Feed!Promised = FeedItems({})
  BY DEF IInv, TypeOK, PublicationRows, Feed!Promised, Decided, FeedItems, Item, WithStatus

(* A feed with a candidate is the promise and the item of that candidate.     *)
LEMMA CandidateShown ==
  ASSUME IInv, NEW e \in Episodes
  PROVE  FeedItems({e}) = FeedItems({}) \cup {Item(e)}
  BY DEF FeedItems, Item, WithStatus

(* A row that is publishing and has an asset is a candidate.                  *)
LEMMA CandidateItem ==
  ASSUME IInv, NEW e \in Episodes,
         publications[e].status = "publishing", publications[e].asset # NoAudio
  PROVE  {Item(e)} \in SUBSET Feed!Candidates
  BY DEF IInv, TypeOK, PublicationRow, Feed!Candidates, Decided, Item

(* Marking a verified row as published is the decision of the abstract feed.  *)
LEMMA MarkingSettles ==
  ASSUME IInv, NEW e \in Episodes,
         publications[e].status = "publishing", Verifies(e), proc # "down",
         SetStatus(e, "published", "published"), UNCHANGED <<feed, proc>>
  PROVE  Feed!Settle(e, publications[e].asset) /\ publications[e].asset \in Audios
<1> USE DEF IInv, TypeOK
<1>1. publications[e].asset \in Audios /\ Item(e) \in feed
  BY DEF PublicationRow, Verifies
<1>2. publications' = [publications EXCEPT ![e].status = "published"]
  BY DEF SetStatus
<1>3. Decided[e] = NoAudio
  BY DEF Decided
<1>4. Decided' = [Decided EXCEPT ![e] = publications[e].asset]
  BY <1>2 DEF Decided, PublicationRow
<1> QED
  BY <1>1, <1>3, <1>4 DEF Feed!Settle, Item

(* An edit that neither publishes a row nor touches a published one keeps what *)
(* is decided.                                                                *)
LEMMA KeepsDecided ==
  ASSUME \A e \in Episodes :
           \/ publications'[e] = publications[e]
           \/ publications[e].status # "published" /\ publications'[e].status # "published"
  PROVE  Decided' = Decided
  BY DEF Decided

(* Every step is a step of the abstract feed, or a stutter.                   *)
LEMMA StepRefines ==
  ASSUME IInv, [Next]_vars
  PROVE  [Feed!Next]_<<Decided, feed, (proc = "down")>>
<1> DEFINE Step == [Feed!Next]_<<Decided, feed, (proc = "down")>>
<1> USE DEF At, tables, files, actor, marks, counts, RaiseOSError
<1>0. /\ TypeOK /\ ActorPlace /\ HeldRow /\ Owned /\ StatusesAgree
      /\ pc \in PublishingPlaces \cup {"create_publication", "begin"} => ep \in Episodes
  BY DEF IInv, TypeOK, ActorPlace, PublishingPlaces
<1>1. CASE UNCHANGED <<publications, feed, proc, swallowed>>
  BY <1>1 DEF Decided
<1>2. CASE CreatePublication
  <2>1. ep \in Episodes /\ UNCHANGED <<feed, proc>>
    BY <1>0, <1>2 DEF CreatePublication
  <2>2. \A e \in Episodes :
          \/ publications'[e] = publications[e]
          \/ publications[e].status # "published" /\ publications'[e].status # "published"
    BY <1>0, <1>2, <2>1 DEF CreatePublication, TypeOK, PublicationRow
  <2> QED
    BY <2>1, <2>2, KeepsDecided
<1>3. CASE BeginPublish
  <2>1. ep \in Episodes /\ episodes[ep].status # "published"
    BY <1>0, <1>3 DEF BeginPublish, CurrentApproval
  <2>2. publications[ep].status # "published"
    BY <1>0, <2>1 DEF StatusesAgree
  <2> QED
    BY <1>0, <1>3, <2>1, <2>2, KeepsDecided DEF BeginPublish, SetStatus, TypeOK
<1>4. CASE PersistCandidate
  BY <1>0, <1>4, KeepsDecided DEF PersistCandidate, TypeOK, PublicationRow, HeldRow, PublishingPlaces
<1>5. CASE WriteFeed
  <2>1. ep \in Episodes /\ publications[ep].status = "publishing" /\ publications[ep].asset # NoAudio
    BY <1>0, <1>5 DEF WriteFeed, HeldRow, PublishingPlaces
  <2>2. feed' = Feed!Promised \cup {Item(ep)}
    BY <1>5, <2>1, PromisedItems, CandidateShown DEF WriteFeed
  <2>3. UNCHANGED <<Decided, proc>> /\ proc # "down"
    BY <1>5 DEF WriteFeed, Decided
  <2>4. Feed!Show({Item(ep)})
    BY <2>2, <2>3 DEF Feed!Show
  <2> QED
    BY <2>1, <2>4, CandidateItem DEF Feed!Next
<1>6. CASE MarkPublished
  BY <1>0, <1>6, MarkingSettles DEF MarkPublished, HeldRow, PublishingPlaces, Feed!Next
<1>7. CASE MarkFailed
  <2>1. ep \in Episodes /\ publications[ep].status = "publishing"
    BY <1>0, <1>7 DEF MarkFailed, HeldRow, PublishingPlaces
  <2> QED
    BY <1>0, <1>7, <2>1, KeepsDecided DEF MarkFailed, SetStatus, TypeOK
<1>8. ASSUME NEW e \in Episodes, ReconcileVerified(e)
      PROVE  Step
  BY <1>0, <1>8, MarkingSettles DEF ReconcileVerified, Owned, WithStatus, Feed!Next
<1>9. ASSUME NEW e \in Episodes, ReturnToPending(e)
      PROVE  Step
  <2>1. publications[e].status = "publishing"
    BY <1>0, <1>9 DEF ReturnToPending, Owned, WithStatus
  <2> QED
    BY <1>0, <1>9, <2>1, KeepsDecided DEF ReturnToPending, SetStatus, TypeOK
<1>10. CASE FeedIsCurrent
  BY <1>10 DEF FeedIsCurrent, Serve, Decided
<1>11. CASE RebuildFeed
  <2>1. feed' = Feed!Promised \cup {}
    BY <1>11, PromisedItems DEF RebuildFeed
  <2>2. UNCHANGED Decided /\ proc # "down" /\ proc' = "up"
    BY <1>11 DEF RebuildFeed, Serve, Decided
  <2>3. Feed!Show({})
    BY <2>1, <2>2 DEF Feed!Show
  <2> QED
    BY <2>3 DEF Feed!Next
<1>12. CASE RebuildRefused
  BY <1>12 DEF RebuildRefused, Serve, Decided
<1>13. CASE RebuildFault
  BY <1>13 DEF RebuildFault, Serve, Decided
<1>14. CASE Boot
  BY <1>14 DEF Boot, Decided, Feed!Next, Feed!Turn
<1>15. CASE EndOfProcess
  BY <1>15 DEF EndOfProcess, Decided, Feed!Next, Feed!Turn
<1>16. CASE LoseFeed
  BY <1>16 DEF LoseFeed, Decided, Feed!Next, Feed!Lose
<1> QED
  BY <1>1, <1>2, <1>3, <1>4, <1>5, <1>6, <1>7, <1>8, <1>9, <1>10, <1>11, <1>12,
     <1>13, <1>14, <1>15, <1>16, FeedPromiseWriters

(* The database and the files together keep the promise of a public feed:     *)
(* published once, with the audio the feed shows, and in every feed after     *)
(* that; whatever crashes, fails or gets lost.                                *)
THEOREM PublicationImplementsFeed == Spec => ImplementsFeed
<1>1. Init => Feed!Init
  BY DEF Init, Feed!Init, Decided, NoPublicationRow
<1>2. IInv /\ [Next]_vars => [Feed!Next]_<<Decided, feed, (proc = "down")>>
  BY StepRefines
<1> QED
  BY <1>1, <1>2, Invariance, PTL DEF Spec, ImplementsFeed, Feed!Spec

=============================================================================
