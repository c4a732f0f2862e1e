----------------------------- MODULE Publication -----------------------------
(***************************************************************************)
(* How an Episode of DailyCast reaches the public RSS feed: the last three *)
(* pipeline steps (create_episode, generate_audio, publish), the           *)
(* PublicationService with its RSSPublisher, and their reconciliation at   *)
(* startup.                                                                *)
(*                                                                         *)
(* The state is spread over a database and three kinds of files that no    *)
(* transaction spans.  There is one action per transaction and per file    *)
(* replacement (os.replace is atomic), and the process may die between any *)
(* two.  One worker executes one run at a time and startup reconciles      *)
(* before the worker starts, so there is a single actor at (pc, ep).       *)
(***************************************************************************)
EXTENDS Naturals

CONSTANTS
  Episodes,     \* (date, edition) pairs
  Audios,       \* contents of a merged audio file, told apart by their sha256
  NoAudio,      \* no file, or a NULL column
  NoEpisode,
  Losable,      \* what may get lost while down: a subset of {"feed", "media"}
  MaxVersions,  \* bound: merges of one Episode's audio
  MaxBoots,     \* bound: the last of this many processes never dies
  MaxFaults     \* bound: reads and writes of files that raise OSError

ASSUME PublicationConstantsOK ==
  /\ NoAudio \notin Audios /\ NoEpisode \notin Episodes
  /\ Losable \subseteq {"feed", "media"}
  /\ MaxVersions \in Nat /\ MaxBoots \in Nat \ {0} /\ MaxFaults \in Nat

VARIABLES
  \* Durable.
  episodes,      \* the episodes table
  publications,  \* the publications table, one row per Episode at most
  draft,         \* DATA_DIR: the merged draft of each Episode
  media,         \* PUBLIC_DIR: the promoted assets, <<Episode, content>>
  feed,          \* PUBLIC_DIR/feed.xml: the items, <<Episode, content>>
  \* Volatile.
  proc,          \* "down", "starting" (reconciling) or "up"
  pc,            \* the next transaction or file operation
  ep,            \* the Episode it is about
  todo,          \* publishing rows startup has still to reconcile
  swallowed,     \* the feed could not be rebuilt since the last feed written
  abandoned,     \* rows this process has left publishing, for a failed verification
  \* Bounds.
  boots,
  faults

tables == <<episodes, publications>>
files  == <<draft, media, feed>>
actor  == <<pc, ep, todo>>
counts == <<boots, faults>>
marks  == <<swallowed, abandoned>>
vars   == <<tables, files, proc, actor, marks, counts>>

EpisodeStatus     == {"none", "draft", "review_required", "approved", "publishing", "published"}
PublicationStatus == {"none", "pending", "publishing", "published", "failed"}

\* The transactions and file operations of the pipeline and of startup.
Places == {"idle", "create_episode", "generate_audio", "merge", "finalize", "publish",
           "create_publication", "begin", "promote", "persist", "write", "mark", "fail",
           "reconcile", "check", "rebuild"}

\* draft_audio_sha256 and audio_manifest_hash change together: "audio" is both.
\* "approved" is approved_audio_version, 0 when NULL.
NoEpisodeRow     == [status |-> "none", audio |-> NoAudio, version |-> 0, approved |-> 0]
NoPublicationRow == [status |-> "none", asset |-> NoAudio]

Init ==
  /\ episodes = [e \in Episodes |-> NoEpisodeRow]
  /\ publications = [e \in Episodes |-> NoPublicationRow]
  /\ draft = [e \in Episodes |-> NoAudio]
  /\ media = {} /\ feed = {}
  /\ proc = "down" /\ pc = "idle" /\ ep = NoEpisode /\ todo = {}
  /\ swallowed = FALSE /\ abandoned = {}
  /\ boots = 0 /\ faults = 0

-----------------------------------------------------------------------------
(* Queries *)

WithStatus(s) == {e \in Episodes : publications[e].status = s}

\* One item per Episode: the item of a row.
Item(e) == <<e, publications[e].asset>>

OnlyCandidates(candidates) == {Item(e) : e \in candidates}   \* mutant

\* The feed that shows the published rows and the candidates.
FeedItems(candidates) == {Item(e) : e \in WithStatus("published") \cup candidates}

FeedUnread(e) ==                         \* mutant: the file that exists is enough
  publications[e].asset # NoAudio /\ Item(e) \in media

\* RSSPublisher.reconcile.
Verifies(e) ==
  /\ publications[e].asset # NoAudio
  /\ Item(e) \in media /\ Item(e) \in feed

CurrentApproval(e) ==
  /\ episodes[e].status \in {"approved", "publishing"}
  /\ episodes[e].approved = episodes[e].version
  /\ episodes[e].audio # NoAudio

SetStatus(e, es, ps) ==
  /\ episodes' = [episodes EXCEPT ![e].status = es]
  /\ publications' = [publications EXCEPT ![e].status = ps]

StillPublishing(e) == episodes[e].status  \* mutant

\* The Episode of a row that stops publishing without being published.
Reopened(e) == IF episodes[e].status = "publishing" THEN "approved" ELSE episodes[e].status

At(place) == pc = place /\ proc # "down"

Goto(place) == pc' = place /\ UNCHANGED <<ep, todo>>

\* The run is over, or startup turns to the next row.
Leave ==
  /\ pc' = IF proc = "starting" THEN "reconcile" ELSE "idle"
  /\ ep' = NoEpisode
  /\ todo' = todo \ {ep}

OnlyActor == UNCHANGED <<tables, files, proc, marks, counts>>

-----------------------------------------------------------------------------
(* A run of the pipeline reaches the Episode steps *)

\* A recovery child restores the checkpoints of the steps its parents finished.
StartRun(e) ==
  /\ proc = "up" /\ pc = "idle"
  /\ \/ pc' = "create_episode"
     \/ episodes[e].status # "none" /\ pc' = "generate_audio"
     \/ episodes[e].version > 0 /\ draft[e] # NoAudio /\ pc' = "publish"
  /\ ep' = e
  /\ UNCHANGED todo
  /\ OnlyActor

CreateEpisode ==
  /\ At("create_episode") /\ episodes[ep].status = "none"
  /\ episodes' = [episodes EXCEPT ![ep].status = "review_required"]
  /\ Goto("generate_audio")
  /\ UNCHANGED <<publications, files, proc, marks, counts>>

ReuseEpisode ==
  /\ At("create_episode") /\ episodes[ep].status \notin {"none", "published"}
  /\ Goto("generate_audio")
  /\ OnlyActor

StopPipeline ==
  /\ At("create_episode") /\ episodes[ep].status = "published"
  /\ Leave
  /\ OnlyActor

RefuseAudio ==
  /\ At("generate_audio") /\ episodes[ep].status \in {"publishing", "published"}
  /\ Leave
  /\ OnlyActor

KeepApproval ==                          \* mutant: a rebuild leaves the row alone
  /\ At("generate_audio") /\ episodes[ep].status \notin {"publishing", "published"}
  /\ Goto("merge")
  /\ OnlyActor

InvalidateApproval ==
  /\ At("generate_audio") /\ episodes[ep].status \notin {"publishing", "published"}
  /\ episodes' = [episodes EXCEPT
       ![ep].status = IF @ \in {"approved", "review_required"} THEN "draft" ELSE @,
       ![ep].approved = IF episodes[ep].status = "approved" THEN 0 ELSE @]
  /\ Goto("merge")
  /\ UNCHANGED <<publications, files, proc, marks, counts>>

\* A segment could not be synthesised, or FFmpeg failed.
FailAudio ==
  /\ At("merge")
  /\ Leave
  /\ OnlyActor

\* The segments and the draft are the ones of the current row.
KeepDraft ==
  /\ At("merge") /\ episodes[ep].audio # NoAudio /\ draft[ep] = episodes[ep].audio
  /\ episodes' = [episodes EXCEPT ![ep].status = "review_required"]
  /\ Goto("publish")
  /\ UNCHANGED <<publications, files, proc, marks, counts>>

\* The segments merge to a: other segments than before where the settings of the
\* synthesis have changed, or where a cached file no longer matched its row.
Merge(a) ==
  /\ At("merge") /\ episodes[ep].version < MaxVersions
  /\ ~(episodes[ep].audio = a /\ draft[ep] = a)
  /\ draft' = [draft EXCEPT ![ep] = a]
  /\ Goto("finalize")
  /\ UNCHANGED <<tables, media, feed, proc, marks, counts>>

Finalize ==
  /\ At("finalize")
  /\ episodes' = [episodes EXCEPT ![ep].status = "review_required",
                                  ![ep].audio = draft[ep],
                                  ![ep].version = @ + 1]
  /\ Goto("publish")
  /\ UNCHANGED <<publications, files, proc, marks, counts>>

-----------------------------------------------------------------------------
(* The publish step, with auto_publish *)

ApproveNextVersion ==                    \* mutant: approved ahead of the merge
  /\ At("publish") /\ episodes[ep].status = "review_required"
  /\ episodes' = [episodes EXCEPT ![ep].status = "approved",
                                  ![ep].approved = episodes[ep].version + 1]
  /\ Goto("create_publication")
  /\ UNCHANGED <<publications, files, proc, marks, counts>>

Approve ==
  /\ At("publish") /\ episodes[ep].status = "review_required"
  /\ episodes' = [episodes EXCEPT ![ep].status = "approved",
                                  ![ep].approved = episodes[ep].version]
  /\ Goto("create_publication")
  /\ UNCHANGED <<publications, files, proc, marks, counts>>

AlreadyApproved ==
  /\ At("publish") /\ episodes[ep].status = "approved"
  /\ Goto("create_publication")
  /\ OnlyActor

SkipPublish ==
  /\ At("publish") /\ episodes[ep].status \notin {"review_required", "approved"}
  /\ Leave
  /\ OnlyActor

CreatePublication ==
  /\ At("create_publication") /\ (publications[ep].status = "none" => CurrentApproval(ep))
  /\ publications' = [publications EXCEPT ![ep].status = IF @ = "none" THEN "pending" ELSE @]
  /\ Goto("begin")
  /\ UNCHANGED <<episodes, files, proc, marks, counts>>

BeginPublish ==
  /\ At("begin") /\ CurrentApproval(ep)
  /\ SetStatus(ep, "publishing", "publishing")
  /\ Goto("promote")
  /\ UNCHANGED <<files, proc, marks, counts>>

PromoteAsset ==
  /\ At("promote") /\ draft[ep] = episodes[ep].audio
  /\ media' = media \cup {<<ep, draft[ep]>>}
  /\ Goto("persist")
  /\ UNCHANGED <<tables, draft, feed, proc, marks, counts>>

PersistCandidate ==
  /\ At("persist")
  /\ publications' = [publications EXCEPT ![ep].asset = draft[ep]]
  /\ Goto("write")
  /\ UNCHANGED <<episodes, files, proc, marks, counts>>

-----------------------------------------------------------------------------
(* Shared by publish and by reconcile *)

WriteFeed ==
  /\ At("write") /\ FeedItems({ep}) \subseteq media
  /\ feed' = FeedItems({ep})
  /\ swallowed' = FALSE
  /\ Goto("mark")
  /\ UNCHANGED <<tables, draft, media, proc, abandoned, counts>>

\* RSSPublicationError: the asset of some item is not there.
RefuseFeed ==
  /\ At("write") /\ ~(FeedItems({ep}) \subseteq media)
  /\ Goto("fail")
  /\ OnlyActor

RaiseOSError == faults < MaxFaults /\ faults' = faults + 1

\* While an asset is promoted or validated or a feed is written, or, in publish alone,
\* at the look whether there is a feed to verify.
FileFault ==
  /\ At("promote") \/ At("persist") \/ At("write") \/ (At("mark") /\ proc = "up")
  /\ RaiseOSError
  /\ Goto("fail")
  /\ UNCHANGED <<tables, files, proc, marks, boots>>

MarkPublished ==
  /\ At("mark") /\ Verifies(ep)
  /\ SetStatus(ep, "published", "published")
  /\ Leave
  /\ UNCHANGED <<files, proc, marks, counts>>

\* The feed or the asset cannot be read: RSSPublisher.reconcile answers False, and no
\* except of publish catches what _mark_published raises then.  MarkFailed is skipped.
AbandonRow ==
  /\ At("mark") /\ proc = "up"
  /\ RaiseOSError
  /\ abandoned' = abandoned \cup {ep}
  /\ Leave
  /\ UNCHANGED <<tables, files, proc, swallowed, boots>>

ReopenEpisodeOnly ==                     \* mutant: the publication is forgotten
  /\ At("fail")
  /\ SetStatus(ep, Reopened(ep), "publishing")
  /\ Leave
  /\ UNCHANGED <<files, proc, marks, counts>>

MarkFailed ==
  /\ At("fail")
  /\ SetStatus(ep, Reopened(ep), "failed")
  /\ Leave
  /\ UNCHANGED <<files, proc, marks, counts>>

-----------------------------------------------------------------------------
(* Startup: PublicationService.reconcile *)

BootWithoutRows ==                       \* mutant: rows are not looked up
  /\ proc = "down" /\ boots < MaxBoots
  /\ proc' = "starting" /\ boots' = boots + 1
  /\ pc' = "reconcile" /\ todo' = {}
  /\ UNCHANGED <<tables, files, ep, marks, faults>>

Boot ==
  /\ proc = "down" /\ boots < MaxBoots
  /\ proc' = "starting" /\ boots' = boots + 1
  /\ pc' = "reconcile" /\ todo' = WithStatus("publishing")
  /\ UNCHANGED <<tables, files, ep, marks, faults>>

\* The feed was replaced before the crash: only the rows are missing.
ReconcileVerified(e) ==
  /\ At("reconcile") /\ e \in todo /\ Verifies(e)
  /\ SetStatus(e, "published", "published")
  /\ todo' = todo \ {e}
  /\ UNCHANGED <<files, proc, pc, ep, marks, counts>>

ReturnToPending(e) ==
  /\ At("reconcile") /\ e \in todo /\ publications[e].asset = NoAudio
  /\ SetStatus(e, Reopened(e), "pending")
  /\ todo' = todo \ {e}
  /\ UNCHANGED <<files, proc, pc, ep, marks, counts>>

\* The row names an asset that the feed does not show.
Readmit(e) ==
  /\ At("reconcile") /\ e \in todo /\ publications[e].asset # NoAudio /\ ~Verifies(e)
  /\ pc' = "write" /\ ep' = e
  /\ UNCHANGED todo
  /\ OnlyActor

\* The feed shows it but cannot be read: it is written once more.
MisreadRow(e) ==
  /\ At("reconcile") /\ e \in todo /\ Verifies(e)
  /\ RaiseOSError
  /\ pc' = "write" /\ ep' = e
  /\ UNCHANGED <<tables, files, proc, todo, marks, boots>>

EndReconcile ==
  /\ At("reconcile") /\ todo = {}
  /\ Goto("check")
  /\ OnlyActor

Serve == proc' = "up" /\ Goto("idle")

FeedIsCurrent ==
  /\ At("check") /\ \A e \in WithStatus("published") : Verifies(e)
  /\ Serve
  /\ UNCHANGED <<tables, files, marks, counts>>

FeedIsStale ==
  /\ At("check") /\ \E e \in WithStatus("published") : ~Verifies(e)
  /\ Goto("rebuild")
  /\ OnlyActor

MisreadFeed ==
  /\ At("check") /\ WithStatus("published") # {}
  /\ RaiseOSError
  /\ Goto("rebuild")
  /\ UNCHANGED <<tables, files, proc, marks, boots>>

RebuildFeed ==
  /\ At("rebuild") /\ FeedItems({}) \subseteq media
  /\ feed' = FeedItems({})
  /\ swallowed' = FALSE
  /\ Serve
  /\ UNCHANGED <<tables, draft, media, abandoned, counts>>

\* The exception of a rebuild is swallowed.
RebuildRefused ==
  /\ At("rebuild") /\ ~(FeedItems({}) \subseteq media)
  /\ swallowed' = TRUE
  /\ Serve
  /\ UNCHANGED <<tables, files, abandoned, counts>>

RebuildFault ==
  /\ At("rebuild")
  /\ RaiseOSError
  /\ swallowed' = TRUE
  /\ Serve
  /\ UNCHANGED <<tables, files, abandoned, boots>>

-----------------------------------------------------------------------------
(* The environment *)

EndOfProcess ==
  /\ proc # "down" /\ boots < MaxBoots
  /\ proc' = "down" /\ pc' = "idle" /\ ep' = NoEpisode /\ todo' = {}
  /\ abandoned' = {}
  /\ UNCHANGED <<tables, files, swallowed, boots>>

Crash == EndOfProcess /\ UNCHANGED faults

\* What PublicationService.reconcile lets escape ends the startup: the verification of a
\* row that is to be marked, or the look whether there is a feed to verify.
AbortStartup ==
  /\ \/ At("reconcile") /\ todo # {}
     \/ At("mark") /\ proc = "starting"
     \/ At("check") /\ WithStatus("published") # {}
  /\ RaiseOSError
  /\ EndOfProcess

LoseFeed ==
  /\ proc = "down" /\ "feed" \in Losable /\ feed # {}
  /\ feed' = {}
  /\ UNCHANGED <<tables, draft, media, proc, actor, marks, counts>>

LoseMedia(e) ==
  /\ proc = "down" /\ "media" \in Losable
  /\ \E m \in media : m[1] = e
  /\ media' = {m \in media : m[1] # e}
  /\ UNCHANGED <<tables, draft, feed, proc, actor, marks, counts>>

-----------------------------------------------------------------------------
EpisodeSteps ==
  \/ CreateEpisode \/ ReuseEpisode \/ StopPipeline
  \/ RefuseAudio \/ InvalidateApproval \/ FailAudio \/ KeepDraft
  \/ \E a \in Audios : Merge(a)
  \/ Finalize

PublishSteps ==
  \/ Approve \/ AlreadyApproved \/ SkipPublish
  \/ CreatePublication \/ BeginPublish \/ PromoteAsset \/ PersistCandidate
  \/ WriteFeed \/ RefuseFeed \/ FileFault
  \/ MarkPublished \/ AbandonRow \/ MarkFailed

StartupSteps ==
  \/ Boot \/ EndReconcile
  \/ \E e \in Episodes :
       ReconcileVerified(e) \/ ReturnToPending(e) \/ Readmit(e) \/ MisreadRow(e)
  \/ FeedIsCurrent \/ FeedIsStale \/ MisreadFeed
  \/ RebuildFeed \/ RebuildRefused \/ RebuildFault

Environment ==
  \/ Crash \/ AbortStartup \/ LoseFeed
  \/ \E e \in Episodes : StartRun(e) \/ LoseMedia(e)

Next == EpisodeSteps \/ PublishSteps \/ StartupSteps \/ Environment

Spec == Init /\ [][Next]_vars

\* A run that has begun and a startup go on; a supervisor restarts the process.
FairSpec == Spec /\ WF_vars(EpisodeSteps) /\ WF_vars(PublishSteps) /\ WF_vars(StartupSteps)

-----------------------------------------------------------------------------
(* Properties *)

EpisodeRow == [status : EpisodeStatus, audio : Audios \cup {NoAudio},
               version : 0 .. MaxVersions, approved : 0 .. MaxVersions]

PublicationRow == [status : PublicationStatus, asset : Audios \cup {NoAudio}]

\* Every variable has its type.
TypeOK ==
  /\ episodes \in [Episodes -> EpisodeRow] /\ publications \in [Episodes -> PublicationRow]
  /\ draft \in [Episodes -> Audios \cup {NoAudio}]
  /\ media \subseteq Episodes \X Audios /\ feed \subseteq Episodes \X Audios
  /\ proc \in {"down", "starting", "up"} /\ pc \in Places
  /\ ep \in Episodes \cup {NoEpisode} /\ todo \subseteq Episodes
  /\ swallowed \in BOOLEAN /\ abandoned \subseteq Episodes
  /\ boots \in 0 .. MaxBoots /\ faults \in 0 .. MaxFaults

\* The two tables never disagree about what is being published or is published, through
\* crashes, failed attempts and rows left behind.
StatusesAgree ==
  \A e \in Episodes, s \in {"publishing", "published"} :
    episodes[e].status = s <=> publications[e].status = s

\* An approval in force is for the draft that lies in DATA_DIR: no rebuild of the
\* audio, finished or broken off, leaves an approval that promote_asset would
\* apply to other bytes (tts/service.py:167, rss.py:70).
ApprovedIsDraft ==
  \A e \in Episodes :
    episodes[e].status \in {"approved", "publishing"} =>
      CurrentApproval(e) /\ draft[e] = episodes[e].audio

\* Once startup is over, a publishing row is the one the worker is busy with, or one this
\* process has left behind because it could not verify it; no other failure and no crash
\* leaves a row that nobody will finish.  A run only passes by a row left behind: neither
\* its audio nor its publication is begun again (service.py:108, :113, :240).
ServingOwnsPublishing ==
  proc = "up" =>
    /\ abandoned \subseteq WithStatus("publishing")
    /\ \A e \in abandoned : ep = e => pc \in {"create_episode", "generate_audio", "publish"}
    /\ \A e \in WithStatus("publishing") \ abandoned :
         ep = e /\ pc \in {"promote", "persist", "write", "mark", "fail"}

\* A service that has not swallowed a failed rebuild shows every published
\* Episode with the asset of its row, whatever was lost while it was down.
FeedShowsPublished ==
  proc = "up" /\ ~swallowed => FeedItems({}) \subseteq feed

\* Every attempt comes to an end, whatever crashes or fails meanwhile: a row does not
\* stay publishing unless this process has left it behind.  The next process has left
\* nothing behind and owes that row its end.
PublishingSettles ==
  \A e \in Episodes :
    publications[e].status = "publishing" /\ e \notin abandoned
      ~> publications[e].status # "publishing" \/ e \in abandoned

\* The rows and the feed file together keep the promise of a public feed: the
\* decision comes after the file, is taken once, and no written feed drops or
\* changes a published Episode.
Decided == [e \in Episodes |-> IF publications[e].status = "published"
                              THEN publications[e].asset ELSE NoAudio]

Feed == INSTANCE PublicFeed WITH
  published <- Decided,
  shown <- feed,
  down <- (proc = "down")

ImplementsFeed == Feed!Spec

\* What publishing/service.py:396 says of the fingerprint of a publication: a retry
\* cannot silently publish a changed Episode.  So the asset of a published row is the
\* audio of the Episode, the one that was approved.
PublishedIsApproved ==
  \A e \in Episodes :
    episodes[e].status = "published" => publications[e].asset = episodes[e].audio

\* What core/lifespan.py:332 says of the check at startup: it heals a lost or recreated
\* public volume, so a service that is up shows every published Episode.
StartupHealsFeed ==
  proc = "up" => FeedItems({}) \subseteq feed

=============================================================================
