---------------------------- MODULE SpeechSynthesis ----------------------------
(***************************************************************************)
(* AudioGenerationService: one audio_segments row per section of a script  *)
(* revision, one cache file per distinct speech, and the merged draft of   *)
(* the episode.                                                            *)
(*                                                                         *)
(* Rows and files are written apart, and equal speeches share one file:    *)
(* whoever synthesizes it again changes it under every row that names it.  *)
(* The content of a file is <<what it speaks, which take>>, told from any  *)
(* other by its sha256.                                                    *)
(***************************************************************************)
EXTENDS EpisodeDrafts, SequencesExt, FiniteSets

CONSTANTS
  Sections,     \* [takes of a script -> the texts of its sections]
  Takes,        \* what the provider may return for one speech
  NoAudio,
  MaxSegments,  \* bound: the longest script
  MaxEdition    \* bound: script_revision of the episode

ASSUME SpeechConstantsOK ==
  /\ \A t \in DOMAIN Sections : /\ Sections[t] \in Seq(ToSet(Sections[t]))
                                /\ Len(Sections[t]) \in 1..MaxSegments
  /\ MaxSegments \in Nat /\ MaxEdition \in Nat \ {0}

VARIABLES
  segments,  \* [<<revision, index>> -> the audio_segments row]
  cache,     \* [cache keys -> the content of the cache file]
  draft,     \* [revisions -> the contents joined in the draft file]
  speech     \* where generate_episode_draft is, and what the provider returned

speechVars == <<segments, cache, draft, speech>>

Revisions == 1..MaxEdition
Places    == Revisions \X (1..MaxSegments)

-----------------------------------------------------------------------------
\* What is spoken: a text at the pace of its role, the first and the last section gently.

Pace(texts, i) == IF i \in {1, Len(texts)} THEN "gentle" ELSE "normal"

Speech(texts, i) == <<Pace(texts, i), texts[i]>>

\* The key stands for the prepared text, the speed and the settings, constant here.
CacheKey(texts, i) == Speech(texts, i)

Speeches == {"gentle", "normal"} \X UNION {ToSet(Sections[t]) : t \in DOMAIN Sections}
Contents == Speeches \X Takes

ASSUME NoAudioIsNoContent == NoAudio \notin Contents

NoRow == [status |-> "none", key |-> <<>>, audio |-> NoAudio]
Row(status, key, audio) == [status |-> status, key |-> key, audio |-> audio]

Quiet == [at |-> "idle", index |-> 0, audio |-> NoAudio]

InitSpeech ==
  /\ segments = [p \in Places |-> NoRow]
  /\ cache = [k \in Speeches |-> NoAudio]
  /\ draft = [r \in Revisions |-> <<>>]
  /\ speech = Quiet

Texts    == Sections[episode.text.script.take]
Place    == <<episode.revision, speech.index>>
Key      == CacheKey(Texts, speech.index)
Manifest == [i \in DOMAIN Texts |-> <<segments[<<episode.revision, i>>].key,
                                      segments[<<episode.revision, i>>].audio>>]

\* A row is trusted as long as its file still has the checksum of the row.
Valid(row) == row.status = "succeeded" /\ cache[row.key] = row.audio

-----------------------------------------------------------------------------
\* generate_episode_draft.

\* The approval of the old audio goes first.
BeginAudio ==
  /\ speech.at = "idle"
  /\ SetStatus(IF episode.status \in {"approved", "review_required"} THEN "draft" ELSE episode.status)
  /\ speech' = [Quiet EXCEPT !.at = "prepare", !.index = 1]
  /\ UNCHANGED <<segments, cache, draft>>

NextSegment ==
  speech' = IF speech.index = Len(Texts) THEN [Quiet EXCEPT !.at = "merge"]
            ELSE [Quiet EXCEPT !.at = "prepare", !.index = speech.index + 1]

SetRow(row) == segments' = [segments EXCEPT ![Place] = row]

TrustUnfinished ==                        \* mutant: a row under way is left to whoever began it
  segments[Place].key = Key /\ (Valid(segments[Place]) \/ segments[Place].status = "synthesizing")

\* The row of an earlier attempt stays if it speaks the same and its file is there.
Kept == segments[Place].key = Key /\ Valid(segments[Place])

KeepSegment ==
  /\ speech.at = "prepare" /\ Kept
  /\ NextSegment /\ UNCHANGED <<segments, cache, draft, episode>>

ResetSegment ==
  /\ speech.at = "prepare" /\ ~ Kept
  /\ SetRow(Row("pending", Key, NoAudio))
  /\ speech' = [speech EXCEPT !.at = "lookup"]
  /\ UNCHANGED <<cache, draft, episode>>

RowsOfAnySpeech ==                        \* mutant: the condition on the key is lost
  {row \in {segments[p] : p \in Places} : row.status = "succeeded"}

\* get_by_cache_key returns one succeeded row of the key, in no order.
SucceededRows == {row \in {segments[p] : p \in Places} : row.status = "succeeded" /\ row.key = Key}

CacheHit ==
  /\ speech.at = "lookup"
  /\ \E row \in SucceededRows : Valid(row) /\ SetRow(row)
  /\ NextSegment /\ UNCHANGED <<cache, draft, episode>>

MarkSynthesizing ==
  /\ speech.at = "lookup"
  /\ SucceededRows = {} \/ \E row \in SucceededRows : ~ Valid(row)
  /\ SetRow(Row("synthesizing", Key, NoAudio))
  /\ speech' = [speech EXCEPT !.at = "synthesize"]
  /\ UNCHANGED <<cache, draft, episode>>

\* The provider fails after its retries, or returns no bytes.
MarkFailed ==
  /\ speech.at = "synthesize" /\ SetRow(Row("failed", Key, NoAudio))
  /\ speech' = Quiet /\ UNCHANGED <<cache, draft, episode>>

\* The file takes the place of the old one before the row is committed.
WriteCacheFile ==
  /\ speech.at = "synthesize"
  /\ \E t \in Takes :
       /\ cache' = [cache EXCEPT ![Key] = <<Speech(Texts, speech.index), t>>]
       /\ speech' = [speech EXCEPT !.at = "record", !.audio = cache'[Key]]
  /\ UNCHANGED <<segments, draft, episode>>

RecordSegment ==
  /\ speech.at = "record" /\ SetRow(Row("succeeded", Key, speech.audio))
  /\ NextSegment /\ UNCHANGED <<cache, draft, episode>>

-----------------------------------------------------------------------------
\* _merge_and_finalize: the files are joined without another look at their checksums.

Unchanged ==
  /\ episode.audio # <<>> /\ episode.audio.manifest = Manifest
  /\ draft[episode.revision] = episode.audio.contents

ReuseDraft ==
  /\ speech.at = "merge" /\ Unchanged
  /\ SetStatus("review_required") /\ speech' = Quiet
  /\ UNCHANGED <<segments, cache, draft>>

MergeFails ==
  /\ speech.at = "merge" /\ ~ Unchanged
  /\ speech' = Quiet /\ UNCHANGED <<segments, cache, draft, episode>>

Merge ==
  /\ speech.at = "merge" /\ ~ Unchanged
  /\ \A i \in DOMAIN Texts : cache[Manifest[i][1]] # NoAudio
  /\ draft' = [draft EXCEPT ![episode.revision] = [i \in DOMAIN Texts |-> cache[Manifest[i][1]]]]
  /\ speech' = [speech EXCEPT !.at = "finalize"]
  /\ UNCHANGED <<segments, cache, episode>>

Finalize ==
  /\ speech.at = "finalize"
  /\ SetAudio([manifest |-> Manifest, contents |-> draft[episode.revision]])
  /\ speech' = Quiet /\ UNCHANGED <<segments, cache, draft>>

-----------------------------------------------------------------------------
\* A cache file may disappear from the volume.
LoseFile ==
  /\ \E k \in Speeches : cache[k] # NoAudio /\ cache' = [cache EXCEPT ![k] = NoAudio]
  /\ UNCHANGED <<segments, draft, speech, episode>>

=============================================================================
