------------------------------ MODULE Production ------------------------------
(***************************************************************************)
(* The making of one day's episode, from the scored events to the draft    *)
(* audio: the editorial steps and generate_audio of the attempts that run  *)
(* one after the other on the single worker, each of which a crash may cut *)
(* short.  A retry, a recovery and a regeneration find the answers, the    *)
(* segments and the episode that earlier attempts left.                    *)
(***************************************************************************)
EXTENDS Editorial, SpeechSynthesis

CONSTANTS
  FoundSets,   \* what clustering may find, sets of events
  MaxAttempts  \* bound: attempts of the day

ASSUME ProductionConstantsOK ==
  /\ FoundSets \subseteq SUBSET Events /\ MaxAttempts \in Nat
  /\ DOMAIN Sections = ScriptTakes

VARIABLE attempts

vars == <<modelVars, editorialVars, speechVars, attempts>>

Init == InitEditorial /\ InitSpeech /\ attempts = 0

Start ==
  /\ attempts < MaxAttempts /\ attempts' = attempts + 1
  /\ \E kind \in Kinds, gate \in Gates, found \in FoundSets :
       /\ kind = "regenerate" => episode # NoEpisode /\ episode.revision < MaxEdition
       /\ StartAttempt(kind, gate, found)
  /\ UNCHANGED speechVars

EditorialStep == EditorialSteps /\ UNCHANGED <<speechVars, attempts>>

AudioStep ==
  /\ run.at = "generate_audio" /\ UNCHANGED <<modelVars, usage, events, attempts>>
  /\ \/ /\ BeginAudio \/ KeepSegment \/ ResetSegment \/ CacheHit \/ MarkSynthesizing
           \/ WriteCacheFile \/ RecordSegment \/ Merge
        /\ UNCHANGED run
     \/ (ReuseDraft \/ Finalize) /\ run' = [run EXCEPT !.at = "publish"]
     \/ (MarkFailed \/ MergeFails) /\ run' = Idle

\* The publish step as this part of the system sees it (Publication has the whole of it):
\* published, or approved with a publication that failed or waits, or left for review.
Publish ==
  /\ run.at = "publish"
  /\ \E status \in {"published", "approved", "review_required"} : SetStatus(status)
  /\ EndAttempt /\ UNCHANGED <<events, speechVars, attempts>>

\* A crash that no attempt follows leaves nothing to see.
Crash ==
  /\ run.at # "idle" /\ attempts < MaxAttempts /\ EndAttempt /\ speech' = Quiet
  /\ UNCHANGED <<events, episode, segments, cache, draft, attempts>>

FileLost == run.at = "idle" /\ attempts < MaxAttempts /\ LoseFile
            /\ UNCHANGED <<modelVars, events, run, usage, attempts>>

Next == Start \/ EditorialStep \/ AudioStep \/ Publish \/ Crash \/ FileLost

Spec == Init /\ [][Next]_vars

-----------------------------------------------------------------------------
\* The state space of production: rows, files, answers and the attempt have their shapes.
Statuses == {"none", "candidate", "selected", "rejected"}

TypeOK ==
  /\ \A row \in artifacts : DOMAIN row = {"question", "provider", "value"} /\ row.provider \in ToSet(Providers)
  /\ call = NoCall \/ call.made \in 1..MaxCalls
  /\ answer = NoAnswer \/ answer.calls \in 0..MaxCalls
  /\ reserved \in 0..MaxCalls /\ attempts \in 0..MaxAttempts
  /\ events \in [Events -> Statuses]
  /\ episode # NoEpisode =>
       /\ episode.status \in {"draft", "review_required", "approved", "published"}
       /\ episode.revision \in Revisions /\ episode.text.script.take \in ScriptTakes
  /\ \A p \in Places : /\ segments[p].status \in {"none", "pending", "synthesizing", "failed", "succeeded"}
                       /\ segments[p].audio \in Contents \cup {NoAudio}
  /\ cache \in [Speeches -> Contents \cup {NoAudio}]
  /\ \A r \in Revisions : ToSet(draft[r]) \subseteq Contents
  /\ speech.at # "idle" => run.at = "generate_audio" /\ episode # NoEpisode

\* The text of the episode passed the gate its attempt worked under, on the verdict a model
\* gave on this very script, and its title and description were written for it.  A revision
\* changes the script after a first review, and the files of the attempt are read back.
EpisodeIsReviewed ==
  episode # NoEpisode =>
    LET text == episode.text IN
    /\ ~ Blocking(text.script) /\ (text.gate => text.verdict = "pass")
    /\ \E row \in artifacts : row.question = <<"review_script", text.script>> /\ row.value = text.verdict
    /\ \E row \in artifacts : row.question = <<"generate_metadata", text.metadata>>
    /\ text.metadata = text.script

\* A question that was answered once, by any provider and in any attempt, is not paid for
\* again: no request for it is under way, and it has one row.
NeverAskedTwice ==
  /\ call # NoCall => RowsOf(call.question) = {}
  /\ \A row, other \in artifacts : row.question = other.question => row = other

\* The call count of a run is what its finished steps took from the budget, to the call,
\* through failovers, JSON-object fallbacks, repairs and hits in the cache; when the text is
\* done that is every call.  What falls short is what the step under way took, or the step
\* in which the attempt failed, stopped or crashed: that step reports none of its calls.
CallsAreAccounted ==
  /\ usage.run = usage.before /\ usage.run <= reserved
  /\ run.at # "idle" => reserved = usage.before + usage.step + call.made + answer.calls
  /\ run.at = "create_episode" => usage.run = reserved

\* For every set of candidates, every ranking, every spread of sources and every small
\* pile of evidence the selection keeps its quotas and the budget.
SelectionIsBalanced == run.at = "ranking" /\ attempts = 1 => SelectionKeepsItsBounds

\* The recorded draft speaks the sections of the current script in order and at their
\* pace, whatever was reused from the cache; what goes to publication is that very file.
DraftSpeaksItsScript ==
  episode # NoEpisode =>
    /\ episode.audio # <<>> =>
         /\ Len(episode.audio.contents) = Len(Texts)
         /\ \A i \in DOMAIN Texts : episode.audio.contents[i][1] = Speech(Texts, i)
    /\ run.at = "publish" =>
         episode.audio # <<>> /\ draft[episode.revision] = episode.audio.contents

\* When the draft is merged every section has its finished row and its file, although an
\* earlier attempt may have died with a row pending, synthesizing or failed.
ReadyToMerge ==
  speech.at = "merge" =>
    \A i \in DOMAIN Texts :
      LET row == segments[<<episode.revision, i>>] IN
      row.status = "succeeded" /\ row.key = CacheKey(Texts, i) /\ cache[row.key] # NoAudio

=============================================================================
