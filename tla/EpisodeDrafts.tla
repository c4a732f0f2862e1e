----------------------------- MODULE EpisodeDrafts -----------------------------
(***************************************************************************)
(* The row of the episode of one (date, edition), as the editorial steps   *)
(* and the speech synthesis share it.                                      *)
(***************************************************************************)
EXTENDS Naturals, Sequences

VARIABLE episode

NoEpisode == [status |-> "none"]

InitEpisode == episode = NoEpisode

\* audio: the recorded draft, [manifest, content], or <<>> when there is none.
NewEpisode(status, revision, version, text) ==
  [status |-> status, revision |-> revision, version |-> version, text |-> text, audio |-> <<>>]

Mutable == episode # NoEpisode /\ episode.status # "published"

CreateEpisode(text) ==
  episode = NoEpisode /\ episode' = NewEpisode("review_required", 1, 0, text)

\* The next revision has no audio and no approval.
RegenerateEpisode(text) ==
  Mutable /\ episode' = NewEpisode("draft", episode.revision + 1, 0, text)

SetAudio(audio) ==
  episode' = [episode EXCEPT !.status = "review_required", !.version = @ + 1, !.audio = audio]

SetStatus(status) == episode' = [episode EXCEPT !.status = status]

=============================================================================
