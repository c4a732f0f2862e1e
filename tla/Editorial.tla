------------------------------ MODULE Editorial ------------------------------
(***************************************************************************)
(* The editorial steps of one pipeline attempt: ranking, outlining,        *)
(* scripting, checking and create_episode.  Each asks a model, validates   *)
(* what it gets, and hands the result to the next step in memory and in    *)
(* the files of the attempt.                                               *)
(*                                                                         *)
(* The files lie in a directory of the attempt's own (artifact_run_id is   *)
(* its task_run_id), so they die with it: what survives a crash is the     *)
(* answers in llm_artifacts, the status of the events and the episode.     *)
(***************************************************************************)
EXTENDS ModelCalls, EventSelection, EpisodeDrafts

CONSTANTS
  Orders,        \* rankings the model may give
  Gates,         \* values of editorial.enforce_quality_gate
  MaxRevisions   \* editorial.max_automatic_script_revisions

ASSUME EditorialConstantsOK ==
  /\ \A order \in Orders : order \in Seq(Events) /\ ToSet(order) = Events /\ IsInjective(order)
  /\ Gates \subseteq BOOLEAN /\ Gates # {}
  /\ MaxRevisions \in {0, 1}

VARIABLES
  events,  \* [Events -> the status of the row]
  run,     \* the attempt under way
  usage    \* the calls its steps report

editorialVars == <<events, run, usage, episode>>

Kinds    == {"generate", "regenerate"}
Verdicts == {"pass", "revise", "human_review"}
Lengths  == {"fits", "short", "long"}
ScriptTakes == {"first", "revised"}

NoScript == [outline |-> <<>>, take |-> "none", length |-> "none"]
ScriptOf(outline, take, length) == [outline |-> outline, take |-> take, length |-> length]

NoText == [script |-> NoScript, verdict |-> "none", metadata |-> NoScript, gate |-> FALSE]

\* outlined: the events whose evidence the outline was made from.
Idle ==
  [at |-> "idle", kind |-> "generate", gate |-> FALSE, candidates |-> {}, selected |-> <<>>,
   outlined |-> <<>>, script |-> NoScript, verdict |-> "none", revised |-> FALSE,
   file |-> NoText]

\* run: llm_call_count of the task_runs row, to which a step that finishes adds its calls.
\* step: the calls of the step under way whose answers it has, in memory.  before: what
\* was reserved when that step began (history).
NoUsage == [run |-> 0, step |-> 0, before |-> 0]

InitEditorial ==
  /\ InitModelCalls /\ InitEpisode
  /\ events = [e \in Events |-> "none"] /\ run = Idle /\ usage = NoUsage

-----------------------------------------------------------------------------
\* The steps before ranking: clustering gives the events of the day, all candidates again.
StartAttempt(kind, gate, found) ==
  /\ run.at = "idle"
  /\ run' = [Idle EXCEPT !.at = "ranking", !.kind = kind, !.gate = gate,
                         !.candidates = BoundedCandidates(found)]
  /\ events' = [e \in Events |-> IF e \in found THEN "candidate" ELSE events[e]]
  /\ reserved' = 0 /\ usage' = NoUsage
  /\ UNCHANGED <<artifacts, call, answer, episode>>

\* A step fails, stops the pipeline or asks for a human: the attempt is over.  A step that
\* fails adds nothing to the run, whatever it had reserved.
EndAttempt ==
  /\ run' = Idle /\ Discard /\ usage' = [usage EXCEPT !.step = 0]
  /\ UNCHANGED <<artifacts, reserved>>

NoPublishableEvents ==
  /\ run.at = "ranking" /\ run.candidates = {}
  /\ EndAttempt /\ UNCHANGED <<events, episode>>

\* Outlining loads the evidence of the selected events before it asks.
LoadEvidence ==
  LET dossiers == BuildDossiers(run.selected) IN
  /\ run.at = "loading" /\ dossiers # <<>>
  /\ run' = [run EXCEPT !.at = "outlining", !.outlined = dossiers]
  /\ UNCHANGED <<modelVars, usage, events, episode>>

InsufficientEvidenceError ==
  /\ run.at = "loading" /\ BuildDossiers(run.selected) = <<>>
  /\ EndAttempt /\ UNCHANGED <<events, episode>>

-----------------------------------------------------------------------------
\* What each step asks.

ScoreQuestion    == <<"score_events", run.candidates>>
OutlineQuestion  == <<"generate_outline", run.outlined>>
ScriptQuestion   == <<"generate_script", run.outlined>>
ReviewQuestion   == <<"review_script", run.script>>
RevisionQuestion == <<"revise_script", <<run.script, run.verdict>>>>
MetadataQuestion == <<"generate_metadata", run.script>>

Question ==
  CASE run.at = "ranking"   -> ScoreQuestion
    [] run.at = "outlining" -> OutlineQuestion
    [] run.at = "scripting" -> ScriptQuestion
    [] run.at = "review"    -> ReviewQuestion
    [] run.at = "revise"    -> RevisionQuestion
    [] run.at = "metadata"  -> MetadataQuestion

Asking ==
  /\ run.at \in {"ranking", "outlining", "scripting", "review", "revise", "metadata"}
  /\ run.at = "ranking" => run.candidates # {}

\* The answers the schemas and their validation contexts admit: a score for every event
\* asked about, an outline of the events shown, a script that follows its outline.
ScoresOf(candidates) == {Those(order, candidates) : order \in Orders}
Scripts(outline, take) == {ScriptOf(outline, take, length) : length \in Lengths}

Answers(question) ==
  CASE question[1] = "score_events"      -> ScoresOf(question[2])
    [] question[1] = "generate_outline"  -> {question[2]}
    [] question[1] = "generate_script"   -> Scripts(question[2], "first")
    [] question[1] = "review_script"     -> Verdicts
    [] question[1] = "revise_script"     -> Scripts(question[2][1].outline, "revised")
    [] question[1] = "generate_metadata" -> {question[2]}

ModelAnswers ==
  /\ Asking
  /\ \/ Ask(Question)
     \/ FallBackToObject \/ NextProvider \/ Repair
     \/ \E value \in Answers(Question) : Accept(value)
  /\ UNCHANGED editorialVars

StepFails == Asking /\ Raises(Question) /\ EndAttempt /\ UNCHANGED <<events, episode>>

\* A step takes the answer, and asks again or finishes.
Got(step) == run.at = step /\ answer # NoAnswer

Use(changes) ==
  /\ run' = changes /\ answer' = NoAnswer
  /\ UNCHANGED <<artifacts, call, reserved, episode>>

GoOn   == usage' = [usage EXCEPT !.step = @ + answer.calls]
Finish == usage' = [run |-> usage.run + usage.step + answer.calls, step |-> 0, before |-> reserved]

-----------------------------------------------------------------------------
\* Ranking, outlining, scripting.

\* Scored events are selected or rejected; an event beyond the candidate cap stays as it is.
Rank ==
  LET selected == SelectEventIds(answer.value)
      Verdict(e) == IF e \in ToSet(selected) THEN "selected" ELSE "rejected"
  IN  /\ Got("ranking") /\ Use([run EXCEPT !.at = "loading", !.selected = selected]) /\ Finish
      /\ events' = [e \in Events |-> IF e \in run.candidates THEN Verdict(e) ELSE events[e]]

WriteOutline ==
  /\ Got("outlining") /\ UNCHANGED events
  /\ Use([run EXCEPT !.at = "scripting"]) /\ Finish

WriteScript ==
  /\ Got("scripting") /\ UNCHANGED events
  /\ Use([run EXCEPT !.at = "review", !.script = answer.value]) /\ Finish

-----------------------------------------------------------------------------
\* Checking.

\* A claim without a source, an unsupported format and the like block as "long" does.
Blocking(script) == script.length # "fits"

Passes(verdict) == ~ run.gate \/ verdict = "pass"

NeedsRevision(verdict) ==
  /\ MaxRevisions = 1 /\ ~ run.revised
  /\ run.script.length = "short" \/ (run.gate /\ verdict = "revise")

RequiresHumanReview(verdict) == Blocking(run.script) \/ ~ Passes(verdict)

\* script.json, validation.json, review.json and metadata.json.
Checked(metadata, verdict) ==
  [script |-> run.script, verdict |-> verdict, metadata |-> metadata, gate |-> run.gate]

Review ==
  LET verdict == answer.value IN
  /\ Got("review") /\ UNCHANGED events
  /\ \/ NeedsRevision(verdict) /\ Use([run EXCEPT !.at = "revise", !.verdict = verdict]) /\ GoOn
     \/ /\ ~ NeedsRevision(verdict) /\ ~ RequiresHumanReview(verdict)
        /\ Use([run EXCEPT !.at = "metadata", !.verdict = verdict]) /\ GoOn
     \/ /\ ~ NeedsRevision(verdict) /\ RequiresHumanReview(verdict)
        /\ Use([run EXCEPT !.at = "create_episode", !.file = Checked(NoScript, verdict)]) /\ Finish

TrustRevision ==                          \* mutant: the first review stands for the revision
  /\ Got("revise") /\ UNCHANGED events
  /\ Use([run EXCEPT !.at = "create_episode", !.script = answer.value, !.revised = TRUE,
            !.file = [Checked(answer.value, run.verdict) EXCEPT !.script = answer.value]])
  /\ Finish

\* The revised script is validated and reviewed like the first.
Revise ==
  /\ Got("revise") /\ UNCHANGED events
  /\ Use([run EXCEPT !.at = "review", !.script = answer.value, !.revised = TRUE]) /\ GoOn

WriteMetadata ==
  /\ Got("metadata") /\ UNCHANGED events
  /\ Use([run EXCEPT !.at = "create_episode", !.file = Checked(answer.value, run.verdict)]) /\ Finish

-----------------------------------------------------------------------------
\* create_episode: reads the files of the attempt back.

EditorialGateFails ==
  /\ run.at = "create_episode"
  /\ Blocking(run.file.script) \/ (run.gate /\ run.file.verdict # "pass")
  /\ EndAttempt /\ UNCHANGED <<events, episode>>

AcceptedText ==
  /\ run.at = "create_episode"
  /\ ~ Blocking(run.file.script) /\ (run.gate => run.file.verdict = "pass")

\* generate_audio knows the episode only.  No later step asks a model: the accounts of the
\* attempt are closed here.
ToAudio ==
  /\ run' = [Idle EXCEPT !.at = "generate_audio"] /\ reserved' = 0 /\ usage' = NoUsage
  /\ UNCHANGED <<artifacts, call, answer, events>>

AllSelected == \A e \in ToSet(run.outlined) : events[e] = "selected"

Create == AcceptedText /\ AllSelected /\ run.kind = "generate" /\ CreateEpisode(run.file) /\ ToAudio

\* A second attempt of the day goes on with the episode that exists and drops its own text.
ReuseEpisode ==
  /\ AcceptedText /\ run.kind = "generate" /\ Mutable
  /\ ToAudio /\ UNCHANGED episode

ReusePublished ==
  /\ AcceptedText /\ run.kind = "generate" /\ episode # NoEpisode /\ ~ Mutable
  /\ EndAttempt /\ UNCHANGED <<events, episode>>

Regenerate ==
  /\ AcceptedText /\ run.kind = "regenerate" /\ Mutable
  /\ RegenerateEpisode(run.file) /\ ToAudio

RefuseRegeneration ==
  /\ AcceptedText /\ run.kind = "regenerate" /\ ~ Mutable
  /\ EndAttempt /\ UNCHANGED <<events, episode>>

EditorialSteps ==
  \/ ModelAnswers \/ StepFails \/ NoPublishableEvents \/ LoadEvidence \/ InsufficientEvidenceError
  \/ Rank \/ WriteOutline \/ WriteScript \/ Review \/ Revise \/ WriteMetadata
  \/ EditorialGateFails \/ Create \/ ReuseEpisode \/ ReusePublished \/ Regenerate \/ RefuseRegeneration

=============================================================================
