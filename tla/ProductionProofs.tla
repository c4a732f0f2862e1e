--------------------------- MODULE ProductionProofs ---------------------------
(***************************************************************************)
(* Theorems about Production, for any events, providers, retries, budgets, *)
(* scripts, speech contents and bounds.                                    *)
(*                                                                         *)
(* The inductive invariant has three parts, one per module that Production *)
(* composes: what is asked and was answered (Dialogue), how far the text   *)
(* of the attempt is (Copy), and how far its audio is (Sound).             *)
(***************************************************************************)
EXTENDS Production, SelectionProofs, WellFoundedInduction

-----------------------------------------------------------------------------
(* The attempt *)

AskingStages == {"ranking", "outlining", "scripting", "review", "revise", "metadata"}
TextStages   == AskingStages \cup {"loading", "create_episode"}
Stages       == TextStages \cup {"idle", "generate_audio", "publish"}

RunFields == {"at", "kind", "gate", "candidates", "selected", "outlined", "script",
              "verdict", "revised", "file"}

Attempt ==
  /\ DOMAIN run = RunFields /\ run.at \in Stages
  /\ run.kind \in Kinds /\ run.gate \in BOOLEAN

(* Only checking asks several questions in one step.                       *)
Checking == {"review", "revise", "metadata"}

Accounts ==
  /\ DOMAIN usage = {"run", "step", "before"}
  /\ usage.run \in Nat /\ usage.step \in Nat /\ usage.before \in Nat /\ reserved \in 0..MaxCalls
  /\ run.at \notin Checking => usage.step = 0
  /\ CallsAreAccounted

-----------------------------------------------------------------------------
(* What is asked and was answered *)

ArtifactsAreAnswers ==
  \A row \in artifacts :
    /\ DOMAIN row = {"question", "provider", "value"} /\ row.provider \in ToSet(Providers)
    /\ row.value \in Answers(row.question)

(* The question asked is the one of the step that waits for its answer.    *)
RequestIsOfTheStep ==
  call # NoCall =>
    /\ Asking /\ answer = NoAnswer /\ call.question = Question
    /\ call.made \in 1..MaxCalls /\ call.provider \in ToSet(Providers)

Recorded(question, value) == \E row \in artifacts : row.question = question /\ row.value = value

AnswerIsOfTheStep ==
  answer # NoAnswer => Asking /\ answer.calls \in 0..MaxCalls /\ Recorded(Question, answer.value)

Dialogue ==
  /\ Attempt /\ ArtifactsAreAnswers /\ RequestIsOfTheStep /\ AnswerIsOfTheStep
  /\ NeverAskedTwice /\ Accounts

-----------------------------------------------------------------------------
(* How far the text is *)

Reviewed(text) ==
  /\ ~ Blocking(text.script) /\ (text.gate => text.verdict = "pass")
  /\ Recorded(<<"review_script", text.script>>, text.verdict)
  /\ \E row \in artifacts : row.question = <<"generate_metadata", text.metadata>>
  /\ text.metadata = text.script /\ text.script.take \in ScriptTakes

(* A text that create_episode accepts went through every check.            *)
TextOfTheAttempt ==
  /\ run.at \in {"review", "revise", "metadata"} => run.script.take \in ScriptTakes
  /\ run.at = "metadata" =>
       /\ ~ Blocking(run.script) /\ Passes(run.verdict)
       /\ Recorded(<<"review_script", run.script>>, run.verdict)
  /\ run.at = "create_episode" => run.file.gate = run.gate
  /\ AcceptedText => Reviewed(run.file)

EpisodeRow ==
  /\ DOMAIN episode = {"status", "revision", "version", "text", "audio"}
  /\ episode.status \in {"draft", "review_required", "approved", "published"}
  /\ episode.revision \in Revisions

EpisodeIsSound == episode # NoEpisode => EpisodeRow /\ Reviewed(episode.text)

(* Another edition fits: a regeneration was asked for an episode.          *)
EditionFits ==
  run.at \in TextStages /\ run.kind = "regenerate" =>
    episode # NoEpisode /\ episode.revision < MaxEdition

Copy == TextOfTheAttempt /\ EditionFits /\ EpisodeIsSound

-----------------------------------------------------------------------------
(* How far the audio is *)

SegmentStatuses == {"none", "pending", "synthesizing", "failed", "succeeded"}

(* A finished row names a speech and a content; a file holds what it is    *)
(* named for.                                                              *)
FilesAndRows ==
  /\ DOMAIN segments = Places
  /\ \A p \in Places :
       /\ segments[p].status \in SegmentStatuses
       /\ segments[p].audio \in Contents \cup {NoAudio}
       /\ segments[p].status = "succeeded" => segments[p].key \in Speeches /\ segments[p].audio \in Contents
  /\ cache \in [Speeches -> Contents \cup {NoAudio}]
  /\ \A k \in Speeches : cache[k] # NoAudio => cache[k][1] = k
  /\ DOMAIN draft = Revisions /\ \A r \in Revisions : ToSet(draft[r]) \subseteq Contents

Speaks(contents) ==
  Len(contents) = Len(Texts) /\ \A i \in DOMAIN Texts : contents[i][1] = Speech(Texts, i)

Finished(i) ==
  LET row == segments[<<episode.revision, i>>] IN
  row.status = "succeeded" /\ row.key = CacheKey(Texts, i) /\ cache[row.key] # NoAudio

Segmenting == {"prepare", "lookup", "synthesize", "record"}

(* The sections behind the one in work are finished, and stay so.          *)
SpeechOfTheAttempt ==
  /\ DOMAIN speech = {"at", "index", "audio"}
  /\ speech.at \in Segmenting \cup {"idle", "merge", "finalize"}
  /\ speech.at # "idle" => run.at = "generate_audio"
  /\ run.at \in {"generate_audio", "publish"} => episode # NoEpisode
  /\ speech.at \in Segmenting =>
       speech.index \in DOMAIN Texts /\ \A i \in 1..(speech.index - 1) : Finished(i)
  /\ speech.at = "record" => speech.audio \in Contents /\ cache[Key] = speech.audio
  /\ speech.at \in {"merge", "finalize"} => \A i \in DOMAIN Texts : Finished(i)
  /\ speech.at = "finalize" => Speaks(draft[episode.revision])

Sound == FilesAndRows /\ SpeechOfTheAttempt /\ DraftSpeaksItsScript

Counters == attempts \in 0..MaxAttempts /\ events \in [Events -> Statuses]

IInv == Dialogue /\ Copy /\ Sound /\ Counters

-----------------------------------------------------------------------------
(* Records *)

LEMMA Requests ==
  ASSUME NEW question, NEW p, NEW round, NEW format, NEW made
  PROVE  LET r == Request(question, p, round, format, made) IN
         /\ r # NoCall
         /\ r.question = question /\ r.provider = p /\ r.made = made
<1>1. "question" \notin DOMAIN NoCall
  BY DEF NoCall
<1>2. "question" \in DOMAIN Request(question, p, round, format, made)
  BY DEF Request
<1> QED
  BY <1>1, <1>2 DEF Request

(* Something that was returned is not nothing.                             *)
LEMMA ReturnedIsSomething ==
  ASSUME NEW value, NEW calls
  PROVE  [value |-> value, calls |-> calls] # NoAnswer
<1>1. "value" \notin DOMAIN NoAnswer
  BY DEF NoAnswer
<1> QED
  BY <1>1

LEMMA IdleAttempt ==
  /\ DOMAIN Idle = RunFields /\ Idle.at = "idle" /\ Idle.kind = "generate" /\ Idle.gate \in BOOLEAN
BY DEF Idle, RunFields

(* What a model was asked at each stage, and what it may answer.           *)
LEMMA Questions ==
  /\ run.at = "review" => Question = ReviewQuestion
  /\ run.at = "revise" => Question = RevisionQuestion
  /\ run.at = "metadata" => Question = MetadataQuestion
  /\ run.at = "scripting" => Question = ScriptQuestion
BY DEF Question

LEMMA AnswersTo ==
  ASSUME NEW x
  PROVE  /\ Answers(<<"review_script", x>>) = Verdicts
         /\ Answers(<<"generate_script", x>>) = Scripts(x, "first")
         /\ Answers(<<"revise_script", x>>) = Scripts(x[1].outline, "revised")
         /\ Answers(<<"generate_metadata", x>>) = {x}
BY DEF Answers

-----------------------------------------------------------------------------
(* The cache *)

LEMMA Positions ==
  ASSUME NEW p \in ToSet(Providers)
  PROVE  Position(p) \in DOMAIN Providers /\ Position(p) \in Nat \ {0}
<1>1. \E i \in DOMAIN Providers : Providers[i] = p
  BY DEF ToSet
<1>2. DOMAIN Providers = 1..Len(Providers) /\ Len(Providers) \in Nat
  BY ModelCallConstantsOK
<1> QED
  BY <1>1, <1>2 DEF Position

(* The cache misses no question that has a row.                            *)
LEMMA CacheFinds ==
  ASSUME ArtifactsAreAnswers, NEW question, Cached(question) = {}
  PROVE  RowsOf(question) = {}
<1> SUFFICES ASSUME RowsOf(question) # {} PROVE FALSE
  OBVIOUS
<1> DEFINE T == {Position(row.provider) : row \in RowsOf(question)}
<1>1. \A row \in RowsOf(question) : Position(row.provider) \in Nat
  BY Positions DEF RowsOf, ArtifactsAreAnswers
<1>2. T \subseteq Nat /\ T # {}
  BY <1>1
<1>3. PICK x \in T : \A y \in T : x <= y
  BY <1>2, LeastNumber, Zenon
<1>4. PICK row \in RowsOf(question) : Position(row.provider) = x
  BY <1>3
<1>5. row \in Cached(question)
  BY <1>3, <1>4 DEF Cached
<1> QED
  BY <1>5

(* The first provider, and the ones after a provider, are in the chain.    *)
LEMMA Chain ==
  /\ Head(Providers) \in ToSet(Providers)
  /\ \A p \in ToSet(Providers) :
       AfterProvider(p) # <<>> => Head(AfterProvider(p)) \in ToSet(Providers)
<1>1. Providers \in Seq(ToSet(Providers)) /\ Len(Providers) \in Nat \ {0}
      /\ DOMAIN Providers = 1..Len(Providers)
  BY ModelCallConstantsOK
<1>2. Head(Providers) \in ToSet(Providers)
  BY <1>1 DEF ToSet
<1>3. ASSUME NEW p \in ToSet(Providers), AfterProvider(p) # <<>>
      PROVE  Head(AfterProvider(p)) \in ToSet(Providers)
  <2>1. Position(p) \in 1..Len(Providers)
    BY <1>1, Positions
  <2>2. AfterProvider(p) \in Seq(ToSet(Providers))
    BY <1>1, <2>1 DEF AfterProvider
  <2> QED
    BY <1>3, <2>2
<1> QED
  BY <1>2, <1>3

-----------------------------------------------------------------------------
(* Dialogue *)

(* The accounts of an attempt that has not begun to ask are clear.         *)
LEMMA AccountsClear ==
  ASSUME reserved = 0, usage = NoUsage, call = NoCall, answer = NoAnswer
  PROVE  Accounts
<1>1. /\ DOMAIN usage = {"run", "step", "before"}
      /\ usage.run = 0 /\ usage.step = 0 /\ usage.before = 0 /\ call.made = 0 /\ answer.calls = 0
  BY DEF NoUsage, NoCall, NoAnswer
<1> QED
  BY <1>1, ModelCallConstantsOK DEF Accounts, CallsAreAccounted

(* What a request or an answer adds, it adds to the budget too.            *)
LEMMA AccountsMove ==
  ASSUME Accounts, Asking, run' = run, usage' = usage, reserved' \in 0..MaxCalls,
         NEW m \in Nat, NEW n \in Nat, call.made + answer.calls = m, call'.made + answer'.calls = n,
         call.made \in Nat, answer.calls \in Nat, call'.made \in Nat, answer'.calls \in Nat,
         NEW d \in Nat, n = m + d, reserved' = reserved + d
  PROVE  Accounts'
<1>1. /\ usage.run \in Nat /\ usage.step \in Nat /\ usage.before \in Nat /\ reserved \in Nat
      /\ usage.run = usage.before /\ usage.run <= reserved
  BY ModelCallConstantsOK DEF Accounts, CallsAreAccounted
<1>2. run.at # "idle" /\ run.at # "create_episode"
  BY DEF Asking
<1>3. reserved = usage.before + usage.step + m
  BY <1>1, <1>2 DEF Accounts, CallsAreAccounted
<1>4. reserved' = usage.before + usage.step + call'.made + answer'.calls
  BY <1>1, <1>3
<1>5. usage.run <= reserved'
  BY <1>1
<1>6. CallsAreAccounted'
  <2>1. run'.at # "create_episode" /\ usage'.run = usage'.before /\ usage'.run <= reserved'
    BY <1>1, <1>2, <1>5
  <2>2. reserved' = usage'.before + usage'.step + call'.made + answer'.calls
    BY <1>4
  <2> QED
    BY <2>1, <2>2 DEF CallsAreAccounted
<1> QED
  BY <1>6 DEF Accounts

LEMMA DialogueInit == Init => Dialogue
<1> SUFFICES ASSUME Init PROVE Dialogue
  OBVIOUS
<1>1. artifacts = {} /\ call = NoCall /\ answer = NoAnswer /\ reserved = 0 /\ run = Idle
      /\ usage = NoUsage
  BY DEF Init, InitEditorial, InitModelCalls
<1>2. Attempt
  BY <1>1, IdleAttempt DEF Attempt, Stages, TextStages, AskingStages, Kinds
<1>3. ArtifactsAreAnswers /\ RequestIsOfTheStep /\ AnswerIsOfTheStep /\ NeverAskedTwice
  BY <1>1 DEF ArtifactsAreAnswers, RequestIsOfTheStep, AnswerIsOfTheStep, NeverAskedTwice
<1>4. Accounts
  BY <1>1, AccountsClear
<1> QED
  BY <1>2, <1>3, <1>4 DEF Dialogue

(* The end of an attempt leaves the recorded answers, and a step that      *)
(* reports nothing.                                                        *)
LEMMA DialogueEnds == Dialogue /\ EndAttempt => Dialogue'
<1> SUFFICES ASSUME Dialogue, EndAttempt PROVE Dialogue'
  OBVIOUS
<1>1. artifacts' = artifacts /\ call' = NoCall /\ answer' = NoAnswer /\ reserved' = reserved /\ run' = Idle
      /\ usage' = [usage EXCEPT !.step = 0]
  BY DEF EndAttempt, Discard
<1>2. Attempt'
  BY <1>1, IdleAttempt DEF Attempt, Stages, TextStages, AskingStages, Kinds
<1>3. ArtifactsAreAnswers'
  BY <1>1 DEF Dialogue, ArtifactsAreAnswers
<1>4. RequestIsOfTheStep' /\ AnswerIsOfTheStep'
  BY <1>1 DEF RequestIsOfTheStep, AnswerIsOfTheStep
<1>5. NeverAskedTwice'
  BY <1>1 DEF Dialogue, NeverAskedTwice
<1>6. Accounts'
  <2>1. /\ DOMAIN usage = {"run", "step", "before"} /\ usage.run \in Nat /\ usage.before \in Nat
        /\ usage.run = usage.before /\ usage.run <= reserved /\ reserved \in 0..MaxCalls
    BY DEF Dialogue, Accounts, CallsAreAccounted
  <2>2. DOMAIN usage' = DOMAIN usage /\ usage'.run = usage.run /\ usage'.step = 0 /\ usage'.before = usage.before
    BY <1>1, <2>1
  <2>3. run'.at = "idle"
    BY <1>1, IdleAttempt
  <2> QED
    BY <1>1, <2>1, <2>2, <2>3 DEF Accounts, CallsAreAccounted
<1> QED
  BY <1>2, <1>3, <1>4, <1>5, <1>6 DEF Dialogue

(* Between two questions an attempt moves on without touching the models.  *)
LEMMA DialogueRests ==
  ASSUME Dialogue, Attempt', call = NoCall, answer = NoAnswer,
         artifacts' = artifacts, call' = call, answer' = answer,
         \/ /\ reserved' = reserved /\ usage' = usage /\ run.at \notin Checking \cup {"idle"}
            /\ run'.at \notin Checking \cup {"create_episode"}
         \/ reserved' = 0 /\ usage' = NoUsage
  PROVE  Dialogue'
<1>1. ArtifactsAreAnswers'
  BY DEF Dialogue, ArtifactsAreAnswers
<1>2. RequestIsOfTheStep' /\ AnswerIsOfTheStep'
  BY DEF RequestIsOfTheStep, AnswerIsOfTheStep
<1>3. NeverAskedTwice'
  BY DEF Dialogue, NeverAskedTwice
<1>4. call.made = 0 /\ answer.calls = 0
  BY DEF NoCall, NoAnswer
<1>5. Accounts'
  <2>1. CASE reserved' = 0 /\ usage' = NoUsage
    <3>1. /\ DOMAIN usage' = {"run", "step", "before"} /\ usage'.run = 0 /\ usage'.step = 0
          /\ usage'.before = 0 /\ call'.made = 0 /\ answer'.calls = 0
      BY <1>4, <2>1 DEF NoUsage
    <3> QED
      BY <2>1, <3>1, ModelCallConstantsOK DEF Accounts, CallsAreAccounted
  <2>2. CASE /\ reserved' = reserved /\ usage' = usage /\ run.at \notin Checking \cup {"idle"}
             /\ run'.at \notin Checking \cup {"create_episode"}
    <3>1. Accounts
      BY DEF Dialogue
    <3> QED
      BY <1>4, <2>2, <3>1 DEF Accounts, CallsAreAccounted
  <2> QED
    BY <2>1, <2>2
<1> QED
  BY <1>1, <1>2, <1>3, <1>5 DEF Dialogue

(* Outside the stages that ask, nothing is asked and nothing was answered. *)
LEMMA Silent ==
  ASSUME Dialogue, run.at \notin AskingStages
  PROVE  call = NoCall /\ answer = NoAnswer
BY DEF Dialogue, RequestIsOfTheStep, AnswerIsOfTheStep, Asking, AskingStages

(* A step that takes its answer keeps or reports the calls and frees the   *)
(* models.                                                                 *)
LEMMA DialogueTurns ==
  ASSUME Dialogue, NEW changes, Use(changes), answer # NoAnswer,
         DOMAIN changes = RunFields, changes.at \in TextStages,
         changes.kind = run.kind, changes.gate = run.gate,
         (GoOn /\ changes.at \in Checking) \/ Finish
  PROVE  Dialogue'
<1>1. /\ run' = changes /\ answer' = NoAnswer
      /\ artifacts' = artifacts /\ call' = call /\ reserved' = reserved
  BY DEF Use
<1>2. Asking /\ answer.calls \in Nat
  BY ModelCallConstantsOK DEF Dialogue, AnswerIsOfTheStep
<1>4. Attempt'
  BY <1>1 DEF Dialogue, Attempt, Stages
<1>5. call = NoCall
  BY DEF Dialogue, RequestIsOfTheStep
<1>6. ArtifactsAreAnswers'
  BY <1>1 DEF Dialogue, ArtifactsAreAnswers
<1>7. RequestIsOfTheStep' /\ AnswerIsOfTheStep'
  BY <1>1, <1>5 DEF RequestIsOfTheStep, AnswerIsOfTheStep
<1>8. NeverAskedTwice'
  BY <1>1, <1>5 DEF Dialogue, NeverAskedTwice
<1>9. Accounts'
  <2>1. /\ DOMAIN usage = {"run", "step", "before"} /\ reserved \in 0..MaxCalls
        /\ usage.run \in Nat /\ usage.step \in Nat /\ usage.before \in Nat
        /\ usage.run = usage.before /\ usage.run <= reserved
    BY DEF Dialogue, Accounts, CallsAreAccounted
  <2>2. call.made = 0 /\ call'.made = 0 /\ answer'.calls = 0 /\ run.at # "idle" /\ run'.at # "idle"
    BY <1>1, <1>2, <1>5 DEF NoCall, NoAnswer, Asking, TextStages, AskingStages
  <2>3. reserved = usage.before + usage.step + answer.calls
    BY <1>2, <2>1, <2>2 DEF Dialogue, Accounts, CallsAreAccounted
  <2>4. CASE GoOn /\ changes.at \in Checking
    <3>1. /\ DOMAIN usage' = DOMAIN usage /\ usage'.run = usage.run
          /\ usage'.step = usage.step + answer.calls /\ usage'.before = usage.before
      BY <2>1, <2>4 DEF GoOn
    <3>2. run'.at \in Checking /\ run'.at # "create_episode"
      BY <1>1, <2>4 DEF Checking
    <3>3. reserved' = usage'.before + usage'.step + 0 + 0 /\ usage'.step \in Nat
      BY <1>1, <1>2, <2>1, <2>3, <3>1
    <3> QED
      BY <1>1, <2>1, <2>2, <3>1, <3>2, <3>3 DEF Accounts, CallsAreAccounted
  <2>5. CASE Finish
    <3>1. /\ DOMAIN usage' = {"run", "step", "before"} /\ usage'.run = usage.run + usage.step + answer.calls
          /\ usage'.step = 0 /\ usage'.before = reserved
      BY <2>5 DEF Finish
    <3>2. usage'.run = reserved /\ reserved \in Nat
      BY <1>2, <2>1, <2>3, <3>1, ModelCallConstantsOK
    <3> QED
      BY <1>1, <2>1, <2>2, <3>1, <3>2 DEF Accounts, CallsAreAccounted
  <2> QED
    BY <2>4, <2>5
<1> QED
  BY <1>4, <1>6, <1>7, <1>8, <1>9 DEF Dialogue

(* A request is reserved before it is sent, and counts.                    *)
LEMMA DialogueRetries ==
  ASSUME Dialogue, call # NoCall, run' = run, usage' = usage,
         NEW p \in ToSet(Providers), NEW round, NEW format, Retry(p, round, format)
  PROVE  Dialogue'
<1>1. /\ reserved < MaxCalls /\ reserved' = reserved + 1
      /\ call' = Request(call.question, p, round, format, call.made + 1)
      /\ artifacts' = artifacts /\ answer' = answer
  BY DEF Retry, Reserve, WithinBudget
<1>2. /\ Asking /\ answer = NoAnswer /\ call.question = Question /\ call.made \in 1..MaxCalls
      /\ reserved \in 0..MaxCalls
  BY DEF Dialogue, RequestIsOfTheStep, Accounts
<1>4. call' # NoCall /\ call'.question = call.question /\ call'.provider = p /\ call'.made = call.made + 1
  BY <1>1, Requests
<1>5. Attempt'
  BY DEF Dialogue, Attempt
<1>6. ArtifactsAreAnswers'
  BY <1>1 DEF Dialogue, ArtifactsAreAnswers
<1>7. Asking' /\ Question' = Question
  BY <1>2 DEF Asking, Question, ScoreQuestion, OutlineQuestion, ScriptQuestion, ReviewQuestion,
              RevisionQuestion, MetadataQuestion
<1>8. RequestIsOfTheStep' /\ AnswerIsOfTheStep'
  <2>1. call.made <= reserved
    <3>1. /\ usage.step \in Nat /\ usage.before \in Nat /\ answer.calls = 0 /\ call.made \in Nat
          /\ reserved = usage.before + usage.step + call.made + answer.calls
      BY <1>2 DEF Dialogue, Accounts, CallsAreAccounted, NoAnswer, Asking
    <3> QED
      BY <1>2, <3>1
  <2> QED
    BY <1>1, <1>2, <1>4, <1>7, <2>1, ModelCallConstantsOK DEF RequestIsOfTheStep, AnswerIsOfTheStep
<1>9. NeverAskedTwice'
  <2>1. \A row, other \in artifacts : row.question = other.question => row = other
    BY DEF Dialogue, NeverAskedTwice
  <2>2. RowsOf(call.question) = {}
    BY DEF Dialogue, NeverAskedTwice
  <2>3. RowsOf(call.question)' = {}
    BY <1>1, <1>4, <2>2 DEF RowsOf
  <2>4. \A row, other \in artifacts' : row.question = other.question => row = other
    BY <1>1, <2>1
  <2> QED
    BY <2>3, <2>4 DEF NeverAskedTwice
<1>10. Accounts'
  <2>1. answer.calls = 0 /\ answer'.calls = 0
    BY <1>1, <1>2 DEF NoAnswer
  <2>2. MaxCalls \in Nat /\ call.made \in Nat /\ reserved' \in 0..MaxCalls
    BY <1>1, <1>2, ModelCallConstantsOK
  <2>3. Accounts
    BY DEF Dialogue
  <2>4. call'.made = call.made + 1 /\ call'.made \in Nat
    BY <1>4, <2>2
  <2>5. call.made + answer.calls = call.made /\ call'.made + answer'.calls = call.made + 1
    BY <2>1, <2>2, <2>4
  <2> QED
    BY <1>1, <1>2, <2>1, <2>2, <2>3, <2>4, <2>5, AccountsMove
<1> QED
  BY <1>5, <1>6, <1>8, <1>9, <1>10 DEF Dialogue

(* The first request goes out when no provider's row answers the question. *)
LEMMA DialogueAsks ==
  ASSUME Dialogue, Asking, run' = run, usage' = usage, Ask(Question)
  PROVE  Dialogue'
<1>1. call = NoCall /\ answer = NoAnswer /\ artifacts' = artifacts
  BY DEF Ask
<1>2. Accounts /\ reserved \in 0..MaxCalls /\ call.made = 0 /\ answer.calls = 0
  BY <1>1 DEF Dialogue, Accounts, NoCall, NoAnswer
<1>3. Attempt'
  BY DEF Dialogue, Attempt
<1>4. ArtifactsAreAnswers'
  BY <1>1 DEF Dialogue, ArtifactsAreAnswers
<1>5. Asking' /\ Question' = Question
  BY DEF Asking, Question, ScoreQuestion, OutlineQuestion, ScriptQuestion, ReviewQuestion,
         RevisionQuestion, MetadataQuestion
<1>6. CASE \E row \in Cached(Question) : answer' = Hit(row) /\ UNCHANGED <<call, reserved>>
  <2>1. PICK row \in Cached(Question) : answer' = Hit(row) /\ call' = call /\ reserved' = reserved
    BY <1>6
  <2>2. row \in artifacts /\ row.question = Question
    BY <2>1 DEF Cached, RowsOf
  <2>3. answer'.value = row.value /\ answer'.calls = 0
    BY <2>1 DEF Hit
  <2>4. RequestIsOfTheStep'
    BY <1>1, <2>1 DEF RequestIsOfTheStep
  <2>5. Recorded(Question, row.value)'
    BY <1>1, <1>5, <2>2 DEF Recorded
  <2>6. AnswerIsOfTheStep'
    BY <1>5, <2>3, <2>5, ModelCallConstantsOK DEF AnswerIsOfTheStep, Recorded
  <2>7. NeverAskedTwice'
    BY <1>1, <2>1 DEF Dialogue, NeverAskedTwice
  <2>8. Accounts'
    BY <1>2, <2>1, <2>3, AccountsMove
  <2> QED
    BY <1>3, <1>4, <2>4, <2>6, <2>7, <2>8 DEF Dialogue
<1>7. CASE /\ Cached(Question) = {} /\ Reserve
           /\ call' = Request(Question, Head(Providers), "first", "json_schema", 1)
           /\ UNCHANGED answer
  <2>1. call' # NoCall /\ call'.question = Question /\ call'.provider = Head(Providers) /\ call'.made = 1
    BY <1>7, Requests
  <2>2. reserved < MaxCalls /\ reserved' = reserved + 1
    BY <1>7 DEF Reserve, WithinBudget
  <2>3. RequestIsOfTheStep' /\ AnswerIsOfTheStep'
    BY <1>1, <1>2, <1>5, <1>7, <2>1, <2>2, Chain, ModelCallConstantsOK
    DEF RequestIsOfTheStep, AnswerIsOfTheStep
  <2>4. RowsOf(Question) = {}
    BY <1>7, CacheFinds DEF Dialogue
  <2>5. NeverAskedTwice'
    BY <1>1, <2>1, <2>4 DEF Dialogue, NeverAskedTwice, RowsOf
  <2>6. Accounts'
    BY <1>2, <1>7, <2>1, <2>2, ModelCallConstantsOK, AccountsMove
  <2> QED
    BY <1>3, <1>4, <2>3, <2>5, <2>6 DEF Dialogue
<1> QED
  BY <1>6, <1>7 DEF Ask

(* An answer is stored where no row was, and its calls come along.         *)
LEMMA DialogueAccepts ==
  ASSUME Dialogue, run' = run, usage' = usage, NEW value \in Answers(Question), Accept(value)
  PROVE  Dialogue'
<1> DEFINE new == [question |-> call.question, provider |-> call.provider, value |-> value]
<1>1. /\ call # NoCall /\ artifacts' = artifacts \cup {new}
      /\ answer' = [value |-> value, calls |-> call.made]
      /\ call' = NoCall /\ reserved' = reserved
  BY DEF Accept, Answered
<1>2. /\ Asking /\ answer = NoAnswer /\ call.question = Question /\ call.made \in 1..MaxCalls
      /\ call.provider \in ToSet(Providers)
  BY <1>1 DEF Dialogue, RequestIsOfTheStep
<1>3. /\ DOMAIN new = {"question", "provider", "value"} /\ new.question = Question
      /\ new.provider = call.provider /\ new.value = value
  BY <1>2
<1> HIDE DEF new
<1>4. Attempt'
  BY DEF Dialogue, Attempt
<1>5. \A x : Answers(x)' = Answers(x)
  BY DEF Answers, ScoresOf, Scripts
<1>6. ArtifactsAreAnswers'
  BY <1>1, <1>2, <1>3, <1>5 DEF Dialogue, ArtifactsAreAnswers
<1>7. Asking' /\ Question' = Question
  BY <1>2 DEF Asking, Question, ScoreQuestion, OutlineQuestion, ScriptQuestion, ReviewQuestion,
              RevisionQuestion, MetadataQuestion
<1>8. RequestIsOfTheStep'
  BY <1>1 DEF RequestIsOfTheStep
<1>9. answer'.value = value /\ answer'.calls = call.made
  BY <1>1
<1>10. AnswerIsOfTheStep'
  BY <1>1, <1>2, <1>3, <1>7, <1>9, ModelCallConstantsOK DEF AnswerIsOfTheStep, Recorded
<1>11. RowsOf(Question) = {}
  BY <1>1, <1>2 DEF Dialogue, NeverAskedTwice
<1>12. NeverAskedTwice'
  BY <1>1, <1>3, <1>11 DEF Dialogue, NeverAskedTwice, RowsOf
<1>13. Accounts'
  <2>1. Accounts /\ reserved' \in 0..MaxCalls
    BY <1>1 DEF Dialogue, Accounts
  <2>2. call.made \in Nat /\ answer.calls = 0 /\ call'.made = 0
    BY <1>1, <1>2, ModelCallConstantsOK DEF NoCall, NoAnswer
  <2>3. reserved' = reserved + 0
    BY <1>1, <2>1, ModelCallConstantsOK DEF Accounts
  <2> QED
    BY <1>2, <1>9, <2>1, <2>2, <2>3, AccountsMove
<1> QED
  BY <1>4, <1>6, <1>8, <1>10, <1>12, <1>13 DEF Dialogue

LEMMA DialogueAnswers == Dialogue /\ ModelAnswers => Dialogue'
<1> SUFFICES ASSUME Dialogue, ModelAnswers PROVE Dialogue'
  OBVIOUS
<1>1. Asking /\ run' = run /\ usage' = usage
  BY DEF ModelAnswers, editorialVars
<1>2. call # NoCall => call.provider \in ToSet(Providers)
  BY DEF Dialogue, RequestIsOfTheStep
<1>3. CASE Ask(Question)
  BY <1>1, <1>3, DialogueAsks
<1>4. CASE FallBackToObject
  BY <1>1, <1>2, <1>4, DialogueRetries DEF FallBackToObject, Answered
<1>5. CASE NextProvider
  BY <1>1, <1>2, <1>5, Chain, DialogueRetries DEF NextProvider, Answered
<1>6. CASE Repair
  BY <1>1, <1>2, <1>6, Chain, DialogueRetries DEF Repair, Answered
<1>7. CASE \E value \in Answers(Question) : Accept(value)
  BY <1>1, <1>7, DialogueAccepts
<1> QED
  BY <1>3, <1>4, <1>5, <1>6, <1>7 DEF ModelAnswers

(* The steps that take their answer.                                       *)
Taking == Rank \/ WriteOutline \/ WriteScript \/ Review \/ Revise \/ WriteMetadata

LEMMA DialogueTakes == Dialogue /\ Taking => Dialogue'
<1> SUFFICES ASSUME Dialogue, Taking PROVE Dialogue'
  OBVIOUS
<1>1. DOMAIN run = RunFields /\ answer # NoAnswer
  BY DEF Dialogue, Attempt, Taking, Rank, WriteOutline, WriteScript, Review, Revise, WriteMetadata, Got
<1> USE DEF RunFields, TextStages, AskingStages, Checking
<1>2. CASE Rank
  <2> DEFINE changes == [run EXCEPT !.at = "loading", !.selected = SelectEventIds(answer.value)]
  <2>1. Use(changes) /\ Finish
    BY <1>2 DEF Rank
  <2>2. /\ DOMAIN changes = RunFields /\ changes.at = "loading" /\ changes.kind = run.kind
        /\ changes.gate = run.gate
    BY <1>1
  <2> QED
    BY <1>1, <2>1, <2>2, DialogueTurns
<1>3. CASE WriteOutline
  <2> DEFINE changes == [run EXCEPT !.at = "scripting"]
  <2>1. Use(changes) /\ Finish
    BY <1>3 DEF WriteOutline
  <2>2. /\ DOMAIN changes = RunFields /\ changes.at = "scripting" /\ changes.kind = run.kind
        /\ changes.gate = run.gate
    BY <1>1
  <2> QED
    BY <1>1, <2>1, <2>2, DialogueTurns
<1>4. CASE WriteScript
  <2> DEFINE changes == [run EXCEPT !.at = "review", !.script = answer.value]
  <2>1. Use(changes) /\ Finish
    BY <1>4 DEF WriteScript
  <2>2. /\ DOMAIN changes = RunFields /\ changes.at = "review" /\ changes.kind = run.kind
        /\ changes.gate = run.gate
    BY <1>1
  <2> QED
    BY <1>1, <2>1, <2>2, DialogueTurns
<1>5. CASE Review
  <2>1. CASE Use([run EXCEPT !.at = "revise", !.verdict = answer.value]) /\ GoOn
    <3> DEFINE changes == [run EXCEPT !.at = "revise", !.verdict = answer.value]
    <3>1. /\ DOMAIN changes = RunFields /\ changes.at = "revise" /\ changes.kind = run.kind
          /\ changes.gate = run.gate
      BY <1>1
    <3> QED
      BY <1>1, <2>1, <3>1, DialogueTurns
  <2>2. CASE Use([run EXCEPT !.at = "metadata", !.verdict = answer.value]) /\ GoOn
    <3> DEFINE changes == [run EXCEPT !.at = "metadata", !.verdict = answer.value]
    <3>1. /\ DOMAIN changes = RunFields /\ changes.at = "metadata" /\ changes.kind = run.kind
          /\ changes.gate = run.gate
      BY <1>1
    <3> QED
      BY <1>1, <2>2, <3>1, DialogueTurns
  <2>3. CASE Use([run EXCEPT !.at = "create_episode", !.file = Checked(NoScript, answer.value)]) /\ Finish
    <3> DEFINE changes == [run EXCEPT !.at = "create_episode", !.file = Checked(NoScript, answer.value)]
    <3>1. /\ DOMAIN changes = RunFields /\ changes.at = "create_episode" /\ changes.kind = run.kind
          /\ changes.gate = run.gate
      BY <1>1
    <3> QED
      BY <1>1, <2>3, <3>1, DialogueTurns
  <2> QED
    BY <1>5, <2>1, <2>2, <2>3 DEF Review
<1>6. CASE Revise
  <2> DEFINE changes == [run EXCEPT !.at = "review", !.script = answer.value, !.revised = TRUE]
  <2>1. Use(changes) /\ GoOn
    BY <1>6 DEF Revise
  <2>2. /\ DOMAIN changes = RunFields /\ changes.at = "review" /\ changes.kind = run.kind
        /\ changes.gate = run.gate
    BY <1>1
  <2> QED
    BY <1>1, <2>1, <2>2, DialogueTurns
<1>7. CASE WriteMetadata
  <2> DEFINE changes == [run EXCEPT !.at = "create_episode", !.file = Checked(answer.value, run.verdict)]
  <2>1. Use(changes) /\ Finish
    BY <1>7 DEF WriteMetadata
  <2>2. /\ DOMAIN changes = RunFields /\ changes.at = "create_episode" /\ changes.kind = run.kind
        /\ changes.gate = run.gate
    BY <1>1
  <2> QED
    BY <1>1, <2>1, <2>2, DialogueTurns
<1> QED
  BY <1>2, <1>3, <1>4, <1>5, <1>6, <1>7 DEF Taking

(* The ways an attempt ends.                                               *)
LEMMA DialogueStarts ==
  ASSUME Dialogue, NEW kind \in Kinds, NEW gate \in Gates, NEW found,
         StartAttempt(kind, gate, found)
  PROVE  Dialogue'
<1>1. /\ run.at = "idle"
      /\ run' = [Idle EXCEPT !.at = "ranking", !.kind = kind, !.gate = gate,
                             !.candidates = BoundedCandidates(found)]
      /\ artifacts' = artifacts /\ call' = call /\ answer' = answer /\ reserved' = 0 /\ usage' = NoUsage
  BY DEF StartAttempt
<1>2. DOMAIN run' = RunFields /\ run'.at = "ranking" /\ run'.kind = kind /\ run'.gate = gate
  BY <1>1, IdleAttempt DEF RunFields
<1>3. Attempt'
  BY <1>2, EditorialConstantsOK DEF Attempt, Stages, TextStages, AskingStages
<1>4. call = NoCall /\ answer = NoAnswer
  BY <1>1, Silent DEF AskingStages
<1> QED
  BY <1>1, <1>3, <1>4, DialogueRests

LEMMA DialogueLoads == Dialogue /\ LoadEvidence => Dialogue'
<1> SUFFICES ASSUME Dialogue, LoadEvidence PROVE Dialogue'
  OBVIOUS
<1>1. /\ run.at = "loading"
      /\ run' = [run EXCEPT !.at = "outlining", !.outlined = BuildDossiers(run.selected)]
      /\ artifacts' = artifacts /\ call' = call /\ answer' = answer /\ reserved' = reserved
      /\ usage' = usage
  BY DEF LoadEvidence, modelVars
<1>2. DOMAIN run = RunFields
  BY DEF Dialogue, Attempt
<1>3. DOMAIN run' = RunFields /\ run'.at = "outlining" /\ run'.kind = run.kind /\ run'.gate = run.gate
  BY <1>1, <1>2 DEF RunFields
<1>4. Attempt'
  BY <1>3 DEF Dialogue, Attempt, Stages, TextStages, AskingStages
<1>5. call = NoCall /\ answer = NoAnswer
  BY <1>1, Silent DEF AskingStages
<1> QED
  BY <1>1, <1>3, <1>4, <1>5, DialogueRests DEF Checking

(* The attempt goes on with the episode alone.                             *)
LEMMA DialogueHandsOver == Dialogue /\ run.at = "create_episode" /\ ToAudio => Dialogue'
<1> SUFFICES ASSUME Dialogue, run.at = "create_episode", ToAudio PROVE Dialogue'
  OBVIOUS
<1>1. /\ run' = [Idle EXCEPT !.at = "generate_audio"] /\ reserved' = 0 /\ usage' = NoUsage
      /\ artifacts' = artifacts /\ call' = call /\ answer' = answer
  BY DEF ToAudio
<1>2. DOMAIN run' = RunFields /\ run'.at = "generate_audio" /\ run'.kind = "generate"
      /\ run'.gate \in BOOLEAN
  BY <1>1, IdleAttempt DEF RunFields
<1>3. Attempt'
  BY <1>2 DEF Attempt, Stages, TextStages, AskingStages, Kinds
<1>4. call = NoCall /\ answer = NoAnswer
  BY Silent DEF AskingStages
<1> QED
  BY <1>1, <1>2, <1>3, <1>4, DialogueRests

LEMMA DialogueSpeaks == Dialogue /\ AudioStep => Dialogue'
<1> SUFFICES ASSUME Dialogue, AudioStep PROVE Dialogue'
  OBVIOUS
<1>1. /\ run.at = "generate_audio" /\ artifacts' = artifacts /\ call' = call /\ answer' = answer
      /\ reserved' = reserved /\ usage' = usage /\ run' \in {run, [run EXCEPT !.at = "publish"], Idle}
  BY DEF AudioStep, modelVars
<1>2. DOMAIN run = RunFields
  BY DEF Dialogue, Attempt
<1>3. call = NoCall /\ answer = NoAnswer
  BY <1>1, Silent DEF AskingStages
<1>4. CASE run' = run
  BY <1>1, <1>3, <1>4, DialogueRests DEF Dialogue, Attempt, Checking
<1>5. CASE run' = [run EXCEPT !.at = "publish"]
  <2>1. DOMAIN run' = RunFields /\ run'.at = "publish" /\ run'.kind = run.kind /\ run'.gate = run.gate
    BY <1>2, <1>5 DEF RunFields
  <2>2. Attempt'
    BY <2>1 DEF Dialogue, Attempt, Stages, TextStages, AskingStages
  <2> QED
    BY <1>1, <1>3, <2>1, <2>2, DialogueRests DEF Checking
<1>6. CASE run' = Idle
  <2>1. Attempt'
    BY <1>6, IdleAttempt DEF Attempt, Stages, TextStages, AskingStages, Kinds
  <2> QED
    BY <1>1, <1>3, <1>6, <2>1, IdleAttempt, DialogueRests DEF Checking
<1> QED
  BY <1>1, <1>4, <1>5, <1>6

(* The actions that end an attempt.                                        *)
Ending ==
  \/ StepFails \/ NoPublishableEvents \/ InsufficientEvidenceError \/ EditorialGateFails
  \/ ReusePublished \/ RefuseRegeneration

(* What a step is to the editorial state.                                  *)
LEMMA EditorialCases ==
  EditorialSteps <=>
    \/ ModelAnswers \/ LoadEvidence \/ Taking \/ Ending \/ Create \/ ReuseEpisode \/ Regenerate
BY DEF EditorialSteps, Taking, Ending

LEMMA Ends ==
  /\ Ending => EndAttempt /\ UNCHANGED <<events, episode>>
  /\ Publish \/ Crash => EndAttempt
BY DEF Ending, StepFails, NoPublishableEvents, InsufficientEvidenceError, EditorialGateFails,
       ReusePublished, RefuseRegeneration, Publish, Crash

LEMMA DialogueNext == Dialogue /\ [Next]_vars => Dialogue'
<1> SUFFICES ASSUME Dialogue, [Next]_vars PROVE Dialogue'
  OBVIOUS
<1>1. CASE Start
  BY <1>1, DialogueStarts DEF Start
<1>2. CASE EditorialStep
  <2>1. CASE ModelAnswers \/ LoadEvidence \/ Taking
    BY <2>1, DialogueAnswers, DialogueLoads, DialogueTakes
  <2>2. CASE Ending
    BY <2>2, Ends, DialogueEnds
  <2>3. CASE Create \/ ReuseEpisode \/ Regenerate
    BY <2>3, DialogueHandsOver DEF Create, ReuseEpisode, Regenerate, AcceptedText
  <2> QED
    BY <1>2, <2>1, <2>2, <2>3, EditorialCases DEF EditorialStep
<1>3. CASE AudioStep
  BY <1>3, DialogueSpeaks
<1>4. CASE Publish \/ Crash
  BY <1>4, Ends, DialogueEnds
<1>5. CASE UNCHANGED <<modelVars, run, usage>>
  BY <1>5 DEF Dialogue, Attempt, Accounts, ArtifactsAreAnswers, RequestIsOfTheStep, AnswerIsOfTheStep,
              NeverAskedTwice, CallsAreAccounted, modelVars, Recorded, RowsOf, Answers, ScoresOf,
              Scripts, Asking, Question, ScoreQuestion, OutlineQuestion, ScriptQuestion,
              ReviewQuestion, RevisionQuestion, MetadataQuestion
<1>6. CASE FileLost
  BY <1>5, <1>6 DEF FileLost
<1>7. CASE UNCHANGED vars
  BY <1>5, <1>7 DEF vars, editorialVars
<1> QED
  BY <1>1, <1>2, <1>3, <1>4, <1>6, <1>7 DEF Next

-----------------------------------------------------------------------------
(* Copy *)

LEMMA CopyInit == Init => Copy
<1> SUFFICES ASSUME Init PROVE Copy
  OBVIOUS
<1>1. run.at = "idle" /\ episode = NoEpisode
  BY IdleAttempt DEF Init, InitEditorial, InitEpisode
<1> QED
  BY <1>1 DEF Copy, TextOfTheAttempt, EditionFits, EpisodeIsSound, AcceptedText, TextStages, AskingStages

(* A review stays on record.                                               *)
LEMMA ReviewsStay ==
  ASSUME artifacts \subseteq artifacts'
  PROVE  /\ \A text : Reviewed(text) => Reviewed(text)'
         /\ \A question, value : Recorded(question, value) => Recorded(question, value)'
<1>1. \A question, value : Recorded(question, value) => Recorded(question, value)'
  BY DEF Recorded
<1>2. ASSUME NEW text, Reviewed(text) PROVE Reviewed(text)'
  BY <1>1, <1>2 DEF Reviewed
<1> QED
  BY <1>1, <1>2

(* An attempt that is not at its text says nothing about it.               *)
LEMMA CopyRests ==
  ASSUME run'.at \in {"idle", "ranking", "loading", "outlining", "scripting", "generate_audio", "publish"},
         EditionFits', EpisodeIsSound'
  PROVE  Copy'
<1>1. TextOfTheAttempt'
  BY DEF TextOfTheAttempt, AcceptedText
<1> QED
  BY <1>1 DEF Copy

LEMMA EpisodeStays ==
  ASSUME Copy, artifacts \subseteq artifacts', episode' = episode
  PROVE  EpisodeIsSound'
<1> SUFFICES ASSUME episode # NoEpisode PROVE EpisodeRow' /\ Reviewed(episode.text)'
  BY DEF EpisodeIsSound
<1>1. EpisodeRow /\ Reviewed(episode.text)
  BY DEF Copy, EpisodeIsSound
<1>2. \A text : Reviewed(text) => Reviewed(text)'
  BY ReviewsStay
<1>3. Reviewed(episode.text)'
  BY <1>1, <1>2 DEF Reviewed, Recorded
<1> QED
  BY <1>1, <1>3 DEF EpisodeRow

(* The answer that waits for its step is on record and fits the question.  *)
LEMMA AnswerFits ==
  ASSUME Dialogue, answer # NoAnswer
  PROVE  answer.value \in Answers(Question) /\ Recorded(Question, answer.value)
BY DEF Dialogue, AnswerIsOfTheStep, Recorded, ArtifactsAreAnswers

LEMMA ScriptsHaveTakes ==
  ASSUME NEW outline, NEW take \in ScriptTakes, NEW script \in Scripts(outline, take)
  PROVE  script.take \in ScriptTakes
BY DEF Scripts, ScriptOf

LEMMA CopyTakes == Dialogue /\ Copy /\ Taking => Copy'
<1> SUFFICES ASSUME Dialogue, Copy, Taking PROVE Copy'
  OBVIOUS
<1>1. /\ DOMAIN run = RunFields /\ run.at \in AskingStages /\ answer # NoAnswer
      /\ artifacts' = artifacts /\ episode' = episode
  BY DEF Dialogue, Attempt, Taking, Rank, WriteOutline, WriteScript, Review, Revise, WriteMetadata, Got,
         Use, AskingStages
<1>2. EpisodeIsSound'
  BY <1>1, EpisodeStays
<1>3. run'.kind = run.kind => EditionFits'
  BY <1>1 DEF Copy, EditionFits, TextStages
<1>4. answer.value \in Answers(Question) /\ Recorded(Question, answer.value)
  BY <1>1, AnswerFits
<1>5. CASE Rank \/ WriteOutline
  <2>1. run'.at \in {"loading", "scripting"} /\ run'.kind = run.kind
    BY <1>1, <1>5 DEF Rank, WriteOutline, Use, RunFields
  <2> QED
    BY <1>2, <1>3, <2>1, CopyRests
<1>6. CASE WriteScript \/ Revise
  <2>1. run'.at = "review" /\ run'.kind = run.kind /\ run'.script = answer.value
    BY <1>1, <1>6 DEF WriteScript, Revise, Use, RunFields
  <2>2. ASSUME run.at = "scripting" PROVE answer.value.take \in ScriptTakes
    <3>1. answer.value \in Scripts(run.outlined, "first")
      BY <1>4, <2>2, Questions, AnswersTo DEF ScriptQuestion
    <3> QED
      BY <3>1, ScriptsHaveTakes DEF ScriptTakes
  <2>3. ASSUME run.at = "revise" PROVE answer.value.take \in ScriptTakes
    <3> DEFINE x == <<run.script, run.verdict>>
    <3>1. Question = <<"revise_script", x>> /\ x[1] = run.script
      BY <2>3, Questions DEF RevisionQuestion
    <3> HIDE DEF x
    <3>2. Answers(Question) = Scripts(x[1].outline, "revised")
      BY <3>1, AnswersTo
    <3> QED
      BY <1>4, <3>2, ScriptsHaveTakes DEF ScriptTakes
  <2>4. answer.value.take \in ScriptTakes
    BY <1>6, <2>2, <2>3 DEF WriteScript, Revise, Got
  <2>5. TextOfTheAttempt'
    BY <2>1, <2>4 DEF TextOfTheAttempt, AcceptedText
  <2> QED
    BY <1>2, <1>3, <2>1, <2>5 DEF Copy
<1>7. CASE Review
  <2> DEFINE verdict == answer.value
  <2>1. run.at = "review" /\ run.script.take \in ScriptTakes
    BY <1>7 DEF Review, Got, Copy, TextOfTheAttempt
  <2>2. Recorded(<<"review_script", run.script>>, verdict)
    BY <1>4, <2>1, Questions DEF ReviewQuestion
  <2>3. CASE Use([run EXCEPT !.at = "revise", !.verdict = verdict])
    <3>1. run'.at = "revise" /\ run'.kind = run.kind /\ run'.script = run.script
      BY <1>1, <2>3 DEF Use, RunFields
    <3>2. TextOfTheAttempt'
      BY <2>1, <3>1 DEF TextOfTheAttempt, AcceptedText
    <3> QED
      BY <1>2, <1>3, <3>1, <3>2 DEF Copy
  <2>4. CASE ~ RequiresHumanReview(verdict) /\ Use([run EXCEPT !.at = "metadata", !.verdict = verdict])
    <3>1. /\ run'.at = "metadata" /\ run'.kind = run.kind /\ run'.script = run.script
          /\ run'.verdict = verdict /\ run'.gate = run.gate
      BY <1>1, <2>4 DEF Use, RunFields
    <3>2. ~ Blocking(run.script) /\ Passes(verdict)
      BY <2>4 DEF RequiresHumanReview
    <3>3. Passes(run.verdict)'
      BY <3>1, <3>2 DEF Passes
    <3>4. Recorded(<<"review_script", run.script>>, run.verdict)'
      BY <1>1, <2>2, <3>1 DEF Recorded
    <3>5. ~ Blocking(run.script)'
      BY <3>1, <3>2 DEF Blocking
    <3>6. TextOfTheAttempt'
      BY <2>1, <3>1, <3>3, <3>4, <3>5 DEF TextOfTheAttempt, AcceptedText
    <3> QED
      BY <1>2, <1>3, <3>1, <3>6 DEF Copy
  <2>5. CASE /\ RequiresHumanReview(verdict)
             /\ Use([run EXCEPT !.at = "create_episode", !.file = Checked(NoScript, verdict)])
    <3>1. /\ run'.at = "create_episode" /\ run'.kind = run.kind /\ run'.file = Checked(NoScript, verdict)
          /\ run'.gate = run.gate
      BY <1>1, <2>5 DEF Use, RunFields
    <3>2. run'.file.script = run.script /\ run'.file.verdict = verdict /\ run'.file.gate = run.gate
      BY <3>1 DEF Checked
    <3>3. ~ AcceptedText'
      BY <2>5, <3>1, <3>2 DEF AcceptedText, RequiresHumanReview, Passes, Blocking
    <3>4. TextOfTheAttempt'
      BY <3>1, <3>2, <3>3 DEF TextOfTheAttempt
    <3> QED
      BY <1>2, <1>3, <3>1, <3>4 DEF Copy
  <2> QED
    BY <1>7, <2>3, <2>4, <2>5 DEF Review
<1>8. CASE WriteMetadata
  <2>1. run.at = "metadata" /\ Use([run EXCEPT !.at = "create_episode", !.file = Checked(answer.value, run.verdict)])
    BY <1>8 DEF WriteMetadata, Got
  <2>2. /\ run'.at = "create_episode" /\ run'.kind = run.kind /\ run'.gate = run.gate
        /\ run'.file = Checked(answer.value, run.verdict)
    BY <1>1, <2>1 DEF Use, RunFields
  <2>3. /\ run'.file.script = run.script /\ run'.file.verdict = run.verdict /\ run'.file.gate = run.gate
        /\ run'.file.metadata = answer.value
    BY <2>2 DEF Checked
  <2>4. Question = <<"generate_metadata", run.script>> /\ answer.value = run.script
    <3>1. Question = <<"generate_metadata", run.script>>
      BY <2>1, Questions DEF MetadataQuestion
    <3>2. Answers(Question) = {run.script}
      BY <3>1, AnswersTo
    <3> QED
      BY <1>4, <3>1, <3>2
  <2>5. /\ ~ Blocking(run.script) /\ Passes(run.verdict) /\ run.script.take \in ScriptTakes
        /\ Recorded(<<"review_script", run.script>>, run.verdict)
    BY <2>1 DEF Copy, TextOfTheAttempt
  <2>6. \E row \in artifacts : row.question = <<"generate_metadata", run.script>>
    BY <1>4, <2>4 DEF Recorded
  <2> DEFINE file == Checked(answer.value, run.verdict)
  <2>7. file.script = run.script /\ file.verdict = run.verdict /\ file.gate = run.gate
        /\ file.metadata = run.script
    BY <2>2, <2>3, <2>4
  <2> HIDE DEF file
  <2>8. Reviewed(file)
    BY <2>5, <2>6, <2>7 DEF Reviewed, Passes, Blocking
  <2>9. Reviewed(run.file)'
    BY <1>1, <2>2, <2>8 DEF Reviewed, Recorded, file
  <2>10. TextOfTheAttempt'
    BY <2>2, <2>3, <2>9 DEF TextOfTheAttempt
  <2> QED
    BY <1>2, <1>3, <2>2, <2>10 DEF Copy
<1> QED
  BY <1>5, <1>6, <1>7, <1>8 DEF Taking

(* create_episode takes over what passed every check, or goes on with what *)
(* an earlier attempt took over.                                           *)
LEMMA CopyCreates == Dialogue /\ Copy /\ (Create \/ ReuseEpisode \/ Regenerate) => Copy'
<1> SUFFICES ASSUME Dialogue, Copy, Create \/ ReuseEpisode \/ Regenerate PROVE Copy'
  OBVIOUS
<1>1. AcceptedText /\ ToAudio /\ run.at = "create_episode"
  BY DEF Create, ReuseEpisode, Regenerate, AcceptedText
<1>2. run' = [Idle EXCEPT !.at = "generate_audio"] /\ artifacts' = artifacts
  BY <1>1 DEF ToAudio
<1>3. run'.at = "generate_audio"
  BY <1>2, IdleAttempt DEF RunFields
<1>4. EditionFits'
  BY <1>3 DEF EditionFits, TextStages, AskingStages
<1>5. Reviewed(run.file)
  BY <1>1 DEF Copy, TextOfTheAttempt
<1>6. ASSUME NEW status \in {"draft", "review_required"}, NEW revision \in Revisions,
             episode' = NewEpisode(status, revision, 0, run.file)
      PROVE  EpisodeIsSound'
  <2>1. /\ DOMAIN episode' = {"status", "revision", "version", "text", "audio"}
        /\ episode'.status = status /\ episode'.revision = revision /\ episode'.text = run.file
    BY <1>6 DEF NewEpisode
  <2>2. EpisodeRow'
    BY <2>1 DEF EpisodeRow, Revisions
  <2>3. Reviewed(episode.text)'
    BY <1>2, <1>5, <2>1 DEF Reviewed, Recorded, Blocking
  <2> QED
    BY <2>2, <2>3 DEF EpisodeIsSound
<1>7. CASE Create
  BY <1>3, <1>4, <1>6, <1>7, CopyRests, SpeechConstantsOK DEF Create, CreateEpisode, Revisions
<1>8. CASE ReuseEpisode
  <2>1. EpisodeIsSound'
    BY <1>2, <1>8, EpisodeStays DEF ReuseEpisode
  <2> QED
    BY <1>3, <1>4, <2>1, CopyRests
<1>9. CASE Regenerate
  <2>1. episode.revision \in Revisions /\ episode.revision < MaxEdition
    BY <1>1, <1>9 DEF Regenerate, Mutable, Copy, EpisodeIsSound, EpisodeRow, EditionFits, TextStages
  <2>2. episode.revision + 1 \in Revisions
    BY <2>1, SpeechConstantsOK DEF Revisions
  <2> QED
    BY <1>3, <1>4, <1>6, <1>9, <2>2, CopyRests DEF Regenerate, RegenerateEpisode
<1> QED
  BY <1>7, <1>8, <1>9

(* Audio and approval change neither the text nor the edition.             *)
LEMMA CopyIsKept ==
  ASSUME Copy, artifacts' = artifacts, run'.at \in {"idle", "generate_audio", "publish"},
         episode # NoEpisode => DOMAIN episode' = DOMAIN episode
           /\ episode'.status \in {"draft", "review_required", "approved", "published"}
           /\ episode'.revision = episode.revision /\ episode'.text = episode.text,
         episode = NoEpisode => episode' = episode
  PROVE  Copy'
<1>1. EditionFits'
  BY DEF EditionFits, TextStages, AskingStages
<1>2. EpisodeIsSound'
  <2> SUFFICES ASSUME episode' # NoEpisode PROVE EpisodeRow' /\ Reviewed(episode.text)'
    BY DEF EpisodeIsSound
  <2>1. EpisodeRow /\ Reviewed(episode.text)
    BY DEF Copy, EpisodeIsSound
  <2> QED
    BY <2>1 DEF EpisodeRow, Reviewed, Recorded
<1> QED
  BY <1>1, <1>2, CopyRests

LEMMA StatusSet ==
  ASSUME Copy, episode # NoEpisode,
         NEW status \in {"draft", "review_required", "approved", "published"}, SetStatus(status)
  PROVE  /\ DOMAIN episode' = DOMAIN episode /\ episode'.status = status
         /\ episode'.revision = episode.revision /\ episode'.text = episode.text
         /\ episode'.audio = episode.audio
BY DEF Copy, EpisodeIsSound, EpisodeRow, SetStatus

LEMMA AudioSet ==
  ASSUME Copy, episode # NoEpisode, NEW audio, SetAudio(audio)
  PROVE  /\ DOMAIN episode' = DOMAIN episode /\ episode'.status = "review_required"
         /\ episode'.revision = episode.revision /\ episode'.text = episode.text
         /\ episode'.audio = audio
BY DEF Copy, EpisodeIsSound, EpisodeRow, SetAudio

(* What the steps of the audio do to the episode.                          *)
LEMMA AudioStepsKeepText ==
  ASSUME Copy, episode # NoEpisode, AudioStep
  PROVE  /\ DOMAIN episode' = DOMAIN episode
         /\ episode'.status \in {"draft", "review_required", "approved", "published"}
         /\ episode'.revision = episode.revision /\ episode'.text = episode.text
<1>1. episode.status \in {"draft", "review_required", "approved", "published"}
  BY DEF Copy, EpisodeIsSound, EpisodeRow
<1>2. CASE BeginAudio
  BY <1>1, <1>2, StatusSet DEF BeginAudio
<1>3. CASE ReuseDraft
  BY <1>3, StatusSet DEF ReuseDraft
<1>4. CASE Finalize
  BY <1>4, AudioSet DEF Finalize
<1>5. CASE episode' = episode
  BY <1>1, <1>5
<1>6. KeepSegment \/ ResetSegment \/ CacheHit \/ MarkSynthesizing \/ WriteCacheFile \/ RecordSegment
      \/ Merge \/ MarkFailed \/ MergeFails => episode' = episode
  BY DEF KeepSegment, ResetSegment, CacheHit, MarkSynthesizing, WriteCacheFile, RecordSegment, Merge,
         MarkFailed, MergeFails
<1> QED
  BY <1>2, <1>3, <1>4, <1>5, <1>6 DEF AudioStep

LEMMA CopyNext ==
  Dialogue /\ Copy /\ (run.at \in {"generate_audio", "publish"} => episode # NoEpisode) /\ [Next]_vars
    => Copy'
<1> SUFFICES ASSUME Dialogue, Copy, run.at \in {"generate_audio", "publish"} => episode # NoEpisode,
                    [Next]_vars
             PROVE  Copy'
  OBVIOUS
<1>1. DOMAIN run = RunFields
  BY DEF Dialogue, Attempt
<1>2. ASSUME EndAttempt, episode' = episode PROVE Copy'
  <2>1. run'.at = "idle" /\ artifacts' = artifacts
    BY <1>2, IdleAttempt DEF EndAttempt
  <2>2. EditionFits' /\ EpisodeIsSound'
    BY <1>2, <2>1, EpisodeStays DEF EditionFits, TextStages, AskingStages
  <2> QED
    BY <2>1, <2>2, CopyRests
<1>3. ASSUME artifacts \subseteq artifacts', run' = run, episode' = episode PROVE Copy'
  <2>1. EpisodeIsSound' /\ EditionFits'
    BY <1>3, EpisodeStays DEF Copy, EditionFits
  <2>2. \A text : Reviewed(text) => Reviewed(text)'
    BY <1>3, ReviewsStay
  <2>3. TextOfTheAttempt'
    BY <1>3, <2>2 DEF Copy, TextOfTheAttempt, AcceptedText, Blocking, Passes, Recorded, Reviewed
  <2> QED
    BY <2>1, <2>3 DEF Copy
<1>4. CASE Start
  <2>1. PICK kind \in Kinds, gate \in Gates, found \in FoundSets :
          /\ kind = "regenerate" => episode # NoEpisode /\ episode.revision < MaxEdition
          /\ StartAttempt(kind, gate, found)
    BY <1>4 DEF Start
  <2>2. /\ run' = [Idle EXCEPT !.at = "ranking", !.kind = kind, !.gate = gate,
                               !.candidates = BoundedCandidates(found)]
        /\ artifacts' = artifacts /\ episode' = episode
    BY <2>1 DEF StartAttempt, modelVars
  <2>3. run'.at = "ranking" /\ run'.kind = kind
    BY <2>2, IdleAttempt DEF RunFields
  <2>4. EditionFits' /\ EpisodeIsSound'
    BY <2>1, <2>2, <2>3, EpisodeStays DEF EditionFits
  <2> QED
    BY <2>3, <2>4, CopyRests
<1>5. CASE EditorialStep
  <2>1. CASE ModelAnswers
    <3>1. artifacts \subseteq artifacts'
      BY <2>1 DEF ModelAnswers, Ask, FallBackToObject, NextProvider, Repair, Retry, Accept
    <3> QED
      BY <1>3, <2>1, <3>1 DEF ModelAnswers, editorialVars
  <2>2. CASE LoadEvidence
    <3>1. /\ run'.at = "outlining" /\ run'.kind = run.kind /\ run.at = "loading"
          /\ artifacts' = artifacts /\ episode' = episode
      BY <1>1, <2>2 DEF LoadEvidence, RunFields, modelVars
    <3>2. EditionFits' /\ EpisodeIsSound'
      BY <3>1, EpisodeStays DEF Copy, EditionFits, TextStages
    <3> QED
      BY <3>1, <3>2, CopyRests
  <2>3. CASE Taking
    BY <2>3, CopyTakes
  <2>4. CASE Ending
    BY <1>2, <2>4, Ends
  <2>5. CASE Create \/ ReuseEpisode \/ Regenerate
    BY <2>5, CopyCreates
  <2> QED
    BY <1>5, <2>1, <2>2, <2>3, <2>4, <2>5, EditorialCases DEF EditorialStep
<1>6. CASE AudioStep
  <2>1. /\ run.at = "generate_audio" /\ artifacts' = artifacts
        /\ run' \in {run, [run EXCEPT !.at = "publish"], Idle}
    BY <1>6 DEF AudioStep, modelVars
  <2>2. run'.at \in {"idle", "generate_audio", "publish"}
    BY <1>1, <2>1, IdleAttempt DEF RunFields
  <2> QED
    BY <1>6, <2>1, <2>2, AudioStepsKeepText, CopyIsKept
<1>7. CASE Publish
  <2>1. EndAttempt /\ run.at = "publish" /\ \E status \in {"published", "approved", "review_required"} : SetStatus(status)
    BY <1>7 DEF Publish
  <2>2. run'.at = "idle" /\ artifacts' = artifacts
    BY <2>1, IdleAttempt DEF EndAttempt
  <2> QED
    BY <2>1, <2>2, StatusSet, CopyIsKept
<1>8. CASE Crash
  BY <1>2, <1>8 DEF Crash
<1>9. CASE FileLost
  BY <1>3, <1>9 DEF FileLost, LoseFile, modelVars
<1>10. CASE UNCHANGED vars
  BY <1>3, <1>10 DEF vars, modelVars, editorialVars
<1> QED
  BY <1>4, <1>5, <1>6, <1>7, <1>8, <1>9, <1>10 DEF Next

-----------------------------------------------------------------------------
(* Sound *)

(* What the sections of an episode's script are.                           *)
LEMMA SectionsAreSpeeches ==
  ASSUME Copy, episode # NoEpisode
  PROVE  /\ Len(Texts) \in Nat /\ Len(Texts) \in 1..MaxSegments /\ DOMAIN Texts = 1..Len(Texts)
         /\ \A i \in DOMAIN Texts : Speech(Texts, i) \in Speeches /\ <<episode.revision, i>> \in Places
<1>1. episode.text.script.take \in ScriptTakes /\ episode.revision \in Revisions
  BY DEF Copy, EpisodeIsSound, Reviewed, EpisodeRow
<1> DEFINE take == episode.text.script.take
<1>2. take \in DOMAIN Sections
  BY <1>1, ProductionConstantsOK
<1>3. Texts \in Seq(ToSet(Texts)) /\ Len(Texts) \in 1..MaxSegments /\ ToSet(Texts) = ToSet(Sections[take])
  BY <1>2, SpeechConstantsOK DEF Texts
<1>4. DOMAIN Texts = 1..Len(Texts) /\ Len(Texts) \in Nat
  BY <1>3
<1>5. ASSUME NEW i \in DOMAIN Texts PROVE Speech(Texts, i) \in Speeches
  <2>1. Texts[i] \in ToSet(Sections[take])
    BY <1>3, <1>5 DEF ToSet
  <2>2. Texts[i] \in UNION {ToSet(Sections[t]) : t \in DOMAIN Sections}
    BY <1>2, <2>1
  <2>3. Pace(Texts, i) \in {"gentle", "normal"}
    BY DEF Pace
  <2> QED
    BY <2>2, <2>3 DEF Speech, Speeches
<1>6. ASSUME NEW i \in DOMAIN Texts PROVE <<episode.revision, i>> \in Places
  BY <1>1, <1>3, <1>4, <1>6, SpeechConstantsOK DEF Places
<1> QED
  BY <1>3, <1>4, <1>5, <1>6

LEMMA SoundInit == Init => Sound
<1> SUFFICES ASSUME Init PROVE Sound
  OBVIOUS
<1>1. /\ segments = [p \in Places |-> NoRow] /\ cache = [k \in Speeches |-> NoAudio]
      /\ draft = [r \in Revisions |-> <<>>] /\ speech = Quiet /\ episode = NoEpisode /\ run.at = "idle"
  BY IdleAttempt DEF Init, InitSpeech, InitEditorial, InitEpisode
<1>2. NoRow.status = "none" /\ NoRow.audio = NoAudio
  BY DEF NoRow
<1>3. FilesAndRows
  <2>1. DOMAIN segments = Places /\ \A p \in Places : segments[p] = NoRow
    BY <1>1
  <2>2. cache \in [Speeches -> Contents \cup {NoAudio}] /\ \A k \in Speeches : cache[k] = NoAudio
    BY <1>1
  <2>3. DOMAIN draft = Revisions /\ \A r \in Revisions : ToSet(draft[r]) = {}
    BY <1>1 DEF ToSet
  <2> QED
    BY <1>2, <2>1, <2>2, <2>3 DEF FilesAndRows, SegmentStatuses
<1>4. SpeechOfTheAttempt
  BY <1>1 DEF SpeechOfTheAttempt, Segmenting, Quiet
<1>5. DraftSpeaksItsScript
  BY <1>1 DEF DraftSpeaksItsScript
<1> QED
  BY <1>3, <1>4, <1>5 DEF Sound

(* Nothing is spoken outside generate_audio.                               *)
LEMMA SoundRests ==
  ASSUME Sound, segments' = segments, draft' = draft, speech'.at = "idle",
         DOMAIN speech' = DOMAIN speech,
         cache' = cache \/ FilesAndRows',
         run'.at # "publish", run'.at = "generate_audio" => episode' # NoEpisode,
         \/ episode' = episode
         \/ episode' # NoEpisode /\ episode'.audio = <<>>
         \/ episode' # NoEpisode /\ episode # NoEpisode
              /\ episode'.audio = episode.audio /\ episode'.text = episode.text
  PROVE  Sound'
<1>1. FilesAndRows'
  BY DEF Sound, FilesAndRows
<1>2. SpeechOfTheAttempt'
  BY DEF Sound, SpeechOfTheAttempt, Segmenting
<1>3. DraftSpeaksItsScript'
  <2>1. CASE episode' = episode
    BY <2>1 DEF Sound, DraftSpeaksItsScript, Texts, Speech, Pace
  <2>2. CASE episode'.audio = <<>>
    BY <2>2 DEF DraftSpeaksItsScript
  <2>3. CASE episode # NoEpisode /\ episode'.audio = episode.audio /\ episode'.text = episode.text
    BY <2>3 DEF Sound, DraftSpeaksItsScript, Texts, Speech, Pace
  <2> QED
    BY <2>1, <2>2, <2>3
<1> QED
  BY <1>1, <1>2, <1>3 DEF Sound

(* While the segments are made only the speech, the rows and the files     *)
(* change.                                                                 *)
LEMMA SoundSpeaks ==
  ASSUME Sound, run.at = "generate_audio", run' = run, episode' = episode,
         FilesAndRows', SpeechOfTheAttempt'
  PROVE  Sound'
<1>1. DraftSpeaksItsScript'
  BY DEF Sound, DraftSpeaksItsScript, Texts, Speech, Pace
<1> QED
  BY <1>1 DEF Sound

(* What a finished section needs stays true while others are worked on.    *)
LEMMA FinishedStays ==
  ASSUME episode' = episode, NEW i,
         segments'[<<episode.revision, i>>] = segments[<<episode.revision, i>>],
         \A k : cache[k] # NoAudio => cache'[k] # NoAudio,
         Finished(i)
  PROVE  Finished(i)'
<1> DEFINE row == segments[<<episode.revision, i>>]
<1>1. row.status = "succeeded" /\ row.key = CacheKey(Texts, i) /\ cache[row.key] # NoAudio
  BY DEF Finished
<1>2. CacheKey(Texts, i)' = CacheKey(Texts, i)
  BY DEF CacheKey, Speech, Pace, Texts
<1> HIDE DEF row
<1>3. row' = row
  BY DEF row
<1>4. row'.status = "succeeded" /\ row'.key = CacheKey(Texts, i)' /\ cache'[row'.key] # NoAudio
  BY <1>1, <1>2, <1>3
<1> QED
  BY <1>4 DEF Finished, row

(* A row may be written in the place of the section at work.               *)
LEMMA RowsAfter ==
  ASSUME FilesAndRows, Place \in Places, NEW row, SetRow(row), cache' = cache, draft' = draft,
         row.status \in SegmentStatuses, row.audio \in Contents \cup {NoAudio},
         row.status = "succeeded" => row.key \in Speeches /\ row.audio \in Contents
  PROVE  /\ FilesAndRows' /\ segments'[Place] = row
         /\ \A p \in Places : p # Place => segments'[p] = segments[p]
<1>1. /\ DOMAIN segments' = Places /\ segments'[Place] = row
      /\ \A p \in Places : p # Place => segments'[p] = segments[p]
  BY DEF SetRow, FilesAndRows
<1>2. \A p \in Places : /\ segments'[p].status \in SegmentStatuses
                        /\ segments'[p].audio \in Contents \cup {NoAudio}
                        /\ segments'[p].status = "succeeded" =>
                             segments'[p].key \in Speeches /\ segments'[p].audio \in Contents
  BY <1>1 DEF FilesAndRows
<1> QED
  BY <1>1, <1>2 DEF FilesAndRows

LEMMA RowsAre ==
  ASSUME NEW status, NEW key, NEW audio
  PROVE  LET row == Row(status, key, audio) IN
         row.status = status /\ row.key = key /\ row.audio = audio
BY DEF Row

(* Where the work on a section stands.                                     *)
LEMMA AtSection ==
  ASSUME Copy, Sound, speech.at \in Segmenting
  PROVE  /\ run.at = "generate_audio" /\ episode # NoEpisode
         /\ speech.index \in DOMAIN Texts /\ speech.index \in Nat \ {0}
         /\ Place \in Places /\ Key \in Speeches /\ Key = Speech(Texts, speech.index)
         /\ \A i \in 1..(speech.index - 1) :
              Finished(i) /\ <<episode.revision, i>> \in Places /\ <<episode.revision, i>> # Place
<1>1. /\ run.at = "generate_audio" /\ episode # NoEpisode /\ speech.index \in DOMAIN Texts
      /\ \A i \in 1..(speech.index - 1) : Finished(i)
  BY DEF Sound, SpeechOfTheAttempt, Segmenting
<1>2. /\ DOMAIN Texts = 1..Len(Texts) /\ Len(Texts) \in Nat
      /\ \A i \in DOMAIN Texts : Speech(Texts, i) \in Speeches /\ <<episode.revision, i>> \in Places
  BY <1>1, SectionsAreSpeeches
<1>3. speech.index \in 1..Len(Texts) /\ \A i \in 1..(speech.index - 1) : i \in DOMAIN Texts /\ i # speech.index
  BY <1>1, <1>2
<1>4. Place \in Places /\ Key \in Speeches /\ Key = Speech(Texts, speech.index)
  BY <1>1, <1>2 DEF Place, Key, CacheKey
<1>5. \A i \in 1..(speech.index - 1) : <<episode.revision, i>> \in Places /\ <<episode.revision, i>> # Place
  BY <1>2, <1>3 DEF Place
<1> QED
  BY <1>1, <1>3, <1>4, <1>5

LEMMA NextSection ==
  ASSUME Copy, Sound, speech.at \in Segmenting, run' = run, episode' = episode, NextSegment,
         \A i \in 1..speech.index : Finished(i)'
  PROVE  SpeechOfTheAttempt'
<1>1. /\ run.at = "generate_audio" /\ episode # NoEpisode
      /\ speech.index \in DOMAIN Texts /\ speech.index \in Nat \ {0}
  BY AtSection
<1>2. DOMAIN Texts = 1..Len(Texts) /\ Len(Texts) \in Nat
  BY <1>1, SectionsAreSpeeches
<1>3. Texts' = Texts
  BY DEF Texts
<1>4. DOMAIN Quiet = {"at", "index", "audio"}
  BY DEF Quiet
<1>5. CASE speech.index = Len(Texts)
  <2>1. speech' = [Quiet EXCEPT !.at = "merge"]
    BY <1>5 DEF NextSegment
  <2>2. DOMAIN speech' = {"at", "index", "audio"} /\ speech'.at = "merge"
    BY <1>4, <2>1
  <2>3. \A i \in DOMAIN Texts' : Finished(i)'
    BY <1>2, <1>3, <1>5
  <2> QED
    BY <1>1, <2>2, <2>3 DEF SpeechOfTheAttempt, Segmenting
<1>6. CASE speech.index # Len(Texts)
  <2>1. speech' = [Quiet EXCEPT !.at = "prepare", !.index = speech.index + 1]
    BY <1>6 DEF NextSegment
  <2>2. DOMAIN speech' = {"at", "index", "audio"} /\ speech'.at = "prepare" /\ speech'.index = speech.index + 1
    BY <1>4, <2>1
  <2>3. speech'.index \in DOMAIN Texts' /\ \A i \in 1..(speech'.index - 1) : Finished(i)'
    BY <1>1, <1>2, <1>3, <1>6, <2>2
  <2> QED
    BY <1>1, <2>2, <2>3 DEF SpeechOfTheAttempt, Segmenting
<1> QED
  BY <1>5, <1>6

(* The work on a section goes on: what lies behind it is not touched.      *)
LEMMA SameSection ==
  ASSUME Copy, Sound, speech.at \in Segmenting, run' = run, episode' = episode,
         DOMAIN speech' = DOMAIN speech, speech'.at \in {"lookup", "synthesize"},
         speech'.index = speech.index, cache' = cache,
         \A p \in Places : p # Place => segments'[p] = segments[p]
  PROVE  SpeechOfTheAttempt'
<1>1. /\ run.at = "generate_audio" /\ episode # NoEpisode /\ speech.index \in DOMAIN Texts
      /\ \A i \in 1..(speech.index - 1) :
           Finished(i) /\ <<episode.revision, i>> \in Places /\ <<episode.revision, i>> # Place
  BY AtSection
<1>2. \A i \in 1..(speech.index - 1) : Finished(i)'
  BY <1>1, FinishedStays
<1>3. Texts' = Texts
  BY DEF Texts
<1> QED
  BY <1>1, <1>2, <1>3 DEF SpeechOfTheAttempt, Segmenting, Sound

(* The section at work is finished with a row of its key whose file exists. *)
LEMMA ThisFinished ==
  ASSUME Copy, Sound, speech.at \in Segmenting, run' = run, episode' = episode,
         \A p \in Places : p # Place => segments'[p] = segments[p],
         cache' = cache,
         segments'[Place].status = "succeeded", segments'[Place].key = Key, cache[Key] # NoAudio
  PROVE  \A i \in 1..speech.index : Finished(i)'
<1>1. /\ speech.index \in Nat \ {0}
      /\ \A i \in 1..(speech.index - 1) :
           Finished(i) /\ <<episode.revision, i>> \in Places /\ <<episode.revision, i>> # Place
  BY AtSection
<1>2. \A i \in 1..(speech.index - 1) : Finished(i)'
  BY <1>1, FinishedStays
<1>3. \A i : i = speech.index => Finished(i)'
  <2> SUFFICES ASSUME NEW i, i = speech.index PROVE Finished(i)'
    OBVIOUS
  <2>1. CacheKey(Texts, i)' = Key
    BY DEF CacheKey, Speech, Pace, Texts, Key
  <2> QED
    BY <2>1 DEF Finished, Place
<1> QED
  BY <1>1, <1>2, <1>3

LEMMA KeepSegmentIsSound ==
  ASSUME Copy, Sound, KeepSegment, run' = run
  PROVE  Sound'
<1>1. /\ speech.at = "prepare" /\ Kept /\ NextSegment /\ segments' = segments /\ cache' = cache
      /\ draft' = draft /\ episode' = episode
  BY DEF KeepSegment
<1>2. speech.at \in Segmenting
  BY <1>1 DEF Segmenting
<1>3. Place \in Places /\ run.at = "generate_audio"
  BY <1>2, AtSection
<1>4. NoAudio \notin Contents /\ segments[Place].status = "succeeded" => segments[Place].audio \in Contents
  BY <1>3, NoAudioIsNoContent DEF Sound, FilesAndRows
<1>5. /\ segments'[Place].status = "succeeded" /\ segments'[Place].key = Key /\ cache[Key] # NoAudio
  BY <1>1, <1>4, NoAudioIsNoContent DEF Kept, Valid
<1>6. FilesAndRows'
  BY <1>1 DEF Sound, FilesAndRows
<1>7. SpeechOfTheAttempt'
  BY <1>1, <1>2, <1>5, ThisFinished, NextSection
<1> QED
  BY <1>1, <1>3, <1>6, <1>7, SoundSpeaks

LEMMA ResetSegmentIsSound ==
  ASSUME Copy, Sound, ResetSegment \/ MarkSynthesizing, run' = run
  PROVE  Sound'
<1>1. PICK status \in {"pending", "synthesizing"} :
        /\ SetRow(Row(status, Key, NoAudio)) /\ cache' = cache /\ draft' = draft /\ episode' = episode
  BY DEF ResetSegment, MarkSynthesizing
<1>2. /\ speech.at \in {"prepare", "lookup"}
      /\ speech' \in {[speech EXCEPT !.at = "lookup"], [speech EXCEPT !.at = "synthesize"]}
  BY DEF ResetSegment, MarkSynthesizing
<1>3. speech.at \in Segmenting /\ DOMAIN speech = {"at", "index", "audio"}
  BY <1>2 DEF Segmenting, Sound, SpeechOfTheAttempt
<1>4. Place \in Places /\ run.at = "generate_audio"
  BY <1>3, AtSection
<1> DEFINE row == Row(status, Key, NoAudio)
<1>5. row.status = status /\ row.audio = NoAudio
  BY RowsAre
<1> HIDE DEF row
<1>6. FilesAndRows' /\ \A p \in Places : p # Place => segments'[p] = segments[p]
  <2>1. SetRow(row)
    BY <1>1 DEF row
  <2>2. FilesAndRows /\ row.status \in SegmentStatuses /\ row.audio \in Contents \cup {NoAudio}
        /\ row.status # "succeeded"
    BY <1>5 DEF Sound, SegmentStatuses
  <2> QED
    BY <1>1, <1>4, <2>1, <2>2, RowsAfter
<1>7. DOMAIN speech' = DOMAIN speech /\ speech'.at \in {"lookup", "synthesize"} /\ speech'.index = speech.index
  BY <1>2, <1>3
<1>8. SpeechOfTheAttempt'
  BY <1>1, <1>3, <1>6, <1>7, SameSection
<1> QED
  BY <1>1, <1>4, <1>6, <1>8, SoundSpeaks

LEMMA CacheHitIsSound ==
  ASSUME Copy, Sound, CacheHit, run' = run
  PROVE  Sound'
<1>1. /\ speech.at = "lookup" /\ NextSegment /\ cache' = cache /\ draft' = draft /\ episode' = episode
  BY DEF CacheHit
<1>2. PICK row \in SucceededRows : Valid(row) /\ SetRow(row)
  BY DEF CacheHit
<1>3. speech.at \in Segmenting
  BY <1>1 DEF Segmenting
<1>4. Place \in Places /\ run.at = "generate_audio"
  BY <1>3, AtSection
<1>5. /\ row.status = "succeeded" /\ row.key = Key /\ cache[Key] = row.audio
      /\ row.key \in Speeches /\ row.audio \in Contents
  BY <1>2 DEF SucceededRows, Valid, Sound, FilesAndRows
<1>6. /\ FilesAndRows' /\ segments'[Place] = row
      /\ \A p \in Places : p # Place => segments'[p] = segments[p]
  BY <1>1, <1>2, <1>4, <1>5, RowsAfter DEF Sound, SegmentStatuses
<1>7. cache[Key] # NoAudio
  BY <1>5, NoAudioIsNoContent
<1>8. SpeechOfTheAttempt'
  BY <1>1, <1>3, <1>5, <1>6, <1>7, ThisFinished, NextSection
<1> QED
  BY <1>1, <1>4, <1>6, <1>8, SoundSpeaks

LEMMA RecordSegmentIsSound ==
  ASSUME Copy, Sound, RecordSegment, run' = run
  PROVE  Sound'
<1> DEFINE row == Row("succeeded", Key, speech.audio)
<1>1. /\ speech.at = "record" /\ SetRow(row) /\ NextSegment
      /\ cache' = cache /\ draft' = draft /\ episode' = episode
  BY DEF RecordSegment
<1>2. speech.at \in Segmenting
  BY <1>1 DEF Segmenting
<1>3. Place \in Places /\ run.at = "generate_audio" /\ Key \in Speeches
  BY <1>2, AtSection
<1>4. speech.audio \in Contents /\ cache[Key] = speech.audio
  BY <1>1 DEF Sound, SpeechOfTheAttempt
<1>5. row.status = "succeeded" /\ row.key = Key /\ row.audio = speech.audio
  BY RowsAre
<1> HIDE DEF row
<1>6. /\ FilesAndRows' /\ segments'[Place] = row
      /\ \A p \in Places : p # Place => segments'[p] = segments[p]
  BY <1>1, <1>3, <1>4, <1>5, RowsAfter DEF Sound, SegmentStatuses
<1>7. cache[Key] # NoAudio
  BY <1>4, NoAudioIsNoContent
<1>8. SpeechOfTheAttempt'
  BY <1>1, <1>2, <1>5, <1>6, <1>7, ThisFinished, NextSection
<1> QED
  BY <1>1, <1>3, <1>6, <1>8, SoundSpeaks

(* Another take of a speech takes the place of its file, never of another. *)
LEMMA WriteCacheFileIsSound ==
  ASSUME Copy, Sound, WriteCacheFile, run' = run
  PROVE  Sound'
<1>1. /\ speech.at = "synthesize" /\ segments' = segments /\ draft' = draft /\ episode' = episode
  BY DEF WriteCacheFile
<1>2. PICK t \in Takes :
        /\ cache' = [cache EXCEPT ![Key] = <<Speech(Texts, speech.index), t>>]
        /\ speech' = [speech EXCEPT !.at = "record", !.audio = cache'[Key]]
  BY DEF WriteCacheFile
<1>3. speech.at \in Segmenting /\ DOMAIN speech = {"at", "index", "audio"}
  BY <1>1 DEF Segmenting, Sound, SpeechOfTheAttempt
<1>4. /\ run.at = "generate_audio" /\ episode # NoEpisode /\ Key \in Speeches
      /\ Key = Speech(Texts, speech.index) /\ speech.index \in DOMAIN Texts
      /\ \A i \in 1..(speech.index - 1) : Finished(i)
  BY <1>3, AtSection
<1> DEFINE content == <<Key, t>>
<1>5. content \in Contents /\ content[1] = Key
  BY <1>4 DEF Contents
<1> HIDE DEF content
<1>6. cache \in [Speeches -> Contents \cup {NoAudio}] /\ cache' = [cache EXCEPT ![Key] = content]
  BY <1>2, <1>4 DEF Sound, FilesAndRows, content
<1>7. /\ cache' \in [Speeches -> Contents \cup {NoAudio}] /\ cache'[Key] = content
      /\ \A k \in Speeches : k # Key => cache'[k] = cache[k]
  BY <1>4, <1>5, <1>6
<1>8. FilesAndRows'
  <2>1. \A k \in Speeches : cache'[k] # NoAudio => cache'[k][1] = k
    BY <1>5, <1>7 DEF Sound, FilesAndRows
  <2> QED
    BY <1>1, <1>7, <2>1 DEF Sound, FilesAndRows
<1>9. content # NoAudio
  BY <1>5, NoAudioIsNoContent
<1>10. DOMAIN speech' = {"at", "index", "audio"} /\ speech'.at = "record" /\ speech'.index = speech.index
       /\ speech'.audio = content
  BY <1>2, <1>3, <1>7
<1>11. Key' = Key /\ Texts' = Texts
  BY <1>1, <1>10 DEF Key, CacheKey, Speech, Pace, Texts
<1>12. \A i \in 1..(speech.index - 1) : Finished(i)'
  <2> SUFFICES ASSUME NEW i \in 1..(speech.index - 1) PROVE Finished(i)'
    OBVIOUS
  <2> DEFINE row == segments[<<episode.revision, i>>]
  <2>1. row.status = "succeeded" /\ row.key = CacheKey(Texts, i) /\ cache[row.key] # NoAudio
    BY <1>4 DEF Finished
  <2>2. /\ DOMAIN Texts = 1..Len(Texts) /\ Len(Texts) \in Nat
        /\ \A j \in DOMAIN Texts : Speech(Texts, j) \in Speeches
    BY <1>4, SectionsAreSpeeches
  <2>3. i \in DOMAIN Texts
    BY <1>4, <2>2
  <2>4. row.key \in Speeches
    BY <2>1, <2>2, <2>3 DEF CacheKey
  <2>5. cache'[row.key] # NoAudio
    BY <1>7, <1>9, <2>1, <2>4
  <2>6. CacheKey(Texts, i)' = CacheKey(Texts, i)
    BY <1>11 DEF CacheKey, Speech, Pace
  <2> QED
    BY <1>1, <2>1, <2>5, <2>6 DEF Finished
<1>13. SpeechOfTheAttempt'
  BY <1>1, <1>4, <1>5, <1>7, <1>10, <1>11, <1>12 DEF SpeechOfTheAttempt, Segmenting
<1> QED
  BY <1>1, <1>4, <1>8, <1>13, SoundSpeaks

(* The end of the synthesis, with or without a draft.                      *)
LEMMA MarkFailedIsSound ==
  ASSUME Copy, Sound, MarkFailed \/ MergeFails, run' = Idle
  PROVE  Sound'
<1>1. run'.at = "idle"
  BY IdleAttempt
<1>2. speech' = Quiet /\ cache' = cache /\ draft' = draft /\ episode' = episode
  BY DEF MarkFailed, MergeFails
<1>3. DOMAIN speech' = {"at", "index", "audio"} /\ speech'.at = "idle"
  BY <1>2 DEF Quiet
<1>4. FilesAndRows'
  <2>1. CASE MarkFailed
    <3> DEFINE row == Row("failed", Key, NoAudio)
    <3>1. speech.at \in Segmenting /\ SetRow(row)
      BY <2>1 DEF MarkFailed, Segmenting
    <3>2. Place \in Places
      BY <3>1, AtSection
    <3>3. row.status = "failed" /\ row.audio = NoAudio
      BY RowsAre
    <3> HIDE DEF row
    <3> QED
      BY <1>2, <3>1, <3>2, <3>3, RowsAfter DEF Sound, SegmentStatuses
  <2>2. CASE MergeFails
    BY <1>2, <2>2 DEF MergeFails, Sound, FilesAndRows
  <2> QED
    BY <2>1, <2>2
<1>5. SpeechOfTheAttempt'
  BY <1>1, <1>3 DEF SpeechOfTheAttempt, Segmenting
<1>6. DraftSpeaksItsScript'
  BY <1>1, <1>2 DEF Sound, DraftSpeaksItsScript, Texts, Speech, Pace
<1> QED
  BY <1>4, <1>5, <1>6 DEF Sound

LEMMA SectionsStand ==
  ASSUME episode'.text = episode.text
  PROVE  Texts' = Texts /\ \A i : Speech(Texts, i)' = Speech(Texts, i)
BY DEF Texts, Speech, Pace

LEMMA BeginAudioIsSound ==
  ASSUME Copy, Sound, BeginAudio, run.at = "generate_audio", run' = run
  PROVE  Sound'
<1>1. episode # NoEpisode
  BY DEF Sound, SpeechOfTheAttempt
<1>2. /\ speech' = [Quiet EXCEPT !.at = "prepare", !.index = 1]
      /\ segments' = segments /\ cache' = cache /\ draft' = draft
      /\ SetStatus(IF episode.status \in {"approved", "review_required"} THEN "draft" ELSE episode.status)
  BY DEF BeginAudio
<1>3. episode.status \in {"draft", "review_required", "approved", "published"}
  BY <1>1 DEF Copy, EpisodeIsSound, EpisodeRow
<1>4. /\ DOMAIN episode' = DOMAIN episode /\ episode'.text = episode.text /\ episode'.audio = episode.audio
  BY <1>1, <1>2, <1>3, StatusSet
<1>5. episode' # NoEpisode
  BY <1>1, <1>4 DEF Copy, EpisodeIsSound, EpisodeRow, NoEpisode
<1>6. Texts' = Texts /\ \A i : Speech(Texts, i)' = Speech(Texts, i)
  BY <1>4, SectionsStand
<1>7. 1 \in DOMAIN Texts
  BY <1>1, SectionsAreSpeeches
<1>8. DOMAIN speech' = {"at", "index", "audio"} /\ speech'.at = "prepare" /\ speech'.index = 1
  BY <1>2 DEF Quiet
<1>9. FilesAndRows'
  BY <1>2 DEF Sound, FilesAndRows
<1>10. SpeechOfTheAttempt'
  BY <1>5, <1>6, <1>7, <1>8 DEF SpeechOfTheAttempt, Segmenting
<1>11. DraftSpeaksItsScript'
  BY <1>1, <1>4, <1>6 DEF Sound, DraftSpeaksItsScript
<1> QED
  BY <1>9, <1>10, <1>11 DEF Sound

LEMMA MergeIsSound ==
  ASSUME Copy, Sound, Merge, run' = run
  PROVE  Sound'
<1> DEFINE joined == [i \in DOMAIN Texts |-> cache[Manifest[i][1]]]
<1>1. /\ speech.at = "merge" /\ draft' = [draft EXCEPT ![episode.revision] = joined]
      /\ speech' = [speech EXCEPT !.at = "finalize"]
      /\ segments' = segments /\ cache' = cache /\ episode' = episode
  BY DEF Merge
<1>2. /\ run.at = "generate_audio" /\ episode # NoEpisode /\ DOMAIN speech = {"at", "index", "audio"}
      /\ \A i \in DOMAIN Texts : Finished(i)
  BY <1>1 DEF Sound, SpeechOfTheAttempt
<1>3. /\ Len(Texts) \in Nat /\ DOMAIN Texts = 1..Len(Texts)
      /\ \A i \in DOMAIN Texts : Speech(Texts, i) \in Speeches
  BY <1>2, SectionsAreSpeeches
<1>4. ASSUME NEW i \in DOMAIN Texts
      PROVE  joined[i] \in Contents /\ joined[i][1] = Speech(Texts, i)
  <2>1. Manifest[i][1] = segments[<<episode.revision, i>>].key
    BY DEF Manifest
  <2>2. Manifest[i][1] = Speech(Texts, i) /\ cache[Manifest[i][1]] # NoAudio
    BY <1>2, <2>1 DEF Finished, CacheKey
  <2> QED
    BY <1>3, <2>2 DEF Sound, FilesAndRows
<1>5. joined \in [1..Len(Texts) -> Contents] /\ DOMAIN joined = 1..Len(Texts)
  BY <1>3, <1>4
<1> HIDE DEF joined
<1>6. Len(joined) = Len(Texts) /\ ToSet(joined) \subseteq Contents
  BY <1>3, <1>5 DEF ToSet
<1>7. episode.revision \in Revisions /\ DOMAIN draft = Revisions
  BY <1>2 DEF Copy, EpisodeIsSound, EpisodeRow, Sound, FilesAndRows
<1>8. draft'[episode.revision] = joined /\ DOMAIN draft' = Revisions
      /\ \A r \in Revisions : r # episode.revision => draft'[r] = draft[r]
  BY <1>1, <1>7
<1>9. FilesAndRows'
  BY <1>1, <1>6, <1>8 DEF Sound, FilesAndRows
<1>10. Texts' = Texts /\ \A i : Speech(Texts, i)' = Speech(Texts, i)
  BY <1>1, SectionsStand
<1>11. DOMAIN speech' = {"at", "index", "audio"} /\ speech'.at = "finalize"
  BY <1>1, <1>2
<1>12. \A i \in DOMAIN Texts' : Finished(i)'
  BY <1>1, <1>2, <1>10, FinishedStays
<1>13. Speaks(draft[episode.revision])'
  BY <1>1, <1>4, <1>6, <1>8, <1>10 DEF Speaks
<1>14. SpeechOfTheAttempt'
  BY <1>1, <1>2, <1>11, <1>12, <1>13 DEF SpeechOfTheAttempt, Segmenting
<1> QED
  BY <1>1, <1>2, <1>9, <1>14, SoundSpeaks

(* What goes to publication was joined from the finished sections.         *)
LEMMA FinalizeIsSound ==
  ASSUME Copy, Sound, ReuseDraft \/ Finalize, DOMAIN run = RunFields,
         run' = [run EXCEPT !.at = "publish"]
  PROVE  Sound'
<1>1. run'.at = "publish"
  BY DEF RunFields
<1>2. segments' = segments /\ cache' = cache /\ draft' = draft /\ speech' = Quiet
  BY DEF ReuseDraft, Finalize
<1>3. episode # NoEpisode
  BY DEF ReuseDraft, Finalize, Sound, SpeechOfTheAttempt
<1>4. /\ DOMAIN episode' = DOMAIN episode /\ episode'.text = episode.text
      /\ episode'.revision = episode.revision
      /\ episode'.audio # <<>> /\ Speaks(episode'.audio.contents)
      /\ draft[episode.revision] = episode'.audio.contents
  <2>1. CASE ReuseDraft
    <3>1. /\ episode.audio # <<>> /\ draft[episode.revision] = episode.audio.contents
          /\ SetStatus("review_required")
      BY <2>1 DEF ReuseDraft, Unchanged
    <3>2. Speaks(episode.audio.contents)
      BY <1>3, <3>1 DEF Sound, DraftSpeaksItsScript, Speaks
    <3> QED
      BY <1>3, <3>1, <3>2, StatusSet
  <2>2. CASE Finalize
    <3> DEFINE audio == [manifest |-> Manifest, contents |-> draft[episode.revision]]
    <3>1. SetAudio(audio) /\ speech.at = "finalize"
      BY <2>2 DEF Finalize
    <3>2. Speaks(draft[episode.revision])
      BY <3>1 DEF Sound, SpeechOfTheAttempt
    <3>3. audio.contents = draft[episode.revision] /\ "contents" \in DOMAIN audio
      OBVIOUS
    <3> HIDE DEF audio
    <3>4. audio # <<>>
      BY <3>3
    <3> QED
      BY <1>3, <3>1, <3>2, <3>3, <3>4, AudioSet
  <2> QED
    BY <2>1, <2>2
<1>5. episode' # NoEpisode
  BY <1>3, <1>4 DEF Copy, EpisodeIsSound, EpisodeRow, NoEpisode
<1>6. Texts' = Texts /\ \A i : Speech(Texts, i)' = Speech(Texts, i)
  BY <1>4, SectionsStand
<1>7. FilesAndRows'
  BY <1>2 DEF Sound, FilesAndRows
<1>8. SpeechOfTheAttempt'
  BY <1>1, <1>2, <1>5 DEF SpeechOfTheAttempt, Segmenting, Quiet
<1>9. DraftSpeaksItsScript'
  BY <1>2, <1>4, <1>6 DEF DraftSpeaksItsScript, Speaks
<1> QED
  BY <1>7, <1>8, <1>9 DEF Sound

LEMMA AudioIsSound == Dialogue /\ Copy /\ Sound /\ AudioStep => Sound'
<1> SUFFICES ASSUME Dialogue, Copy, Sound, AudioStep PROVE Sound'
  OBVIOUS
<1>1. run.at = "generate_audio" /\ DOMAIN run = RunFields
  BY DEF AudioStep, Dialogue, Attempt
<1>2. CASE /\ BeginAudio \/ KeepSegment \/ ResetSegment \/ CacheHit \/ MarkSynthesizing
                \/ WriteCacheFile \/ RecordSegment \/ Merge
           /\ run' = run
  BY <1>1, <1>2, BeginAudioIsSound, KeepSegmentIsSound, ResetSegmentIsSound, CacheHitIsSound,
     WriteCacheFileIsSound, RecordSegmentIsSound, MergeIsSound
<1>3. CASE (ReuseDraft \/ Finalize) /\ run' = [run EXCEPT !.at = "publish"]
  BY <1>1, <1>3, FinalizeIsSound
<1>4. CASE (MarkFailed \/ MergeFails) /\ run' = Idle
  BY <1>4, MarkFailedIsSound
<1> QED
  BY <1>2, <1>3, <1>4 DEF AudioStep

LEMMA SoundNext == Dialogue /\ Copy /\ Sound /\ [Next]_vars => Sound'
<1> SUFFICES ASSUME Dialogue, Copy, Sound, [Next]_vars PROVE Sound'
  OBVIOUS
<1>1. DOMAIN run = RunFields /\ run.at \in Stages
  BY DEF Dialogue, Attempt
<1>2. run.at # "generate_audio" => speech.at = "idle"
  BY DEF Sound, SpeechOfTheAttempt
<1>3. ASSUME UNCHANGED speechVars, run.at # "generate_audio", episode' = episode,
             run'.at \notin {"generate_audio", "publish"}
      PROVE  Sound'
  BY <1>2, <1>3, SoundRests DEF speechVars
<1>4. CASE Start
  <2>1. run.at = "idle" /\ episode' = episode /\ UNCHANGED speechVars /\ run'.at = "ranking"
    BY <1>4, IdleAttempt DEF Start, StartAttempt, RunFields
  <2> QED
    BY <1>3, <2>1
<1>5. CASE EditorialStep
  <2>1. UNCHANGED speechVars
    BY <1>5 DEF EditorialStep
  <2>2. CASE ModelAnswers
    BY <1>3, <2>1, <2>2 DEF ModelAnswers, editorialVars, Asking
  <2>3. CASE LoadEvidence
    <3>1. run.at = "loading" /\ run'.at = "outlining" /\ episode' = episode
      BY <1>1, <2>3 DEF LoadEvidence, RunFields
    <3> QED
      BY <1>3, <2>1, <3>1
  <2>4. CASE Taking
    <3>1. run.at \in AskingStages /\ episode' = episode
      BY <2>4 DEF Taking, Rank, WriteOutline, WriteScript, Review, Revise, WriteMetadata, Got, Use,
                  AskingStages
    <3>2. run'.at \in TextStages
      BY <1>1, <2>4 DEF Taking, Rank, WriteOutline, WriteScript, Review, Revise, WriteMetadata, Use,
                        RunFields, TextStages, AskingStages
    <3> QED
      BY <1>3, <2>1, <3>1, <3>2 DEF TextStages, AskingStages
  <2>5. CASE Ending
    <3>1. run' = Idle /\ episode' = episode
      BY <2>5, Ends DEF EndAttempt
    <3>2. run.at # "generate_audio"
      BY <2>5 DEF Ending, StepFails, Asking, NoPublishableEvents, InsufficientEvidenceError,
                  EditorialGateFails, ReusePublished, RefuseRegeneration, AcceptedText
    <3> QED
      BY <1>3, <2>1, <3>1, <3>2, IdleAttempt
  <2>6. CASE Create \/ ReuseEpisode \/ Regenerate
    <3>1. run.at = "create_episode" /\ run' = [Idle EXCEPT !.at = "generate_audio"]
      BY <2>6 DEF Create, ReuseEpisode, Regenerate, AcceptedText, ToAudio
    <3>2. run'.at = "generate_audio"
      BY <3>1, IdleAttempt DEF RunFields
    <3>3. \/ episode' = episode /\ episode # NoEpisode
          \/ \E status, revision : episode' = NewEpisode(status, revision, 0, run.file)
      BY <2>6 DEF Create, CreateEpisode, ReuseEpisode, Regenerate, RegenerateEpisode, Mutable
    <3>4. ASSUME NEW status, NEW revision, episode' = NewEpisode(status, revision, 0, run.file)
          PROVE  episode' # NoEpisode /\ episode'.audio = <<>>
      <4>1. "audio" \in DOMAIN episode' /\ episode'.audio = <<>>
        BY <3>4 DEF NewEpisode
      <4> QED
        BY <4>1 DEF NoEpisode
    <3>5. episode' # NoEpisode /\ (episode' = episode \/ episode'.audio = <<>>)
      BY <3>3, <3>4
    <3> QED
      BY <1>2, <2>1, <3>1, <3>2, <3>5, SoundRests DEF speechVars
  <2> QED
    BY <1>5, <2>2, <2>3, <2>4, <2>5, <2>6, EditorialCases DEF EditorialStep
<1>6. CASE AudioStep
  BY <1>6, AudioIsSound
<1>7. CASE Publish
  <2>1. /\ run.at = "publish" /\ run' = Idle /\ UNCHANGED speechVars
        /\ \E status \in {"published", "approved", "review_required"} : SetStatus(status)
    BY <1>7 DEF Publish, EndAttempt
  <2>2. episode # NoEpisode
    BY <2>1 DEF Sound, SpeechOfTheAttempt
  <2>3. DOMAIN episode' = DOMAIN episode /\ episode'.text = episode.text /\ episode'.audio = episode.audio
    BY <2>1, <2>2, StatusSet
  <2>4. episode' # NoEpisode
    BY <2>2, <2>3 DEF Copy, EpisodeIsSound, EpisodeRow, NoEpisode
  <2> QED
    BY <1>2, <2>1, <2>2, <2>3, <2>4, IdleAttempt, SoundRests DEF speechVars
<1>8. CASE Crash
  <2>1. /\ run' = Idle /\ speech' = Quiet /\ episode' = episode /\ segments' = segments
        /\ cache' = cache /\ draft' = draft
    BY <1>8 DEF Crash, EndAttempt
  <2>2. DOMAIN speech' = DOMAIN speech /\ speech'.at = "idle"
    BY <2>1 DEF Quiet, Sound, SpeechOfTheAttempt
  <2> QED
    BY <2>1, <2>2, IdleAttempt, SoundRests
<1>9. CASE FileLost
  <2>1. /\ run.at = "idle" /\ run' = run /\ segments' = segments /\ draft' = draft /\ speech' = speech
        /\ episode' = episode
    BY <1>9 DEF FileLost, LoseFile
  <2>2. PICK k \in Speeches : cache' = [cache EXCEPT ![k] = NoAudio]
    BY <1>9 DEF FileLost, LoseFile
  <2>3. cache \in [Speeches -> Contents \cup {NoAudio}]
    BY DEF Sound, FilesAndRows
  <2>4. /\ cache' \in [Speeches -> Contents \cup {NoAudio}] /\ cache'[k] = NoAudio
        /\ \A j \in Speeches : j # k => cache'[j] = cache[j]
    BY <2>2, <2>3
  <2>5. FilesAndRows'
    BY <2>1, <2>4 DEF Sound, FilesAndRows
  <2> QED
    BY <1>2, <2>1, <2>5, SoundRests
<1>10. CASE UNCHANGED vars
  <2>1. UNCHANGED <<segments, cache, draft, speech, episode, run>>
    BY <1>10 DEF vars, speechVars, editorialVars
  <2>2. CASE run.at \in {"generate_audio"}
    <3>1. FilesAndRows'
      BY <2>1 DEF Sound, FilesAndRows
    <3>2. SpeechOfTheAttempt'
      <4>1. \A i : Finished(i) => Finished(i)'
        BY <2>1, FinishedStays
      <4>2. Texts' = Texts /\ (\A i : Speech(Texts, i)' = Speech(Texts, i)) /\ Key' = Key
        BY <2>1 DEF Texts, Speech, Pace, Key, CacheKey
      <4>3. Speaks(draft[episode.revision]) => Speaks(draft[episode.revision])'
        BY <2>1, <4>2 DEF Speaks
      <4> QED
        BY <2>1, <4>1, <4>2, <4>3 DEF Sound, SpeechOfTheAttempt
    <3> QED
      BY <2>1, <2>2, <3>1, <3>2, SoundSpeaks
  <2>3. CASE run.at \notin {"generate_audio", "publish"}
    BY <1>3, <2>1, <2>3 DEF speechVars
  <2>4. CASE run.at = "publish"
    <3>1. FilesAndRows'
      BY <2>1 DEF Sound, FilesAndRows
    <3>2. SpeechOfTheAttempt'
      BY <1>2, <2>1, <2>4 DEF Sound, SpeechOfTheAttempt, Segmenting
    <3>3. DraftSpeaksItsScript'
      BY <2>1, SectionsStand DEF Sound, DraftSpeaksItsScript
    <3> QED
      BY <3>1, <3>2, <3>3 DEF Sound
  <2> QED
    BY <2>2, <2>3, <2>4
<1> QED
  BY <1>4, <1>5, <1>6, <1>7, <1>8, <1>9, <1>10 DEF Next

-----------------------------------------------------------------------------
(* Theorems *)

LEMMA CountersInit == Init => Counters
BY ProductionConstantsOK DEF Init, InitEditorial, Counters, Statuses

LEMMA CountersNext == Counters /\ [Next]_vars => Counters'
<1> SUFFICES ASSUME Counters, [Next]_vars PROVE Counters'
  OBVIOUS
<1>1. attempts' \in 0..MaxAttempts
  BY ProductionConstantsOK
  DEF Counters, Next, Start, EditorialStep, AudioStep, Publish, Crash, FileLost, vars
<1>2. CASE events' = events
  BY <1>1, <1>2 DEF Counters
<1>3. CASE Start
  <2>1. PICK found \in FoundSets :
          events' = [e \in Events |-> IF e \in found THEN "candidate" ELSE events[e]]
    BY <1>3 DEF Start, StartAttempt
  <2> QED
    BY <1>1, <2>1 DEF Counters, Statuses
<1>4. CASE Rank
  <2>1. \E selected : events' = [e \in Events |->
          IF e \in run.candidates THEN IF e \in selected THEN "selected" ELSE "rejected" ELSE events[e]]
    BY <1>4 DEF Rank
  <2> QED
    BY <1>1, <2>1 DEF Counters, Statuses
<1>5. EditorialSteps => Rank \/ events' = events
  BY DEF EditorialSteps, ModelAnswers, editorialVars, StepFails, NoPublishableEvents, LoadEvidence,
         InsufficientEvidenceError, WriteOutline, WriteScript, Review, Revise, WriteMetadata,
         EditorialGateFails, Create, ReuseEpisode, ReusePublished, Regenerate, RefuseRegeneration, ToAudio
<1>6. AudioStep \/ Publish \/ Crash \/ FileLost \/ UNCHANGED vars => events' = events
  BY DEF AudioStep, Publish, Crash, FileLost, vars, editorialVars
<1> QED
  BY <1>2, <1>3, <1>4, <1>5, <1>6 DEF Next, EditorialStep

LEMMA Invariance == Spec => []IInv
<1>1. Init => IInv
  BY DialogueInit, CopyInit, SoundInit, CountersInit DEF IInv
<1>2. IInv /\ [Next]_vars => IInv'
  <2> SUFFICES ASSUME IInv, [Next]_vars PROVE IInv'
    OBVIOUS
  <2>1. Dialogue /\ Copy /\ Sound /\ Counters
    BY DEF IInv
  <2>2. run.at \in {"generate_audio", "publish"} => episode # NoEpisode
    BY <2>1 DEF Sound, SpeechOfTheAttempt
  <2>3. Dialogue' /\ Copy' /\ Sound' /\ Counters'
    BY <2>1, <2>2, DialogueNext, CopyNext, SoundNext, CountersNext
  <2> QED
    BY <2>3 DEF IInv
<1> QED
  BY <1>1, <1>2, PTL DEF Spec

(* Whatever the models answer, wherever attempts crash and whichever file  *)
(* is lost, rows, files, answers and the attempt keep their shapes.        *)
THEOREM TypeCorrect == Spec => []TypeOK
<1>1. IInv => TypeOK
  <2> SUFFICES ASSUME IInv PROVE TypeOK
    OBVIOUS
  <2>1. \A row \in artifacts : DOMAIN row = {"question", "provider", "value"} /\ row.provider \in ToSet(Providers)
    BY DEF IInv, Dialogue, ArtifactsAreAnswers
  <2>2. (call = NoCall \/ call.made \in 1..MaxCalls) /\ (answer = NoAnswer \/ answer.calls \in 0..MaxCalls)
    BY DEF IInv, Dialogue, RequestIsOfTheStep, AnswerIsOfTheStep
  <2>3. reserved \in 0..MaxCalls /\ attempts \in 0..MaxAttempts /\ events \in [Events -> Statuses]
    BY DEF IInv, Dialogue, Accounts, Counters
  <2>4. episode # NoEpisode =>
          /\ episode.status \in {"draft", "review_required", "approved", "published"}
          /\ episode.revision \in Revisions /\ episode.text.script.take \in ScriptTakes
    BY DEF IInv, Copy, EpisodeIsSound, EpisodeRow, Reviewed
  <2>5. FilesAndRows
    BY DEF IInv, Sound
  <2>6. speech.at # "idle" => run.at = "generate_audio" /\ episode # NoEpisode
    BY DEF IInv, Sound, SpeechOfTheAttempt
  <2> QED
    BY <2>1, <2>2, <2>3, <2>4, <2>5, <2>6 DEF TypeOK, FilesAndRows, SegmentStatuses
<1> QED
  BY <1>1, Invariance, PTL

(* A question that any provider answered in any attempt is never asked     *)
(* again, through failovers, repairs, crashes and regenerations.           *)
THEOREM NothingIsAskedTwice == Spec => []NeverAskedTwice
<1>1. IInv => NeverAskedTwice
  BY DEF IInv, Dialogue
<1> QED
  BY <1>1, Invariance, PTL

(* The call count of a run is to the call what its finished steps took     *)
(* from the budget; only a step that is under way, failed or was cut off   *)
(* falls short of it.                                                      *)
THEOREM EveryCallIsCounted == Spec => []CallsAreAccounted
<1>1. IInv => CallsAreAccounted
  BY DEF IInv, Dialogue, Accounts
<1> QED
  BY <1>1, Invariance, PTL

(* No text reaches an episode that was not reviewed as it stands, or that  *)
(* the gate of its attempt would have stopped.                             *)
THEOREM EpisodesAreReviewed == Spec => []EpisodeIsReviewed
<1>1. IInv => EpisodeIsReviewed
  <2> SUFFICES ASSUME IInv, episode # NoEpisode PROVE EpisodeIsReviewed
    BY DEF EpisodeIsReviewed
  <2>1. Reviewed(episode.text)
    BY DEF IInv, Copy, EpisodeIsSound
  <2> QED
    BY <2>1 DEF EpisodeIsReviewed, Reviewed, Recorded
<1> QED
  BY <1>1, Invariance, PTL

(* When the draft is joined, every section has its finished row and its    *)
(* file, whatever state earlier attempts died in.                          *)
THEOREM SectionsAreReady == Spec => []ReadyToMerge
<1>1. IInv => ReadyToMerge
  BY DEF IInv, Sound, SpeechOfTheAttempt, ReadyToMerge, Finished
<1> QED
  BY <1>1, Invariance, PTL

(* The recorded draft speaks the sections of the script in their order,    *)
(* whatever was taken from the cache, and it is what goes to publication.  *)
THEOREM DraftsSpeakTheirScript == Spec => []DraftSpeaksItsScript
<1>1. IInv => DraftSpeaksItsScript
  BY DEF IInv, Sound
<1> QED
  BY <1>1, Invariance, PTL

(* The choices the editorial steps make keep their quotas and the budget,  *)
(* for any events, ranking, sources and excerpts (SelectionProofs).        *)
THEOREM SelectionIsAlwaysBalanced == Spec => []SelectionIsBalanced
<1>1. SelectionIsBalanced
  BY SelectionsKeepTheirBounds DEF SelectionIsBalanced
<1>2. []SelectionIsBalanced
  BY <1>1, PTL
<1> QED
  BY <1>2

===============================================================================
