---------------------------- MODULE BriefingProofs ----------------------------
(***************************************************************************)
(* Theorems about Briefing, for any days, categories, articles, number of  *)
(* attempts, manual runs and crashes.                                      *)
(*                                                                         *)
(* The invariants of the runs are not inductive: whether one more message  *)
(* may go out depends on the files and on where the run is.  IInv adds     *)
(* what a run relies on at each place (Places), how many messages a day    *)
(* has left (Budget), what the chat was told before a marker is written    *)
(* (Told), and that a delivered edition stays (Settled).                   *)
(***************************************************************************)
EXTENDS Briefing, LoopProofs

-----------------------------------------------------------------------------
(* The inductive invariant *)

(* The files say that the edition of the day is out.                       *)
Closed(d) == prepared[d] # NoEdition /\ Delivered(d)

(* What a run relies on where it is.                                       *)
Places ==
  /\ run.kind = "deliver" => run.at \in {"idle", "load", "push", "mark", "report"}
  /\ run.at \in {"collect", "merge"} /\ ~ Fresh => ~ Closed(run.day)
  /\ run.at = "push" => run.left = run.edition.categories /\ (run.force \/ ~ Closed(run.day))
  /\ run.at \in {"push", "mark", "report"} =>
       /\ run.edition = prepared[run.day] /\ run.edition # NoEdition
       /\ run.at # "push" => run.left \subseteq run.edition.categories
                             /\ run.edition.categories \subseteq done[run.day] \cup run.left
  /\ run.at = "report" => run.left = {}
  /\ run.at # "idle" /\ run.force => excuses[run.day] > 0

(* A probe belongs to a preparation tick that has fired.                   *)
Probes == preflight <= 2 * (today - 1) + (IF hour < 2 THEN hour ELSE 2)

(* A run that has got its message out and not yet recorded it ...          *)
Recording(d) == run.at \in {"mark", "report"} /\ run.day = d

Forced(d) == run.at # "idle" /\ run.force /\ run.day = d

(* ... uses the message of the day; otherwise an open day still has it.    *)
Budget ==
  \A d \in Days :
    /\ sent[d] <= 1 + excuses[d]
    /\ ~ Recording(d) /\ (~ Closed(d) \/ Forced(d)) => sent[d] <= excuses[d]

(* The chat hears of a category before its marker is written.              *)
Told ==
  HasWebhook =>
    /\ \A d \in Days : done[d] \subseteq told[d]
    /\ run.at \in {"mark", "report"} => run.edition.categories \subseteq told[run.day]

(* What an undisturbed tick has delivered is not prepared again.           *)
Settled == \A d \in Days : report[d] = "delivered" /\ excuses[d] = 0 => Closed(d)

IInv == TypeOK /\ Places /\ Probes /\ Budget /\ Told /\ Settled /\ NoSilentDelivery

-----------------------------------------------------------------------------
(* Beginning and ending a run *)

(* What a reservation does.                                                *)
LEMMA Reserving ==
  ASSUME TypeOK, NEW kind \in Kinds, NEW force \in BOOLEAN, Reserve(kind, force)
  PROVE  /\ ~ reserved /\ reserved' /\ run.at = "idle" /\ run' \in RunType
         /\ run'.kind = kind /\ run'.force = force /\ run'.day = today /\ today \in Days
         /\ run'.at = IF kind = "deliver" THEN "load" ELSE "begin"
         /\ excuses' \in [Days -> Nat]
         /\ excuses'[today] = excuses[today] + (IF force THEN 1 ELSE 0)
         /\ \A d \in Days : d # today => excuses'[d] = excuses[d]
<1>1. ~ reserved /\ reserved' /\ run.at = "idle" /\ today \in Days
  BY DEF Reserve, TypeOK, RunType
<1>2. /\ run'.kind = kind /\ run'.force = force /\ run'.day = today
      /\ run'.at = IF kind = "deliver" THEN "load" ELSE "begin"
  BY DEF Reserve, Idle
<1>3. Idle \in RunType
  BY BriefingConstantsOK
     DEF Idle, RunType, NoOutcome, Outcomes, NoEdition, EditionType
<1>4. run' \in RunType
  <2> DEFINE at == IF kind = "deliver" THEN "load" ELSE "begin"
  <2>1. run' = [Idle EXCEPT !.kind = kind, !.force = force, !.day = today, !.at = at]
    BY DEF Reserve
  <2>2. at \in {"load", "begin"}  OBVIOUS
  <2> HIDE DEF at
  <2> QED  BY <1>1, <1>3, <2>1, <2>2 DEF RunType
<1>5. /\ excuses' = [excuses EXCEPT ![today] = @ + (IF force THEN 1 ELSE 0)]
      /\ excuses \in [Days -> Nat]
  BY DEF Reserve, Excuse, TypeOK
<1> QED  BY <1>1, <1>2, <1>4, <1>5

(* Nothing but the clock, the process or a probe moves.                    *)
LEMMA QuietKeeps ==
  ASSUME IInv, UNCHANGED <<files, outside, run, report, excuses>>
  PROVE  Places' /\ Budget' /\ Told' /\ Settled' /\ NoSilentDelivery'
<1> USE DEF IInv, files, outside, Closed, Delivered, Recording, Forced
<1>1. Places'  BY DEF Places, Fresh
<1>2. Budget' /\ Told'  BY DEF Budget, Told
<1>3. Settled' /\ NoSilentDelivery'  BY DEF Settled, NoSilentDelivery
<1> QED  BY <1>1, <1>2, <1>3

(* A forced run brings the excuse for its message with it.                 *)
LEMMA ReserveKeeps ==
  ASSUME IInv, NEW kind \in Kinds, NEW force \in BOOLEAN, Reserve(kind, force),
         UNCHANGED <<files, outside, report>>
  PROVE  Places' /\ Budget' /\ Told' /\ Settled' /\ NoSilentDelivery'
<1>0. TypeOK  BY DEF IInv
<1>1. /\ run.at = "idle" /\ run'.kind = kind /\ run'.force = force /\ run'.day = today
      /\ today \in Days
      /\ run'.at \in {"load", "begin"} /\ (kind = "deliver" => run'.at = "load")
      /\ excuses'[today] = excuses[today] + (IF force THEN 1 ELSE 0)
      /\ \A d \in Days : d # today => excuses'[d] = excuses[d]
  BY <1>0, Reserving
<1>2. \A d \in Days : excuses[d] \in Nat /\ sent[d] \in Nat
  BY <1>0 DEF TypeOK
<1>3. /\ \A d \in Days : excuses'[d] = excuses[d] \/ excuses'[d] = excuses[d] + 1
      /\ force => excuses'[today] = excuses[today] + 1
      /\ UNCHANGED <<prepared, done, sent, told, alerted, report>>
  <2>1. UNCHANGED <<prepared, done, sent, told, alerted, report>>  BY DEF files, outside
  <2>2. excuses'[today] \in {excuses[today], excuses[today] + 1}  BY <1>1, <1>2
  <2>3. force => excuses'[today] = excuses[today] + 1  BY <1>1
  <2> QED  BY <1>1, <2>1, <2>2, <2>3
<1>4. Places'  BY <1>1, <1>2, <1>3 DEF Places, Fresh
<1>5. Budget'
  <2> SUFFICES ASSUME NEW d \in Days
               PROVE  /\ sent'[d] <= 1 + excuses'[d]
                      /\ ~ Recording(d)' /\ (~ Closed(d)' \/ Forced(d)') => sent'[d] <= excuses'[d]
    BY DEF Budget
  <2>1. sent[d] <= 1 + excuses[d] /\ (~ Closed(d) => sent[d] <= excuses[d])
    BY <1>1 DEF IInv, Budget, Recording
  <2>2. Closed(d)' = Closed(d)  BY <1>3 DEF Closed, Delivered
  <2>3. Forced(d)' => excuses'[d] = excuses[d] + 1  BY <1>1, <1>3 DEF Forced
  <2> QED  BY <1>2, <1>3, <2>1, <2>2, <2>3
<1>6. Told'  BY <1>1, <1>3 DEF IInv, Told
<1>7. Settled'
  BY <1>2, <1>3 DEF IInv, Settled, Closed, Delivered
<1>8. NoSilentDelivery'
  BY <1>2, <1>3 DEF IInv, NoSilentDelivery
<1> QED  BY <1>4, <1>5, <1>6, <1>7, <1>8

(* What the end of a run does.                                             *)
LEMMA Ending ==
  ASSUME TypeOK, NEW how, Ends(how)
  PROVE  /\ ~ reserved' /\ run' \in RunType /\ run'.at = "idle" /\ run'.kind = "none"
         /\ run'.force = FALSE
         /\ run.kind # "deliver" => report' = report
         /\ run.kind = "deliver" => report' = [report EXCEPT ![run.day] = how]
<1>1. Idle \in RunType
  BY BriefingConstantsOK
     DEF Idle, RunType, NoOutcome, Outcomes, NoEdition, EditionType
<1>2. run' = Idle /\ ~ reserved'  BY DEF Ends, Release
<1>3. Idle.at = "idle" /\ Idle.kind = "none" /\ Idle.force = FALSE  BY DEF Idle
<1> QED  BY <1>1, <1>2, <1>3 DEF Ends

(* A run may end if the day's messages still add up without it, and if a   *)
(* delivery tick leaves the chat told or the operator alerted.             *)
LEMMA EndKeeps ==
  ASSUME IInv, run' = Idle, UNCHANGED files,
         \A d \in Days : /\ excuses'[d] \in Nat /\ excuses'[d] >= excuses[d]
                         /\ told[d] \subseteq told'[d] /\ alerted[d] \subseteq alerted'[d]
                         /\ sent'[d] <= 1 + excuses'[d]
                         /\ ~ Closed(d) => sent'[d] <= excuses'[d],
         \A d \in Days :
           \/ report'[d] = report[d]
           \/ /\ report'[d] \in {"skipped", "delivered"} /\ HasWebhook => told'[d] # {}
              /\ report'[d] \in {"unprepared", "failed", "raised"} => alerted'[d] # {}
              /\ report'[d] = "delivered" =>
                   Closed(d) /\ (prepared[d].errors # {} => "degraded" \in alerted'[d])
  PROVE  Places' /\ Budget' /\ Told' /\ Settled' /\ NoSilentDelivery'
<1>0. run'.at = "idle" /\ run'.kind = "none" /\ run'.force = FALSE  BY DEF Idle
<1>1. UNCHANGED <<prepared, done>> /\ \A d \in Days : Closed(d)' = Closed(d) /\ excuses[d] \in Nat
  BY DEF files, Closed, Delivered, IInv, TypeOK
<1>2. Places'  BY <1>0 DEF Places, Fresh
<1>3. Budget'  BY <1>0, <1>1 DEF Budget, Forced
<1>4. Told'  BY <1>0, <1>1 DEF IInv, Told
<1>5. \A d \in Days : excuses'[d] = 0 => excuses[d] = 0  BY <1>1
<1>6. Settled'  BY <1>1, <1>5 DEF IInv, Settled
<1>7. NoSilentDelivery'
  <2> SUFFICES ASSUME NEW d \in Days
               PROVE  /\ report'[d] \in {"skipped", "delivered"} /\ HasWebhook => told'[d] # {}
                      /\ report'[d] \in {"unprepared", "failed", "raised"} => alerted'[d] # {}
                      /\ report'[d] = "delivered" /\ prepared'[d].errors # {} /\ excuses'[d] = 0 =>
                           "degraded" \in alerted'[d]
    BY DEF NoSilentDelivery
  <2>1. CASE report'[d] = report[d]
    BY <1>1, <1>5, <2>1 DEF IInv, NoSilentDelivery
  <2>2. CASE report'[d] # report[d]  BY <1>1, <2>2
  <2> QED  BY <2>1, <2>2
<1> QED  BY <1>2, <1>3, <1>4, <1>6, <1>7

-----------------------------------------------------------------------------
(* The clock, the ticks and the routes *)

(* The days are numbered from 1.                                           *)
LEMMA DayNumbers ==
  /\ Cardinality(Days) \in Nat /\ Days = 1 .. Cardinality(Days)
  /\ \A d \in Days : d \in Nat /\ d > 0
  BY BriefingConstantsOK, FS_CardinalityType

(* A preparation tick fires, whether or not anybody is up to hear it.      *)
LEMMA PrepareTickKeeps ==
  ASSUME IInv, PrepareTick
  PROVE  IInv'
<1>1. Places' /\ Budget' /\ Told' /\ Settled' /\ NoSilentDelivery'
  BY QuietKeeps DEF PrepareTick
<1>2. preflight' <= preflight + 1 /\ preflight' \in Nat /\ hour \in 0 .. 1
  BY DayNumbers DEF PrepareTick, IInv, TypeOK
<1>3. hour' = hour + 1 /\ today' = today /\ today \in Nat /\ today > 0
  BY DayNumbers DEF PrepareTick, IInv, TypeOK
<1>4. Probes'
  <2>1. preflight <= 2 * (today - 1) + hour  BY <1>2 DEF IInv, Probes
  <2>2. preflight' <= 2 * (today - 1) + (hour + 1)
    BY <1>2, <1>3, <2>1, DayNumbers DEF IInv, TypeOK
  <2> QED  BY <1>2, <1>3, <2>2 DEF Probes
<1>5. TypeOK'
  <2>1. preflight' \in 0 .. 2 * Cardinality(Days)
    BY <1>2, <1>3, <1>4, DayNumbers DEF Probes, IInv, TypeOK
  <2>2. UNCHANGED <<prepared, done, sent, told, alerted, up, reserved, run, report, today,
                    excuses, manual, crashes>>
    BY DEF PrepareTick, files, outside, bounds
  <2>3. hour' \in 0 .. 3  BY <1>2, <1>3
  <2> QED  BY <2>1, <2>2, <2>3 DEF IInv, TypeOK
<1> QED  BY <1>1, <1>4, <1>5 DEF IInv

(* A preparation gets the slot or finds it taken.                          *)
LEMMA StartPrepareKeeps ==
  ASSUME IInv, StartPrepare
  PROVE  IInv'
<1>0. /\ UNCHANGED <<prepared, done, sent, told, alerted, up, report, today, hour, manual, crashes>>
      /\ UNCHANGED files /\ UNCHANGED outside /\ up
      /\ preflight > 0 /\ preflight' = preflight - 1
      /\ preflight \in 0 .. 2 * Cardinality(Days) /\ today \in Days
  BY DEF StartPrepare, files, outside, clock, bounds, IInv, TypeOK
<1>1. Probes' /\ preflight' \in 0 .. 2 * Cardinality(Days)
  <2>1. preflight' \in 0 .. 2 * Cardinality(Days) /\ preflight' <= preflight
    BY <1>0, DayNumbers
  <2>2. hour \in 0 .. 3 /\ today \in Nat  BY DayNumbers DEF IInv, TypeOK
  <2> QED  BY <1>0, <2>1, <2>2 DEF Probes, IInv
<1>2. CASE Reserve("prepare", FALSE)
  <2>1. TypeOK'
    BY <1>0, <1>1, <1>2, Reserving DEF IInv, TypeOK, Kinds
  <2> QED  BY <1>0, <1>1, <1>2, <2>1, ReserveKeeps DEF IInv, Kinds
<1>3. CASE UNCHANGED <<reserved, run, excuses>>
  <2>1. TypeOK'  BY <1>0, <1>1, <1>3 DEF IInv, TypeOK
  <2> QED  BY <1>0, <1>1, <1>3, <2>1, QuietKeeps DEF IInv
<1> QED  BY <1>2, <1>3 DEF StartPrepare

(* The delivery tick gets the slot or is lost.                             *)
LEMMA DeliverTickKeeps ==
  ASSUME IInv, DeliverTick
  PROVE  IInv'
<1>0. /\ UNCHANGED <<prepared, done, sent, told, alerted, up, preflight, report, today, manual,
                     crashes>>
      /\ UNCHANGED files /\ UNCHANGED outside
      /\ hour = 2 /\ hour' = 3
  BY DEF DeliverTick, files, outside, bounds
<1>1. Probes'  BY <1>0 DEF Probes, IInv
<1>2. CASE up /\ Reserve("deliver", FALSE)
  <2>1. TypeOK'
    <3>1. /\ reserved' /\ run' \in RunType /\ run'.at = "load" /\ run'.day \in Days
          /\ excuses' \in [Days -> Nat] /\ up'
      BY <1>0, <1>2, Reserving DEF IInv, Kinds
    <3> QED  BY <1>0, <3>1 DEF IInv, TypeOK
  <2> QED  BY <1>0, <1>1, <1>2, <2>1, ReserveKeeps DEF IInv, Kinds
<1>3. CASE UNCHANGED <<reserved, run, excuses>>
  <2>1. TypeOK'  BY <1>0, <1>3 DEF IInv, TypeOK
  <2> QED  BY <1>0, <1>1, <1>3, <2>1, QuietKeeps DEF IInv
<1> QED  BY <1>2, <1>3 DEF DeliverTick

(* A new day has its own two probes.                                       *)
LEMMA MidnightKeeps ==
  ASSUME IInv, Midnight
  PROVE  IInv'
<1>0. /\ UNCHANGED <<prepared, done, sent, told, alerted, up, reserved, run, preflight, report,
                     excuses, manual, crashes>>
      /\ today' = today + 1 /\ today' \in Days /\ hour' = 0
  BY DEF Midnight, files, outside, bounds
<1>1. Places' /\ Budget' /\ Told' /\ Settled' /\ NoSilentDelivery'
  BY <1>0, QuietKeeps DEF Midnight
<1>2. Probes'
  <2>1. /\ preflight \in Nat /\ today \in Nat /\ preflight <= 2 * (today - 1) + 2
    <3>1. preflight \in Nat /\ today \in Nat /\ today > 0 /\ hour \in 0 .. 3
      BY DayNumbers DEF IInv, TypeOK
    <3> QED  BY <3>1 DEF IInv, Probes
  <2> QED  BY <1>0, <2>1 DEF Probes
<1>3. TypeOK'  BY <1>0 DEF IInv, TypeOK
<1> QED  BY <1>1, <1>2, <1>3 DEF IInv

(* A route starts a run, forced or not, or a rehearsal.                    *)
LEMMA TriggerKeeps ==
  ASSUME IInv, Trigger
  PROVE  IInv'
<1>0. /\ UNCHANGED <<prepared, done, sent, told, alerted, up, preflight, report, today, hour,
                     crashes>>
      /\ UNCHANGED files /\ UNCHANGED outside /\ up
      /\ manual' = manual + 1 /\ manual' \in 0 .. MaxManual
  BY BriefingConstantsOK DEF Trigger, files, outside, clock, IInv, TypeOK
<1>1. Probes'  BY <1>0 DEF Probes, IInv
<1>2. PICK kind \in Kinds, force \in BOOLEAN : Reserve(kind, force)
  BY DEF Trigger, Kinds
<1>3. TypeOK'
  BY <1>0, <1>2, Reserving DEF IInv, TypeOK
<1> QED  BY <1>0, <1>1, <1>2, <1>3, ReserveKeeps DEF IInv

(* A booted process starts without a run.                                  *)
LEMMA BootKeeps ==
  ASSUME IInv, Boot
  PROVE  IInv'
<1>1. Places' /\ Budget' /\ Told' /\ Settled' /\ NoSilentDelivery'  BY QuietKeeps DEF Boot
<1>2. TypeOK' /\ Probes'
  BY DEF Boot, files, outside, clock, bounds, IInv, TypeOK, Probes
<1> QED  BY <1>1, <1>2 DEF IInv

-----------------------------------------------------------------------------
(* The run *)

(* What a run is made of while it holds the slot.                          *)
LEMMA RunFacts ==
  ASSUME IInv, run.at # "idle"
  PROVE  /\ up /\ reserved /\ run.day \in Days /\ run \in RunType
         /\ run.kind \in Kinds \cup {"none"} /\ run.force \in BOOLEAN
         /\ run.edition \in EditionType /\ run.left \subseteq Categories
         /\ prepared[run.day] \in EditionType /\ done[run.day] \subseteq Categories
         /\ \A d \in Days : /\ sent[d] \in Nat /\ excuses[d] \in Nat
                            /\ sent[d] <= 1 + excuses[d]
  BY DEF IInv, TypeOK, RunType, Budget

(* Types are kept by a step of the run that goes on ...                    *)
LEMMA MoveTypes ==
  ASSUME IInv, run.at # "idle", run' \in RunType, run'.day = run.day, run'.at # "idle",
         run'.at = "mark" => run'.left # {},
         prepared' \in [Days -> EditionType],
         \A d \in Days : prepared'[d].categories = {} => prepared'[d] = NoEdition,
         done' \in [Days -> SUBSET Categories],
         sent' \in [Days -> Nat], told' \in [Days -> SUBSET Categories],
         alerted' \in [Days -> SUBSET Stages], excuses' \in [Days -> Nat],
         UNCHANGED <<up, reserved, preflight, report, clock, bounds>>
  PROVE  TypeOK' /\ Probes'
  BY RunFacts DEF IInv, TypeOK, clock, bounds, Probes

(* ... and by one that ends it.                                            *)
LEMMA EndTypes ==
  ASSUME IInv, run.at # "idle",
         NEW how \in {"kept", "made", "raised", "unprepared", "skipped", "failed", "delivered"},
         Ends(how),
         prepared' \in [Days -> EditionType],
         \A d \in Days : prepared'[d].categories = {} => prepared'[d] = NoEdition,
         sent' \in [Days -> Nat], told' \in [Days -> SUBSET Categories],
         alerted' \in [Days -> SUBSET Stages], excuses' \in [Days -> Nat],
         UNCHANGED <<done, up, preflight, clock, bounds>>
  PROVE  TypeOK' /\ Probes'
<1>1. /\ ~ reserved' /\ run' \in RunType /\ run'.at = "idle"
      /\ \/ report' = report
         \/ report' = [report EXCEPT ![run.day] = how]
  BY Ending DEF IInv, Ends
<1>2. report' \in [Days -> {"none", "kept", "made", "raised", "unprepared", "skipped", "failed",
                            "delivered"}]
  BY <1>1 DEF IInv, TypeOK
<1> QED  BY <1>1, <1>2 DEF IInv, TypeOK, clock, bounds, Probes

(* An alert is added to those of the day.                                  *)
LEMMA Alerting ==
  ASSUME IInv, NEW d \in Days, NEW stages \in SUBSET Stages, Alert(d, stages)
  PROVE  /\ alerted' \in [Days -> SUBSET Stages]
         /\ \A e \in Days : alerted[e] \subseteq alerted'[e]
         /\ stages \subseteq alerted'[d]
  BY DEF Alert, IInv, TypeOK

(* A preparation is left at what is on disk, or begins.                    *)
LEMMA BeginPrepareKeeps ==
  ASSUME IInv, BeginPrepare
  PROVE  IInv'
<1>0. /\ run.at = "begin" /\ run.at # "idle"
      /\ UNCHANGED files /\ UNCHANGED outside
      /\ UNCHANGED <<prepared, done, sent, told, alerted, up, preflight, clock, excuses, bounds>>
      /\ run.kind # "deliver"
  BY DEF BeginPrepare, files, outside, IInv, Places
<1>1. /\ prepared \in [Days -> EditionType] /\ done \in [Days -> SUBSET Categories]
      /\ \A d \in Days : prepared[d].categories = {} => prepared[d] = NoEdition
      /\ sent \in [Days -> Nat] /\ told \in [Days -> SUBSET Categories]
      /\ alerted \in [Days -> SUBSET Stages] /\ excuses \in [Days -> Nat]
  BY DEF IInv, TypeOK
<1>2. CASE Ends("kept")
  <2>1. TypeOK' /\ Probes'  BY <1>0, <1>2, <1>1, EndTypes
  <2>2. run' = Idle /\ report' = report  BY <1>0, <1>2 DEF Ends, Release
  <2>3. \A d \in Days : /\ excuses[d] >= excuses[d] /\ sent[d] <= 1 + excuses[d]
                        /\ ~ Closed(d) => sent[d] <= excuses[d]
    BY <1>0, <1>1 DEF IInv, Budget, Recording
  <2>4. Places' /\ Budget' /\ Told' /\ Settled' /\ NoSilentDelivery'
    BY <1>0, <1>1, <2>2, <2>3, EndKeeps
  <2> QED  BY <2>1, <2>4 DEF IInv
<1>3. CASE \E at \in {"load", "collect"} :
             /\ run' = [run EXCEPT !.at = at] /\ UNCHANGED <<reserved, report>>
             /\ at = "collect" => ~ Keeps(run.day)
  <2> PICK at \in {"load", "collect"} :
        /\ run' = [run EXCEPT !.at = at] /\ UNCHANGED <<reserved, report>>
        /\ at = "collect" => ~ Keeps(run.day)
    BY <1>3
  <2>1. /\ run' \in RunType /\ run'.at = at /\ run'.day = run.day
        /\ run'.force = run.force /\ run'.kind = run.kind
    BY <1>0, RunFacts DEF RunType
  <2>2. TypeOK' /\ Probes'  BY <1>0, <1>1, <2>1, MoveTypes
  <2>3. Fresh' = Fresh /\ \A d \in Days : Closed(d)' = Closed(d)
    BY <1>0, <2>1 DEF Fresh, Closed, Delivered
  <2>4. Places'
    <3>1. at = "collect" /\ ~ Fresh => ~ Closed(run.day)  BY DEF Keeps, Closed
    <3> QED  BY <1>0, <2>1, <2>3, <3>1 DEF IInv, Places, Fresh, Closed, Delivered
  <2>5. Budget'
    BY <1>0, <2>1, <2>3 DEF IInv, Budget, Recording, Forced
  <2>6. Told' /\ Settled' /\ NoSilentDelivery'
    BY <1>0, <2>1, <2>3 DEF IInv, Told, Settled, NoSilentDelivery
  <2> QED  BY <2>2, <2>4, <2>5, <2>6 DEF IInv
<1> QED  BY <1>2, <1>3 DEF BeginPrepare

(* The articles are collected while the files stay as they are.            *)
LEMMA CollectKeeps ==
  ASSUME IInv, Collect
  PROVE  IInv'
<1>0. /\ run.at = "collect"
      /\ UNCHANGED files /\ UNCHANGED outside
      /\ UNCHANGED <<prepared, done, sent, told, alerted, up, reserved, preflight, report,
                     clock, excuses, bounds>>
  BY DEF Collect, files, outside
<1>1. /\ prepared \in [Days -> EditionType] /\ done \in [Days -> SUBSET Categories]
      /\ \A d \in Days : prepared[d].categories = {} => prepared[d] = NoEdition
      /\ sent \in [Days -> Nat] /\ told \in [Days -> SUBSET Categories]
      /\ alerted \in [Days -> SUBSET Stages] /\ excuses \in [Days -> Nat]
  BY DEF IInv, TypeOK
<1>2. PICK outcome \in Generated :
        run' = [run EXCEPT !.at = "merge",
                           !.outcome = [c \in Categories |-> IF ~ Fresh /\ c \in done[run.day]
                                                             THEN "completed" ELSE outcome[c]]]
  BY DEF Collect
<1>3. outcome \in [Categories -> Outcomes]  BY DEF Generated
<1>4. [c \in Categories |-> IF ~ Fresh /\ c \in done[run.day] THEN "completed" ELSE outcome[c]]
        \in [Categories -> Outcomes]
  BY <1>3 DEF Outcomes
<1>5. /\ run' \in RunType /\ run'.at = "merge" /\ run'.day = run.day
      /\ run'.force = run.force /\ run'.kind = run.kind
  BY <1>0, <1>2, <1>4, RunFacts DEF RunType
<1>6. TypeOK' /\ Probes'  BY <1>0, <1>1, <1>5, MoveTypes
<1>7. Fresh' = Fresh /\ \A d \in Days : Closed(d)' = Closed(d)
  BY <1>0, <1>5 DEF Fresh, Closed, Delivered
<1>8. Places'  BY <1>0, <1>5 DEF IInv, Places, Fresh, Closed, Delivered
<1>9. Budget'  BY <1>0, <1>5, <1>7 DEF IInv, Budget, Recording, Forced
<1>10. Told' /\ Settled' /\ NoSilentDelivery'
  BY <1>0, <1>5, <1>7 DEF IInv, Told, Settled, NoSilentDelivery
<1> QED  BY <1>6, <1>8, <1>9, <1>10 DEF IInv

(* A preparation that raises leaves what is on disk.                       *)
LEMMA PrepareFailsKeeps ==
  ASSUME IInv, PrepareFails
  PROVE  IInv'
<1>0. /\ run.at \in {"collect", "merge"} /\ run.kind # "deliver"
      /\ UNCHANGED files
      /\ UNCHANGED <<prepared, done, sent, told, up, preflight, clock, excuses, bounds>>
      /\ Ends("raised")
  BY DEF PrepareFails, files, IInv, Places
<1>1. /\ prepared \in [Days -> EditionType] /\ done \in [Days -> SUBSET Categories]
      /\ \A d \in Days : prepared[d].categories = {} => prepared[d] = NoEdition
      /\ sent \in [Days -> Nat] /\ told \in [Days -> SUBSET Categories]
      /\ excuses \in [Days -> Nat]
  BY DEF IInv, TypeOK
<1>2. /\ alerted' \in [Days -> SUBSET Stages]
      /\ \A e \in Days : alerted[e] \subseteq alerted'[e]
  BY <1>0, RunFacts, Alerting DEF PrepareFails, AlertIf, Stages
<1>3. TypeOK' /\ Probes'  BY <1>0, <1>2, <1>1, EndTypes
<1>4. run' = Idle /\ report' = report  BY <1>0 DEF Ends, Release
<1>5. \A d \in Days : /\ excuses[d] >= excuses[d] /\ sent[d] <= 1 + excuses[d]
                      /\ ~ Closed(d) => sent[d] <= excuses[d]
  BY <1>0, <1>1 DEF IInv, Budget, Recording
<1>6. Places' /\ Budget' /\ Told' /\ Settled' /\ NoSilentDelivery'
  BY <1>0, <1>2, <1>1, <1>4, <1>5, EndKeeps
<1> QED  BY <1>3, <1>6 DEF IInv

(* An edition that is replaced was not out, or its run is excused.         *)
LEMMA MergeKeeps ==
  ASSUME IInv, Merge
  PROVE  IInv'
<1> DEFINE d == run.day
<1>0. /\ run.at = "merge" /\ run.kind # "deliver" /\ run \in RunType /\ d \in Days
      /\ UNCHANGED <<done, sent, told, up, preflight, clock, excuses, bounds>>
  BY RunFacts DEF Merge, IInv, Places
<1>1. /\ prepared \in [Days -> EditionType] /\ done \in [Days -> SUBSET Categories]
      /\ \A e \in Days : prepared[e].categories = {} => prepared[e] = NoEdition
      /\ sent \in [Days -> Nat] /\ told \in [Days -> SUBSET Categories]
      /\ excuses \in [Days -> Nat]
  BY DEF IInv, TypeOK
<1>2. /\ alerted' \in [Days -> SUBSET Stages]
      /\ \A e \in Days : alerted[e] \subseteq alerted'[e]
  BY <1>0, RunFacts, Alerting DEF Merge, AlertIf, Stages
<1>3. Edition(run.outcome) \in EditionType
  BY DEF Edition, EditionType, Pending, Failed, Degraded
<1>4. \/ prepared' = prepared
      \/ /\ prepared' = [prepared EXCEPT ![d] = Edition(run.outcome)]
         /\ Pending(run.outcome) # {} /\ run.kind # "dry"
  BY DEF Merge
<1>5. /\ prepared' \in [Days -> EditionType]
      /\ \A e \in Days : prepared'[e].categories = {} => prepared'[e] = NoEdition
      /\ \A e \in Days : e # d => prepared'[e] = prepared[e]
  <2>1. CASE prepared' = prepared  BY <2>1, <1>1
  <2>2. CASE prepared' = [prepared EXCEPT ![d] = Edition(run.outcome)] /\ Pending(run.outcome) # {}
    <3>1. Edition(run.outcome).categories # {}  BY <2>2 DEF Edition
    <3> HIDE DEF d
    <3> QED  BY <2>2, <3>1, <1>0, <1>1, <1>3
  <2> QED  BY <1>4, <2>1, <2>2
<1>6. prepared' # prepared =>
        /\ sent[d] <= excuses[d]
        /\ report[d] = "delivered" => excuses[d] # 0
  <2> SUFFICES ASSUME prepared' # prepared
               PROVE  sent[d] <= excuses[d] /\ (report[d] = "delivered" => excuses[d] # 0)
    OBVIOUS
  <2>1. run.force \/ ~ Closed(d)  BY <1>0, <1>4 DEF IInv, Places, Fresh
  <2>2. sent[d] <= excuses[d]
    BY <1>0, <2>1 DEF IInv, Budget, Recording, Forced
  <2>3. run.force => excuses[d] # 0  BY <1>0, <1>1 DEF IInv, Places
  <2>4. ~ Closed(d) /\ report[d] = "delivered" => excuses[d] # 0  BY <1>0 DEF IInv, Settled
  <2> QED  BY <2>1, <2>2, <2>3, <2>4
<1>7. \A e \in Days : e # d \/ prepared' = prepared => Closed(e)' = Closed(e)
  BY <1>0, <1>5 DEF Closed, Delivered
<1>8. /\ report' = report
      /\ \/ run'.at = "idle" /\ run'.kind = "none" /\ run'.force = FALSE
         \/ run'.at = "load" /\ run'.kind = "manual" /\ run'.force = run.force /\ run'.day = d
  <2>1. CASE Ends("made")
    BY <1>0, <2>1, Ending DEF IInv
  <2>2. CASE /\ run.kind = "manual"

                                                                                                    /\ run' = [run EXCEPT !.at = "load", !.outcome = NoOutcome] /\ UNCHANGED <<reserved, report>>
    BY <1>0, <2>2 DEF RunType
  <2> QED  BY <2>1, <2>2 DEF Merge
<1>9. TypeOK' /\ Probes'
  <2>1. CASE Ends("made")
    BY <1>0, <1>1, <1>2, <1>5, <2>1, EndTypes
  <2>2. CASE /\ run.kind = "manual"

                                                                                                    /\ run' = [run EXCEPT !.at = "load", !.outcome = NoOutcome] /\ UNCHANGED <<reserved, report>>
    <3>1. NoOutcome \in [Categories -> Outcomes]  BY DEF NoOutcome, Outcomes
    <3>2. run' \in RunType /\ run'.at = "load" /\ run'.day = run.day
      BY <1>0, <2>2, <3>1 DEF RunType
    <3> QED  BY <1>0, <1>1, <1>2, <1>5, <2>2, <3>2, MoveTypes
  <2> QED  BY <2>1, <2>2 DEF Merge
<1>10. Places'
  BY <1>0, <1>8 DEF IInv, Places
<1>11. Budget'
  <2> SUFFICES ASSUME NEW e \in Days
               PROVE  /\ sent'[e] <= 1 + excuses'[e]
                      /\ ~ Closed(e)' \/ Forced(e)' => sent'[e] <= excuses'[e]
    BY DEF Budget
  <2>1. Forced(e)' => Forced(e)  BY <1>0, <1>8 DEF Forced
  <2>2. sent[e] <= 1 + excuses[e] /\ (~ Closed(e) \/ Forced(e) => sent[e] <= excuses[e])
    BY <1>0 DEF IInv, Budget, Recording
  <2>3. Closed(e)' = Closed(e) \/ sent[e] <= excuses[e]  BY <1>6, <1>7
  <2> QED  BY <1>0, <2>1, <2>2, <2>3
<1>12. Told'  BY <1>0, <1>8 DEF IInv, Told
<1>13. Settled'
  <2> SUFFICES ASSUME NEW e \in Days, report[e] = "delivered", excuses[e] = 0
               PROVE  Closed(e)'
    BY <1>0, <1>8 DEF Settled
  <2> QED  BY <1>6, <1>7 DEF IInv, Settled
<1>14. NoSilentDelivery'
  <2> SUFFICES ASSUME NEW e \in Days
               PROVE  /\ report[e] \in {"skipped", "delivered"} /\ HasWebhook => told[e] # {}
                      /\ report[e] \in {"unprepared", "failed", "raised"} => alerted'[e] # {}
                      /\ report[e] = "delivered" /\ prepared'[e].errors # {} /\ excuses[e] = 0 =>
                           "degraded" \in alerted'[e]
    BY <1>0, <1>8 DEF NoSilentDelivery
  <2>1. report[e] = "delivered" /\ excuses[e] = 0 => prepared'[e] = prepared[e]
    BY <1>5, <1>6
  <2> QED  BY <1>2, <2>1 DEF IInv, NoSilentDelivery
<1> QED  BY <1>9, <1>10, <1>11, <1>12, <1>13, <1>14 DEF IInv

(* Delivery finds no edition, one that is out, or one to send.             *)
LEMMA LoadPreparedKeeps ==
  ASSUME IInv, LoadPrepared
  PROVE  IInv'
<1> DEFINE d == run.day
           e == prepared[d]
<1>0. /\ run.at = "load" /\ run \in RunType /\ d \in Days /\ e \in EditionType
      /\ UNCHANGED <<prepared, done, sent, told, up, preflight, clock, excuses,
                     bounds>> /\ UNCHANGED files
  BY RunFacts DEF LoadPrepared, files
<1>1. /\ prepared \in [Days -> EditionType] /\ done \in [Days -> SUBSET Categories]
      /\ \A f \in Days : prepared[f].categories = {} => prepared[f] = NoEdition
      /\ sent \in [Days -> Nat] /\ told \in [Days -> SUBSET Categories]
      /\ alerted \in [Days -> SUBSET Stages] /\ excuses \in [Days -> Nat]
      /\ report \in [Days -> {"none", "kept", "made", "raised", "unprepared", "skipped", "failed",
                              "delivered"}]
  BY DEF IInv, TypeOK
<1>2. \A f \in Days : /\ excuses[f] >= excuses[f] /\ sent[f] <= 1 + excuses[f]
                      /\ ~ Closed(f) => sent[f] <= excuses[f]
  BY <1>0, <1>1 DEF IInv, Budget, Recording
<1>3. CASE e = NoEdition /\ Alert(d, {"unprepared"}) /\ Ends("unprepared")
  <2>1. /\ alerted' \in [Days -> SUBSET Stages]
        /\ \A f \in Days : alerted[f] \subseteq alerted'[f]
        /\ "unprepared" \in alerted'[d]
    BY <1>0, <1>3, Alerting DEF Stages
  <2>2. TypeOK' /\ Probes'  BY <1>0, <1>3, <1>1, <2>1, EndTypes
  <2>3. run' = Idle  BY <1>3 DEF Ends, Release
  <2>4. \A f \in Days : report'[f] = report[f] \/ (report'[f] = "unprepared" /\ f = d)
    <3>1. report' = report \/ report' = [report EXCEPT ![d] = "unprepared"]  BY <1>3 DEF Ends
    <3> HIDE DEF d
    <3> QED  BY <3>1, <1>0, <1>1
  <2>5. Places' /\ Budget' /\ Told' /\ Settled' /\ NoSilentDelivery'
    <3>1. \A f \in Days :
           \/ report'[f] = report[f]
           \/ /\ report'[f] \in {"skipped", "delivered"} /\ HasWebhook => told'[f] # {}
              /\ report'[f] \in {"unprepared", "failed", "raised"} => alerted'[f] # {}
              /\ report'[f] = "delivered" =>
                   Closed(f) /\ (prepared[f].errors # {} => "degraded" \in alerted'[f])
      BY <2>1, <2>4
    <3> QED  BY <1>0, <1>1, <1>2, <2>1, <2>3, <3>1, EndKeeps
  <2> QED  BY <2>2, <2>5 DEF IInv
<1>4. CASE e # NoEdition /\ Delivered(d) /\ Ends("skipped") /\ UNCHANGED alerted
  <2>1. TypeOK' /\ Probes'  BY <1>0, <1>4, <1>1, EndTypes
  <2>2. run' = Idle  BY <1>4 DEF Ends, Release
  <2>3. \A f \in Days : report'[f] = report[f] \/ (report'[f] = "skipped" /\ f = d)
    <3>1. report' = report \/ report' = [report EXCEPT ![d] = "skipped"]  BY <1>4 DEF Ends
    <3> HIDE DEF d
    <3> QED  BY <3>1, <1>0, <1>1
  <2>4. HasWebhook => told[d] # {}
    BY <1>0, <1>4, <1>1 DEF Delivered, IInv, Told
  <2>5. Places' /\ Budget' /\ Told' /\ Settled' /\ NoSilentDelivery'
    <3>1. \A f \in Days :
           \/ report'[f] = report[f]
           \/ /\ report'[f] \in {"skipped", "delivered"} /\ HasWebhook => told'[f] # {}
              /\ report'[f] \in {"unprepared", "failed", "raised"} => alerted'[f] # {}
              /\ report'[f] = "delivered" =>
                   Closed(f) /\ (prepared[f].errors # {} => "degraded" \in alerted'[f])
      BY <1>0, <2>3, <2>4
    <3> QED  BY <1>0, <1>4, <1>1, <1>2, <2>2, <3>1, EndKeeps
  <2> QED  BY <2>1, <2>5 DEF IInv
<1>5. CASE /\ e # NoEdition /\ (run.force \/ ~ Delivered(d))
           /\ \E at \in {"push", "mark"} :
                /\ (at = "mark") <=> ~ HasWebhook
                /\ run' = [run EXCEPT !.at = at, !.edition = e, !.left = e.categories]
           /\ UNCHANGED <<reserved, report, alerted>>
  <2> PICK at \in {"push", "mark"} :
        /\ (at = "mark") <=> ~ HasWebhook
        /\ run' = [run EXCEPT !.at = at, !.edition = e, !.left = e.categories]
    BY <1>5
  <2>1. e.categories \subseteq Categories /\ e.categories # {}
    BY <1>0, <1>5, <1>1 DEF EditionType
  <2>2. /\ run' \in RunType /\ run'.at = at /\ run'.day = d /\ run'.edition = e
        /\ run'.left = e.categories /\ run'.force = run.force /\ run'.kind = run.kind
    <3> HIDE DEF e, d
    <3> QED  BY <1>0, <2>1 DEF RunType, d
  <2>3. TypeOK' /\ Probes'
    BY <1>0, <1>5, <1>1, <2>1, <2>2, MoveTypes
  <2>4. \A f \in Days : Closed(f)' = Closed(f)  BY <1>0 DEF Closed, Delivered
  <2>5. Places'
    <3>1. run'.edition = prepared'[run'.day] /\ run'.edition # NoEdition  BY <1>0, <1>5, <2>2
    <3>2. run.force \/ ~ Closed(d)  BY <1>5 DEF Closed
    <3> HIDE DEF e, d
    <3> QED  BY <1>0, <2>2, <2>4, <3>1, <3>2 DEF IInv, Places
  <2>6. Budget'
    BY <1>0, <1>2, <2>2, <2>4 DEF IInv, Budget, Recording, Forced
  <2>7. Told'  BY <1>0, <2>2 DEF IInv, Told
  <2>8. Settled' /\ NoSilentDelivery'
    BY <1>0, <1>5, <2>4 DEF IInv, Settled, NoSilentDelivery
  <2> QED  BY <2>3, <2>5, <2>6, <2>7, <2>8 DEF IInv
<1>6. \/ e = NoEdition /\ Alert(d, {"unprepared"}) /\ Ends("unprepared")
      \/ e # NoEdition /\ Delivered(d) /\ Ends("skipped") /\ UNCHANGED alerted
      \/ /\ e # NoEdition /\ (run.force \/ ~ Delivered(d))
         /\ run' = [run EXCEPT !.at = IF HasWebhook THEN "push" ELSE "mark",
                               !.edition = e, !.left = e.categories]
         /\ UNCHANGED <<reserved, report, alerted>>
  BY DEF LoadPrepared
<1>7. (IF HasWebhook THEN "push" ELSE "mark") \in {"push", "mark"}
      /\ ((IF HasWebhook THEN "push" ELSE "mark") = "mark") <=> ~ HasWebhook
  OBVIOUS
<1> QED  BY <1>3, <1>4, <1>5, <1>6, <1>7

(* The chat has the message, and the markers follow.                       *)
LEMMA PushSentKeeps ==
  ASSUME IInv, PushSent
  PROVE  IInv'
<1> DEFINE d == run.day
<1>0. /\ run.at = "push" /\ run \in RunType /\ d \in Days /\ run.edition \in EditionType
      /\ UNCHANGED <<prepared, done, alerted, up, reserved, preflight, report, clock, excuses,
                     bounds>>
      /\ sent' = [sent EXCEPT ![d] = @ + 1]
      /\ told' = [told EXCEPT ![d] = @ \cup run.edition.categories]
      /\ run' = [run EXCEPT !.at = "mark"]
  BY RunFacts DEF PushSent, Accepted, files
<1>1. /\ prepared \in [Days -> EditionType] /\ done \in [Days -> SUBSET Categories]
      /\ \A f \in Days : prepared[f].categories = {} => prepared[f] = NoEdition
      /\ sent \in [Days -> Nat] /\ told \in [Days -> SUBSET Categories]
      /\ alerted \in [Days -> SUBSET Stages] /\ excuses \in [Days -> Nat]
  BY DEF IInv, TypeOK
<1>2. /\ run.left = run.edition.categories /\ (run.force \/ ~ Closed(d))
      /\ run.edition = prepared[d] /\ run.edition # NoEdition
      /\ run.edition.categories # {} /\ run.edition.categories \subseteq Categories
  BY <1>0, <1>1 DEF IInv, Places, EditionType
<1>3. /\ run' \in RunType /\ run'.at = "mark" /\ run'.day = d /\ run'.edition = run.edition
      /\ run'.left = run.left /\ run'.force = run.force /\ run'.kind = run.kind
  BY <1>0 DEF RunType
<1>4. /\ sent' \in [Days -> Nat] /\ told' \in [Days -> SUBSET Categories]
      /\ sent'[d] = sent[d] + 1 /\ run.edition.categories \subseteq told'[d]
      /\ \A f \in Days : f # d => sent'[f] = sent[f]
      /\ \A f \in Days : told[f] \subseteq told'[f]
  <2> HIDE DEF d
  <2> QED  BY <1>0, <1>1, <1>2
<1>5. TypeOK' /\ Probes'  BY <1>0, <1>1, <1>2, <1>3, <1>4, MoveTypes
<1>6. \A f \in Days : Closed(f)' = Closed(f)  BY <1>0 DEF Closed, Delivered
<1>7. Places'
  <2> HIDE DEF d
  <2> QED  BY <1>0, <1>2, <1>3 DEF IInv, Places, d
<1>8. Budget'
  <2> SUFFICES ASSUME NEW f \in Days
               PROVE  /\ sent'[f] <= 1 + excuses'[f]
                      /\ f # d /\ (~ Closed(f)' \/ Forced(f)') => sent'[f] <= excuses'[f]
    BY <1>3 DEF Budget, Recording
  <2>1. CASE f = d
    <3>1. sent[d] <= excuses[d]  BY <1>0, <1>2 DEF IInv, Budget, Recording, Forced
    <3>2. sent[d] + 1 <= 1 + excuses[d]  BY <1>0, <1>1, <3>1
    <3> QED  BY <1>0, <1>4, <2>1, <3>2
  <2>2. CASE f # d
    <3>1. ~ Forced(f)' /\ ~ Recording(f)  BY <1>3, <2>2, <1>0 DEF Forced, Recording
    <3> QED  BY <1>0, <1>4, <1>6, <2>2, <3>1 DEF IInv, Budget
  <2> QED  BY <2>1, <2>2
<1>9. Told'  BY <1>0, <1>3, <1>4 DEF IInv, Told
<1>10. Settled'  BY <1>0, <1>6 DEF IInv, Settled
<1>11. NoSilentDelivery'  BY <1>0, <1>4 DEF IInv, NoSilentDelivery
<1> QED  BY <1>5, <1>7, <1>8, <1>9, <1>10, <1>11 DEF IInv

(* A refused or unheard attempt is excused, and the last one is reported.  *)
LEMMA PushFailsKeeps ==
  ASSUME IInv, PushFails
  PROVE  IInv'
<1> DEFINE d == run.day
<1>0. /\ run.at = "push" /\ run \in RunType /\ d \in Days /\ run.edition \in EditionType
      /\ UNCHANGED <<prepared, done, up, preflight, clock, bounds>> /\ UNCHANGED files
      /\ \/ /\ sent' = [sent EXCEPT ![d] = @ + 1]
            /\ told' = [told EXCEPT ![d] = @ \cup run.edition.categories]
            /\ excuses' = [excuses EXCEPT ![d] = @ + 1]
         \/ UNCHANGED <<sent, told, excuses>>
  BY RunFacts DEF PushFails, Accepted, Excuse, files
<1>1. /\ prepared \in [Days -> EditionType] /\ done \in [Days -> SUBSET Categories]
      /\ \A f \in Days : prepared[f].categories = {} => prepared[f] = NoEdition
      /\ sent \in [Days -> Nat] /\ told \in [Days -> SUBSET Categories]
      /\ alerted \in [Days -> SUBSET Stages] /\ excuses \in [Days -> Nat]
      /\ report \in [Days -> {"none", "kept", "made", "raised", "unprepared", "skipped", "failed",
                              "delivered"}]
  BY DEF IInv, TypeOK
<1>2. /\ sent' \in [Days -> Nat] /\ told' \in [Days -> SUBSET Categories] /\ excuses' \in [Days -> Nat]
      /\ \A f \in Days : /\ told[f] \subseteq told'[f] /\ excuses'[f] >= excuses[f]
                         /\ \/ sent'[f] = sent[f] + 1 /\ excuses'[f] = excuses[f] + 1
                            \/ sent'[f] = sent[f] /\ excuses'[f] = excuses[f]
  <2>1. run.edition.categories \subseteq Categories  BY <1>0 DEF EditionType
  <2> HIDE DEF d
  <2> QED  BY <1>0, <1>1, <2>1
<1>3. \A f \in Days : /\ sent'[f] <= 1 + excuses'[f]
                      /\ ~ Closed(f) \/ Forced(f) => sent'[f] <= excuses'[f]
  <2> TAKE f \in Days
  <2>1. sent[f] <= 1 + excuses[f] /\ (~ Closed(f) \/ Forced(f) => sent[f] <= excuses[f])
    BY <1>0 DEF IInv, Budget, Recording
  <2>2. sent[f] \in Nat /\ excuses[f] \in Nat  BY <1>1
  <2> QED  BY <1>2, <2>1, <2>2
<1>4. CASE Alert(d, {"push"}) /\ Ends("failed")
  <2>1. /\ alerted' \in [Days -> SUBSET Stages]
        /\ \A f \in Days : alerted[f] \subseteq alerted'[f]
        /\ "push" \in alerted'[d]
    BY <1>0, <1>4, Alerting DEF Stages
  <2>2. TypeOK' /\ Probes'  BY <1>0, <1>4, <1>1, <1>2, <2>1, EndTypes
  <2>3. run' = Idle  BY <1>4 DEF Ends, Release
  <2>4. \A f \in Days : report'[f] = report[f] \/ (report'[f] = "failed" /\ f = d)
    <3>1. report' = report \/ report' = [report EXCEPT ![d] = "failed"]  BY <1>4 DEF Ends
    <3> HIDE DEF d
    <3> QED  BY <3>1, <1>0, <1>1
  <2>5. Places' /\ Budget' /\ Told' /\ Settled' /\ NoSilentDelivery'
    <3>1. \A f \in Days :
           \/ report'[f] = report[f]
           \/ /\ report'[f] \in {"skipped", "delivered"} /\ HasWebhook => told'[f] # {}
              /\ report'[f] \in {"unprepared", "failed", "raised"} => alerted'[f] # {}
              /\ report'[f] = "delivered" =>
                   Closed(f) /\ (prepared[f].errors # {} => "degraded" \in alerted'[f])
      BY <2>1, <2>4
    <3> QED  BY <1>0, <1>1, <1>2, <1>3, <2>1, <2>3, <3>1, EndKeeps
  <2> QED  BY <2>2, <2>5 DEF IInv
<1>5. CASE /\ run.attempts + 1 < MaxAttempts
           /\ run' = [run EXCEPT !.attempts = @ + 1] /\ UNCHANGED <<alerted, reserved, report>>
  <2>0. run.attempts + 1 \in 0 .. (MaxAttempts - 1)
    BY <1>0, <1>5, BriefingConstantsOK DEF RunType
  <2>1. /\ run' \in RunType /\ run'.at = "push" /\ run'.day = d /\ run'.edition = run.edition
        /\ run'.left = run.left /\ run'.force = run.force /\ run'.kind = run.kind
    <3> HIDE DEF d
    <3> QED  BY <1>0, <1>5, <2>0 DEF RunType, d
  <2>2. TypeOK' /\ Probes'  BY <1>0, <1>5, <1>1, <1>2, <2>1, MoveTypes
  <2>3. \A f \in Days : Closed(f)' = Closed(f) /\ Forced(f)' = Forced(f)
    BY <1>0, <2>1 DEF Closed, Delivered, Forced
  <2>4. Places'
    <3>1. run.force => excuses'[d] > 0  BY <1>0, <1>1, <1>2 DEF IInv, Places
    <3> HIDE DEF d
    <3> QED  BY <1>0, <2>1, <2>3, <3>1 DEF IInv, Places, d
  <2>5. Budget'  BY <1>3, <2>3 DEF Budget
  <2>6. Told'  BY <1>0, <1>2, <2>1 DEF IInv, Told
  <2>7. \A f \in Days : excuses'[f] = 0 => excuses[f] = 0  BY <1>1, <1>2
  <2>8. Settled'  BY <1>5, <2>3, <2>7 DEF IInv, Settled
  <2>9. NoSilentDelivery'  BY <1>0, <1>5, <1>2, <2>7 DEF IInv, NoSilentDelivery
  <2> QED  BY <2>2, <2>4, <2>5, <2>6, <2>8, <2>9 DEF IInv
<1> QED  BY <1>4, <1>5 DEF PushFails

(* A marker is written for news the chat has.                              *)
LEMMA MarkDeliveredKeeps ==
  ASSUME IInv, MarkDelivered
  PROVE  IInv'
<1> DEFINE d == run.day
<1>0. /\ run.at = "mark" /\ run \in RunType /\ d \in Days
      /\ UNCHANGED <<prepared, sent, told, alerted, up, reserved, preflight, report, clock,
                     excuses, bounds>>
  BY RunFacts DEF MarkDelivered, outside
<1>1. /\ prepared \in [Days -> EditionType] /\ done \in [Days -> SUBSET Categories]
      /\ \A f \in Days : prepared[f].categories = {} => prepared[f] = NoEdition
      /\ sent \in [Days -> Nat] /\ told \in [Days -> SUBSET Categories]
      /\ alerted \in [Days -> SUBSET Stages] /\ excuses \in [Days -> Nat]
      /\ run.left \subseteq Categories
  BY <1>0 DEF IInv, TypeOK, RunType
<1>2. PICK c \in run.left :
        /\ done' = [done EXCEPT ![d] = @ \cup {c}]
        /\ run' = [run EXCEPT !.left = @ \ {c}, !.at = IF run.left = {c} THEN "report" ELSE "mark"]
  BY DEF MarkDelivered
<1>3. /\ run' \in RunType /\ run'.day = d /\ run'.edition = run.edition
      /\ run'.at = IF run.left = {c} THEN "report" ELSE "mark"
      /\ run'.left = run.left \ {c} /\ run'.force = run.force /\ run'.kind = run.kind
  <2> DEFINE at == IF run.left = {c} THEN "report" ELSE "mark"
             left == run.left \ {c}
  <2>1. at \in {"report", "mark"} /\ left \subseteq Categories  BY <1>1
  <2>2. run' = [run EXCEPT !.left = left, !.at = at]  BY <1>2
  <2> HIDE DEF at, left
  <2>3. /\ run' \in RunType /\ run'.day = run.day /\ run'.edition = run.edition
        /\ run'.at = at /\ run'.left = left /\ run'.force = run.force /\ run'.kind = run.kind
    BY <1>0, <2>1, <2>2 DEF RunType
  <2> QED  BY <2>3 DEF at, left
<1>4. /\ done' \in [Days -> SUBSET Categories] /\ done'[d] = done[d] \cup {c}
      /\ \A f \in Days : f # d => done'[f] = done[f]
  <2> HIDE DEF d
  <2> QED  BY <1>0, <1>1, <1>2
<1>5. run'.at = "mark" => run'.left # {}  BY <1>3
<1>6. TypeOK' /\ Probes'
  <2>1. run'.at # "idle"  BY <1>3
  <2> QED  BY <1>0, <1>1, <1>3, <1>4, <1>5, <2>1, MoveTypes
<1>7. \A f \in Days : Closed(f) => Closed(f)'
  BY <1>0, <1>4 DEF Closed, Delivered
<1>8. /\ run.edition = prepared[d] /\ run.edition # NoEdition
      /\ run.left \subseteq run.edition.categories
      /\ run.edition.categories \subseteq done[d] \cup run.left
      /\ run.force => excuses[d] > 0
  BY <1>0 DEF IInv, Places
<1>9. Places'
  <2>1. /\ run'.at \in {"mark", "report"}
        /\ run'.left \subseteq run'.edition.categories
        /\ run'.edition.categories \subseteq done'[d] \cup run'.left
        /\ run'.at = "report" => run'.left = {}
    BY <1>3, <1>4, <1>8
  <2> HIDE DEF d
  <2> QED  BY <1>0, <1>3, <1>8, <2>1 DEF Places
<1>10. Budget'
  <2> SUFFICES ASSUME NEW f \in Days
               PROVE  /\ sent[f] <= 1 + excuses[f]
                      /\ f # d /\ (~ Closed(f)' \/ Forced(f)') => sent[f] <= excuses[f]
    BY <1>0, <1>3 DEF Budget, Recording
  <2> QED  BY <1>0, <1>3, <1>7 DEF IInv, Budget, Recording, Forced
<1>11. Told'
  <2> SUFFICES ASSUME HasWebhook
               PROVE  /\ \A f \in Days : done'[f] \subseteq told[f]
                      /\ run.edition.categories \subseteq told[d]
    BY <1>0, <1>3 DEF Told
  <2>1. run.edition.categories \subseteq told[d] /\ \A f \in Days : done[f] \subseteq told[f]
    BY <1>0 DEF IInv, Told
  <2>2. c \in told[d]  BY <1>8, <2>1
  <2> QED  BY <1>4, <2>1, <2>2
<1>12. Settled'  BY <1>0, <1>7 DEF IInv, Settled
<1>13. NoSilentDelivery'  BY <1>0 DEF IInv, NoSilentDelivery
<1> QED  BY <1>6, <1>9, <1>10, <1>11, <1>12, <1>13 DEF IInv

(* A marker that cannot be written excuses another message.                *)
LEMMA MarkFailsKeeps ==
  ASSUME IInv, MarkFails
  PROVE  IInv'
<1> DEFINE d == run.day
<1>0. /\ run.at = "mark" /\ d \in Days
      /\ UNCHANGED <<prepared, done, sent, told, up, preflight, clock, bounds>> /\ UNCHANGED files
      /\ Ends("raised") /\ excuses' = [excuses EXCEPT ![d] = @ + 1]
  BY RunFacts DEF MarkFails, Excuse, files
<1>1. /\ prepared \in [Days -> EditionType] /\ done \in [Days -> SUBSET Categories]
      /\ \A f \in Days : prepared[f].categories = {} => prepared[f] = NoEdition
      /\ sent \in [Days -> Nat] /\ told \in [Days -> SUBSET Categories]
      /\ excuses \in [Days -> Nat]
      /\ report \in [Days -> {"none", "kept", "made", "raised", "unprepared", "skipped", "failed",
                              "delivered"}]
  BY DEF IInv, TypeOK
<1>2. /\ excuses' \in [Days -> Nat] /\ excuses'[d] = excuses[d] + 1
      /\ \A f \in Days : excuses'[f] >= excuses[f]
  <2> HIDE DEF d
  <2> QED  BY <1>0, <1>1
<1>3. /\ alerted' \in [Days -> SUBSET Stages]
      /\ \A f \in Days : alerted[f] \subseteq alerted'[f]
      /\ run.kind = "deliver" => alerted'[d] # {}
  BY <1>0, Alerting DEF MarkFails, AlertIf, Stages
<1>4. TypeOK' /\ Probes'  BY <1>0, <1>3, <1>1, <1>2, EndTypes
<1>5. run' = Idle  BY <1>0 DEF Ends, Release
<1>6. \A f \in Days : /\ sent[f] <= 1 + excuses'[f]
                      /\ ~ Closed(f) => sent[f] <= excuses'[f]
  <2> TAKE f \in Days
  <2>1. sent[f] <= 1 + excuses[f] /\ sent[f] \in Nat /\ excuses[f] \in Nat
    BY <1>1 DEF IInv, Budget
  <2>2. f # d /\ ~ Closed(f) => sent[f] <= excuses[f]  BY DEF IInv, Budget, Recording
  <2> QED  BY <1>2, <2>1, <2>2
<1>7. \A f \in Days :
        \/ report'[f] = report[f]
        \/ /\ report'[f] \in {"skipped", "delivered"} /\ HasWebhook => told'[f] # {}
           /\ report'[f] \in {"unprepared", "failed", "raised"} => alerted'[f] # {}
           /\ report'[f] = "delivered" =>
                Closed(f) /\ (prepared[f].errors # {} => "degraded" \in alerted'[f])
  <2>1. report' = report \/ (run.kind = "deliver" /\ report' = [report EXCEPT ![d] = "raised"])
    BY <1>0 DEF Ends
  <2> HIDE DEF d
  <2>2. \A f \in Days : report'[f] = report[f] \/ (report'[f] = "raised" /\ f = d /\ run.kind = "deliver")
    BY <2>1, <1>0, <1>1
  <2> QED  BY <1>3, <2>2
<1>8. Places' /\ Budget' /\ Told' /\ Settled' /\ NoSilentDelivery'
  BY <1>0, <1>3, <1>1, <1>2, <1>5, <1>6, <1>7, EndKeeps
<1> QED  BY <1>4, <1>8 DEF IInv

(* The day is over, and a degraded edition is reported.                    *)
LEMMA ReportDeliveredKeeps ==
  ASSUME IInv, ReportDelivered
  PROVE  IInv'
<1> DEFINE d == run.day
<1>0. /\ run.at = "report" /\ d \in Days
      /\ UNCHANGED <<prepared, done, sent, told, up, preflight, clock, excuses,
                     bounds>> /\ UNCHANGED files
      /\ Ends("delivered")
  BY RunFacts DEF ReportDelivered, files
<1>1. /\ prepared \in [Days -> EditionType] /\ done \in [Days -> SUBSET Categories]
      /\ \A f \in Days : prepared[f].categories = {} => prepared[f] = NoEdition
      /\ sent \in [Days -> Nat] /\ told \in [Days -> SUBSET Categories]
      /\ excuses \in [Days -> Nat]
      /\ report \in [Days -> {"none", "kept", "made", "raised", "unprepared", "skipped", "failed",
                              "delivered"}]
  BY DEF IInv, TypeOK
<1>2. /\ run.edition = prepared[d] /\ prepared[d] # NoEdition
      /\ run.edition.categories \subseteq done[d] \cup run.left /\ run.left = {}
  BY <1>0 DEF IInv, Places
<1>3. Closed(d)  BY <1>2 DEF Closed, Delivered
<1>4. HasWebhook => told[d] # {}
  <2>1. prepared[d].categories # {}  BY <1>0, <1>1, <1>2
  <2> QED  BY <1>0, <1>2, <2>1 DEF IInv, Told
<1>5. /\ alerted' \in [Days -> SUBSET Stages]
      /\ \A f \in Days : alerted[f] \subseteq alerted'[f]
      /\ prepared[d].errors # {} => "degraded" \in alerted'[d]
  <2>1. Alert(d, IF run.edition.errors # {} THEN {"degraded"} ELSE {})
    BY DEF ReportDelivered, AlertIf
  <2>2. (IF run.edition.errors # {} THEN {"degraded"} ELSE {}) \in SUBSET Stages  BY DEF Stages
  <2> DEFINE stages == IF run.edition.errors # {} THEN {"degraded"} ELSE {}
  <2>3. prepared[d].errors # {} => "degraded" \in stages  BY <1>2
  <2> HIDE DEF stages, d
  <2> QED  BY <1>0, <2>1, <2>2, <2>3, Alerting DEF stages
<1>6. TypeOK' /\ Probes'  BY <1>0, <1>5, <1>1, EndTypes
<1>7. run' = Idle  BY <1>0 DEF Ends, Release
<1>8. \A f \in Days : /\ excuses[f] >= excuses[f] /\ sent[f] <= 1 + excuses[f]
                      /\ ~ Closed(f) => sent[f] <= excuses[f]
  BY <1>0, <1>1, <1>3 DEF IInv, Budget, Recording
<1>9. \A f \in Days :
        \/ report'[f] = report[f]
        \/ /\ report'[f] \in {"skipped", "delivered"} /\ HasWebhook => told'[f] # {}
           /\ report'[f] \in {"unprepared", "failed", "raised"} => alerted'[f] # {}
           /\ report'[f] = "delivered" =>
                Closed(f) /\ (prepared[f].errors # {} => "degraded" \in alerted'[f])
  <2>1. report' = report \/ report' = [report EXCEPT ![d] = "delivered"]  BY <1>0 DEF Ends
  <2> HIDE DEF d
  <2>2. \A f \in Days : report'[f] = report[f] \/ (report'[f] = "delivered" /\ f = d)
    BY <2>1, <1>0, <1>1
  <2> QED  BY <1>0, <1>5, <1>3, <1>4, <2>2
<1>10. Places' /\ Budget' /\ Told' /\ Settled' /\ NoSilentDelivery'
  BY <1>0, <1>5, <1>1, <1>7, <1>8, <1>9, EndKeeps
<1> QED  BY <1>6, <1>10 DEF IInv

(* A dying process excuses a message it may have sent and not recorded.    *)
LEMMA CrashKeeps ==
  ASSUME IInv, Crash
  PROVE  IInv'
<1> DEFINE d == run.day
<1>0. /\ UNCHANGED <<prepared, done, alerted, report, clock, manual>> /\ UNCHANGED files
      /\ run' = Idle /\ reserved' = FALSE /\ up' = FALSE /\ preflight' = 0
      /\ \/ /\ run.at = "push"
            /\ sent' = [sent EXCEPT ![d] = @ + 1]
            /\ told' = [told EXCEPT ![d] = @ \cup run.edition.categories]
            /\ excuses' = [excuses EXCEPT ![d] = @ + 1]
         \/ run.at = "mark" /\ excuses' = [excuses EXCEPT ![d] = @ + 1] /\ UNCHANGED <<sent, told>>
         \/ run.at # "mark" /\ UNCHANGED <<sent, told, excuses>>
  BY DEF Crash, Release, Accepted, Excuse, files, clock
<1>1. /\ prepared \in [Days -> EditionType] /\ done \in [Days -> SUBSET Categories]
      /\ \A f \in Days : prepared[f].categories = {} => prepared[f] = NoEdition
      /\ sent \in [Days -> Nat] /\ told \in [Days -> SUBSET Categories]
      /\ alerted \in [Days -> SUBSET Stages] /\ excuses \in [Days -> Nat]
      /\ crashes' \in 0 .. MaxCrashes
  BY BriefingConstantsOK DEF Crash, IInv, TypeOK
<1>2. run.at \in {"push", "mark"} => d \in Days /\ run.edition.categories \subseteq Categories
  BY RunFacts DEF EditionType
<1>3. /\ sent' \in [Days -> Nat] /\ told' \in [Days -> SUBSET Categories] /\ excuses' \in [Days -> Nat]
      /\ \A f \in Days : told[f] \subseteq told'[f] /\ excuses'[f] >= excuses[f]
      /\ \A f \in Days :
           \/ sent'[f] = sent[f] + 1 /\ excuses'[f] = excuses[f] + 1
           \/ sent'[f] = sent[f] /\ excuses'[f] = excuses[f]
           \/ sent'[f] = sent[f] /\ excuses'[f] = excuses[f] + 1
      /\ \A f \in Days : run.at = "mark" /\ f = d => excuses'[f] = excuses[f] + 1 /\ sent'[f] = sent[f]
  <2> HIDE DEF d
  <2> QED  BY <1>0, <1>1, <1>2
<1>4. \A f \in Days : sent'[f] <= 1 + excuses'[f] /\ (~ Closed(f) => sent'[f] <= excuses'[f])
  <2> TAKE f \in Days
  <2>1. sent[f] <= 1 + excuses[f] /\ sent[f] \in Nat /\ excuses[f] \in Nat
    BY <1>1 DEF IInv, Budget
  <2>2. ~ Recording(f) /\ ~ Closed(f) => sent[f] <= excuses[f]  BY DEF IInv, Budget
  <2>3. run.at = "report" /\ f = d => Closed(f)
    BY DEF IInv, Places, Closed, Delivered
  <2>4. CASE run.at = "mark" /\ f = d  BY <1>3, <2>1, <2>4
  <2>5. CASE ~ (run.at = "mark" /\ f = d)
    <3>1. ~ Closed(f) => sent[f] <= excuses[f]  BY <2>2, <2>3, <2>5 DEF Recording
    <3> QED  BY <1>3, <2>1, <3>1
  <2> QED  BY <2>4, <2>5
<1>5. TypeOK' /\ Probes'
  <2>1. Idle \in RunType /\ Idle.at = "idle" /\ Idle.at # "mark"
    BY BriefingConstantsOK
       DEF Idle, RunType, NoOutcome, Outcomes, NoEdition, EditionType
  <2>2. 0 <= 2 * (today - 1) + (IF hour < 2 THEN hour ELSE 2) /\ 0 \in 0 .. 2 * Cardinality(Days)
    <3>1. today \in Nat /\ today > 0 /\ hour \in 0 .. 3  BY DayNumbers DEF IInv, TypeOK
    <3> QED  BY <3>1, DayNumbers
  <2>3. Probes'  BY <1>0, <2>2 DEF Probes, clock
  <2> QED  BY <1>0, <1>1, <1>3, <2>1, <2>2, <2>3 DEF IInv, TypeOK, clock
<1>6. Places' /\ Budget' /\ Told' /\ Settled' /\ NoSilentDelivery'
  <2>1. \A f \in Days : /\ excuses'[f] \in Nat /\ excuses'[f] >= excuses[f]
                        /\ told[f] \subseteq told'[f] /\ alerted[f] \subseteq alerted'[f]
    BY <1>0, <1>3
  <2> QED  BY <1>0, <1>4, <2>1, EndKeeps
<1> QED  BY <1>5, <1>6 DEF IInv

-----------------------------------------------------------------------------
(* Invariance *)

(* An untouched installation satisfies the invariant.                      *)
LEMMA InitInvariant == Init => IInv
<1> SUFFICES ASSUME Init PROVE IInv  OBVIOUS
<1>1. /\ run = Idle /\ Idle.at = "idle" /\ Idle.kind = "none"
      /\ prepared = [f \in Days |-> NoEdition] /\ done = [f \in Days |-> {}]
      /\ sent = [f \in Days |-> 0] /\ excuses = [f \in Days |-> 0]
      /\ report = [f \in Days |-> "none"]
  BY DEF Init, Idle
<1>2. TypeOK
  <2>1. Idle \in RunType
    BY BriefingConstantsOK
       DEF Idle, RunType, NoOutcome, Outcomes, NoEdition, EditionType
  <2>2. NoEdition \in EditionType  BY DEF NoEdition, EditionType
  <2>3. 1 \in Days /\ 0 \in 0 .. 2 * Cardinality(Days)
    <3>1. Cardinality(Days) \in Nat /\ Days = 1 .. Cardinality(Days) /\ Days # {}
      BY DayNumbers, BriefingConstantsOK
    <3> QED  BY <3>1
  <2>4. 0 \in 0 .. MaxManual /\ 0 \in 0 .. MaxCrashes  BY BriefingConstantsOK
  <2> QED  BY <1>1, <2>1, <2>2, <2>3, <2>4 DEF Init, TypeOK
<1>3. Places /\ Probes  BY <1>1 DEF Init, Places, Probes
<1>4. Budget /\ Told  BY <1>1 DEF Init, Budget, Told
<1>5. Settled /\ NoSilentDelivery  BY <1>1 DEF Init, Settled, NoSilentDelivery
<1> QED  BY <1>2, <1>3, <1>4, <1>5 DEF IInv

(* Every step keeps the invariant.                                         *)
LEMMA NextInvariant == IInv /\ [Next]_vars => IInv'
<1> SUFFICES ASSUME IInv, [Next]_vars PROVE IInv'  OBVIOUS
<1>1. CASE UNCHANGED vars
  <2>1. /\ UNCHANGED <<prepared, done, sent, told, alerted, up, reserved, run, preflight, report,
                       today, hour, excuses, manual, crashes>>
        /\ UNCHANGED <<files, outside, run, report, excuses>>
    BY <1>1 DEF vars, files, outside, clock, bounds
  <2>2. TypeOK' /\ Probes'  BY <2>1 DEF IInv, TypeOK, Probes
  <2> QED  BY <2>1, <2>2, QuietKeeps DEF IInv
<1>2. CASE RunStep
  BY <1>2, BeginPrepareKeeps, CollectKeeps, MergeKeeps, PrepareFailsKeeps, LoadPreparedKeeps,
     PushSentKeeps, PushFailsKeeps, MarkDeliveredKeeps, MarkFailsKeeps, ReportDeliveredKeeps
     DEF RunStep
<1>3. CASE PrepareTick \/ StartPrepare \/ DeliverTick \/ Midnight \/ Trigger
  BY <1>3, PrepareTickKeeps, StartPrepareKeeps, DeliverTickKeeps, MidnightKeeps, TriggerKeeps
<1>4. CASE Crash \/ Boot  BY <1>4, CrashKeeps, BootKeeps
<1> QED  BY <1>1, <1>2, <1>3, <1>4 DEF Next

(* The invariant the theorems below are read off from.                     *)
THEOREM Invariance == Spec => []IInv
  BY InitInvariant, NextInvariant, PTL DEF Spec

-----------------------------------------------------------------------------
(* What it implies *)

(* The slot is held exactly while a run is under way in a live process, on *)
(* every path out of a run (briefing/service.py, _run_reserved_body).      *)
THEOREM TypeCorrect == Spec => []TypeOK
<1>1. IInv => TypeOK  BY DEF IInv
<1> QED  BY <1>1, Invariance, PTL

(* However the ticks, the routes and crashes interleave, each message      *)
(* after the first of a day has its own reason (briefing/service.py).      *)
THEOREM OneMessage == Spec => []OneMessageADay
<1>1. IInv => OneMessageADay  BY DEF IInv, Budget, OneMessageADay
<1> QED  BY <1>1, Invariance, PTL

(* No marker silences a category the chat has not heard of.                *)
THEOREM MarkersAreTold == Spec => []DoneMeansTold
<1>1. IInv => DoneMeansTold  BY DEF IInv, Told, DoneMeansTold
<1> QED  BY <1>1, Invariance, PTL

(* A delivery tick that got the slot leaves the chat told or the operator  *)
(* alerted (briefing/scheduler.py).                                        *)
THEOREM DeliveryIsHeard == Spec => []NoSilentDelivery
<1>1. IInv => NoSilentDelivery  BY DEF IInv
<1> QED  BY <1>1, Invariance, PTL

-----------------------------------------------------------------------------
(* The candidate pool                                                       *)

(* The order of the articles and the limits, as their assumption has them. *)
LEMMA Bounds ==
  /\ ByRecency \in Seq(Articles) /\ IsInjective(ByRecency)
  /\ MaxPerOutlet \in Nat \ {0} /\ PoolLimit \in Nat \ {0} /\ MaxItems \in Nat \ {0}
BY EditionConstantsOK

(* The candidates are the articles found, from the freshest to the oldest. *)
LEMMA CandidatesByRecency ==
  ASSUME NEW found \in SUBSET Articles, NEW c \in Categories
  PROVE  LET s == Candidates(found, c) IN
         /\ s \in Seq(Articles) /\ IsInjective(s) /\ InOrderOf(s, ByRecency)
         /\ ToSet(s) = {a \in found : Category[a] = c}
<1> DEFINE S == {a \in found : Category[a] = c}
<1>1. ToSet(ByRecency) \cap S = S
  BY DEF Articles
<1> HIDE DEF S
<1>2. /\ Those(ByRecency, S) \in Seq(Articles) /\ IsInjective(Those(ByRecency, S))
      /\ InOrderOf(Those(ByRecency, S), ByRecency) /\ ToSet(Those(ByRecency, S)) = S
  BY <1>1, Bounds, ThoseAreListed
<1> QED
  BY <1>2 DEF Candidates, S

(* The freshest of one publisher, up to his share.                         *)
LEMMA QueueIsFreshest ==
  ASSUME NEW s \in Seq(Articles), IsInjective(s), NEW o
  PROVE  LET q == Queue(s, o)
             S == {a \in ToSet(s) : Outlet[a] = o}
         IN  /\ q \in Seq(Articles) /\ IsInjective(q) /\ ToSet(q) \subseteq S
             /\ IsFiniteSet(S) /\ Len(q) = Lesser(MaxPerOutlet, Cardinality(S))
<1> DEFINE q == Queue(s, o)
           S == {a \in ToSet(s) : Outlet[a] = o}
           all == Those(s, S)
<1>1. ToSet(s) \cap S = S
  OBVIOUS
<1>2. q = FirstOf(all, MaxPerOutlet)
  BY DEF Queue
<1> HIDE DEF S
<1>3. all \in Seq(Articles) /\ ToSet(all) = S /\ IsInjective(all)
  BY <1>1, ThoseAreListed
<1> HIDE DEF all, q
<1>4. /\ q \in Seq(Articles) /\ IsInjective(q) /\ ToSet(q) \subseteq S
      /\ Len(q) = Lesser(MaxPerOutlet, Len(all))
  BY <1>2, <1>3, Bounds, FirstItems
<1>5. IsFiniteSet(S) /\ Len(all) = Cardinality(S)
  BY <1>3, LengthCounts
<1> QED
  BY <1>4, <1>5 DEF q, S

(* What the head of a queue leaves to its publisher is older.              *)
LEMMA QueueLeavesOlder ==
  ASSUME NEW s \in Seq(Articles), IsInjective(s), NEW o,
         NEW n \in 0..Len(Queue(s, o)), NEW i \in 1..n,
         NEW a \in ToSet(s), Outlet[a] = o, a \notin {Queue(s, o)[k] : k \in 1..n}
  PROVE  \E p, r \in 1..Len(s) : p < r /\ s[p] = Queue(s, o)[i] /\ s[r] = a
<1> DEFINE q == Queue(s, o)
           S == {x \in ToSet(s) : Outlet[x] = o}
           all == Those(s, S)
<1>1. ToSet(s) \cap S = S /\ a \in S
  OBVIOUS
<1>2. q = FirstOf(all, MaxPerOutlet)
  BY DEF Queue
<1> HIDE DEF S
<1>3. all \in Seq(Articles) /\ ToSet(all) = S /\ InOrderOf(all, s)
  BY <1>1, ThoseAreListed
<1> HIDE DEF all
<1>4. /\ q \in Seq(Articles) /\ Len(q) <= Len(all)
      /\ \A k \in 1..Len(q) : q[k] = all[k]
  <2> HIDE DEF q
  <2> QED
    BY <1>2, <1>3, Bounds, FirstItems
<1>5. n \in 0..Len(q) /\ a \notin {q[k] : k \in 1..n}
  OBVIOUS
<1> HIDE DEF q
<1>6. Len(q) \in Nat /\ Len(all) \in Nat
  BY <1>3, <1>4, Sequences
<1>7. PICK j \in 1..Len(all) : all[j] = a
  BY <1>1, <1>3, Sequences
<1>8. \A k \in 1..n : k \in 1..Len(q) /\ k \in 1..Len(all)
  BY <1>4, <1>5, <1>6
<1>9. j \notin 1..n
  BY <1>4, <1>5, <1>7, <1>8
<1>10. i < j
  BY <1>5, <1>6, <1>7, <1>9
<1>11. \E p, r \in 1..Len(s) : p < r /\ s[p] = all[i] /\ s[r] = all[j]
  BY <1>3, <1>7, <1>8, <1>10 DEF InOrderOf
<1>12. all[i] = q[i]
  BY <1>4, <1>8
<1> QED
  BY <1>7, <1>11, <1>12 DEF q

(* The outlets of a list of articles, each once.                           *)
LEMMA PublishersOnce ==
  ASSUME NEW s \in Seq(Articles)
  PROVE  /\ Publishers(s) \in Seq(ToSet(Publishers(s))) /\ IsInjective(Publishers(s))
         /\ ToSet(Publishers(s)) = {Outlet[a] : a \in ToSet(s)}
<1> DEFINE t == [i \in DOMAIN s |-> Outlet[s[i]]]
           T == {Outlet[a] : a \in ToSet(s)}
<1>1. Len(s) \in Nat /\ DOMAIN s = 1..Len(s) /\ ToSet(s) = {s[i] : i \in 1..Len(s)}
  BY Sequences
<1>2. t \in [1..Len(s) -> T]
  BY <1>1
<1>3. t \in Seq(T)
  BY <1>1, <1>2, SeqDef
<1>4. ToSet(t) = T
  <2>1. ToSet(t) = {Outlet[s[i]] : i \in 1..Len(s)}
    BY <1>1 DEF ToSet
  <2> QED
    BY <1>1, <2>1
<1>5. Publishers(s) = Distinct(t)
  BY DEF Publishers
<1> HIDE DEF t, T
<1>6. Distinct(t) \in Seq(T) /\ ToSet(Distinct(t)) = T /\ IsInjective(Distinct(t))
  BY <1>3, <1>4, DistinctIsInjective
<1> QED
  BY <1>5, <1>6 DEF T

(* The pool holds the first n[o] of each publisher o.                      *)
Held(s, pool, n) ==
  /\ pool \in Seq(Articles) /\ IsInjective(pool) /\ Len(pool) <= PoolLimit
  /\ n \in [ToSet(Publishers(s)) -> Nat]
  /\ \A o \in ToSet(Publishers(s)) : n[o] <= Len(Queue(s, o))
  /\ \A a : a \in ToSet(pool) <=>
              \E o \in ToSet(Publishers(s)) : \E k \in 1..n[o] : a = Queue(s, o)[k]

(* Everybody had i turns, or all that he could; the others one turn less.  *)
Level(s, n, i, served) ==
  \A o \in ToSet(Publishers(s)) :
    n[o] = Lesser(Len(Queue(s, o)), IF o \in served THEN i ELSE i - 1)

Even(s, n) ==
  \E i \in Nat \ {0} : \A o \in ToSet(Publishers(s)) :
    Lesser(Len(Queue(s, o)), i - 1) <= n[o] /\ n[o] <= i

(* The pools there may be when, in turn i, some publishers are served.     *)
PoolsAt(s, i, served) ==
  {pool \in Seq(Articles) :
     \E n : Held(s, pool, n) /\ Even(s, n) /\ (Len(pool) < PoolLimit => Level(s, n, i, served))}

(* One publisher more.                                                     *)
LEMMA ServeOne ==
  ASSUME NEW s \in Seq(Articles), IsInjective(s), NEW i \in Nat \ {0}, NEW served,
         NEW o \in ToSet(Publishers(s)), o \notin served, NEW pool \in PoolsAt(s, i, served)
  PROVE  IF Len(pool) < PoolLimit /\ i <= Len(Queue(s, o))
         THEN Append(pool, Queue(s, o)[i]) \in PoolsAt(s, i, served \cup {o})
         ELSE pool \in PoolsAt(s, i, served \cup {o})
<1> DEFINE O == ToSet(Publishers(s))
<1>1. PICK n : Held(s, pool, n) /\ Even(s, n) /\ (Len(pool) < PoolLimit => Level(s, n, i, served))
  BY DEF PoolsAt
<1>2. \A p \in O : /\ Queue(s, p) \in Seq(Articles) /\ IsInjective(Queue(s, p))
                   /\ ToSet(Queue(s, p)) \subseteq {a \in ToSet(s) : Outlet[a] = p}
                   /\ Len(Queue(s, p)) \in Nat /\ DOMAIN Queue(s, p) = 1..Len(Queue(s, p))
                   /\ \A k \in 1..Len(Queue(s, p)) : Queue(s, p)[k] \in ToSet(Queue(s, p))
  BY QueueIsFreshest, Sequences
<1>3. pool \in Seq(Articles) /\ Len(pool) \in Nat /\ PoolLimit \in Nat
  BY <1>1, Bounds, Sequences DEF Held
<1>4. CASE ~ (Len(pool) < PoolLimit)
  BY <1>1, <1>3, <1>4 DEF PoolsAt
<1>5. CASE Len(pool) < PoolLimit /\ ~ (i <= Len(Queue(s, o)))
  <2>1. Level(s, n, i, served \cup {o})
    BY <1>1, <1>2, <1>5 DEF Level, Lesser
  <2> QED
    BY <1>1, <1>3, <1>5, <2>1 DEF PoolsAt
<1>6. CASE Len(pool) < PoolLimit /\ i <= Len(Queue(s, o))
  <2> DEFINE x == Queue(s, o)[i]
             m == [n EXCEPT ![o] = i]
             t == Append(pool, x)
  <2>1. n \in [O -> Nat] /\ n[o] = i - 1
    BY <1>1, <1>2, <1>6 DEF Held, Level, Lesser
  <2>2. m \in [O -> Nat] /\ m[o] = i /\ \A p \in O : p # o => m[p] = n[p]
    BY <2>1
  <2>3. i \in 1..Len(Queue(s, o)) /\ x \in ToSet(Queue(s, o)) /\ x \in Articles /\ Outlet[x] = o
    <3>1. i \in 1..Len(Queue(s, o))
      BY <1>2, <1>6
    <3>2. x \in Articles
      BY <1>2, <3>1, ElementOfSeq
    <3> QED
      BY <1>2, <3>1, <3>2
  <2>4. x \notin ToSet(pool)
    <3> SUFFICES ASSUME NEW p \in O, NEW k \in 1..n[p], x = Queue(s, p)[k]  PROVE FALSE
      BY <1>1 DEF Held
    <3>1. k \in 1..Len(Queue(s, p))
      BY <1>1, <1>2, <2>1 DEF Held
    <3>2. Outlet[x] = p
      BY <1>2, <3>1
    <3>3. p = o
      BY <2>3, <3>2
    <3>4. k # i /\ Queue(s, o)[k] = Queue(s, o)[i]
      BY <2>1, <3>3
    <3> QED
      BY <1>2, <2>3, <3>1, <3>3, <3>4 DEF IsInjective
  <2>5. /\ t \in Seq(Articles) /\ Len(t) = Len(pool) + 1 /\ ToSet(t) = ToSet(pool) \cup {x}
        /\ IsInjective(t)
    <3>1. IsInjective(pool)
      BY <1>1 DEF Held
    <3> QED
      BY <1>3, <2>3, <2>4, <3>1, Longer
  <2> HIDE DEF m, t
  <2>6. \A a : a \in ToSet(t) <=> \E p \in O : \E k \in 1..m[p] : a = Queue(s, p)[k]
    <3>1. ASSUME NEW a \in ToSet(t)  PROVE \E p \in O : \E k \in 1..m[p] : a = Queue(s, p)[k]
      <4>1. CASE a = x
        BY <2>2, <4>1
      <4>2. CASE a \in ToSet(pool)
        <5>1. PICK p \in O : \E k \in 1..n[p] : a = Queue(s, p)[k]
          BY <1>1, <4>2 DEF Held
        <5>2. PICK k \in 1..n[p] : a = Queue(s, p)[k]
          BY <5>1
        <5>3. k \in 1..m[p]
          BY <2>1, <2>2
        <5> QED
          BY <5>2, <5>3
      <4> QED
        BY <2>5, <3>1, <4>1, <4>2
    <3>2. ASSUME NEW p \in O, NEW k \in 1..m[p]  PROVE Queue(s, p)[k] \in ToSet(t)
      <4>1. CASE p = o /\ k = i
        BY <2>5, <4>1
      <4>2. CASE ~ (p = o /\ k = i)
        <5>1. k \in 1..n[p]
          BY <2>1, <2>2, <4>2
        <5>2. Queue(s, p)[k] \in ToSet(pool)
          BY <1>1, <5>1 DEF Held
        <5> QED
          BY <2>5, <5>2
      <4> QED
        BY <4>1, <4>2
    <3> QED
      BY <3>1, <3>2
  <2>7. Held(s, t, m)
    <3>1. \A p \in O : m[p] <= Len(Queue(s, p))
      BY <1>1, <1>6, <2>2 DEF Held
    <3> QED
      BY <1>3, <1>6, <2>2, <2>5, <2>6, <3>1 DEF Held
  <2>8. Level(s, m, i, served \cup {o})
    BY <1>1, <1>2, <1>6, <2>2 DEF Level, Lesser
  <2>9. Even(s, m)
    <3>1. \A p \in O : Lesser(Len(Queue(s, p)), i - 1) <= m[p] /\ m[p] <= i
      BY <1>2, <2>8 DEF Level, Lesser
    <3> QED
      BY <3>1 DEF Even
  <2>10. t \in PoolsAt(s, i, served \cup {o})
    BY <2>5, <2>7, <2>8, <2>9 DEF PoolsAt
  <2> QED
    BY <1>6, <2>10 DEF t
<1> QED
  BY <1>4, <1>5, <1>6

(* A turn serves every publisher.                                          *)
LEMMA TurnServesAll ==
  ASSUME NEW s \in Seq(Articles), IsInjective(s), NEW i \in Nat \ {0},
         NEW pool \in PoolsAt(s, i, {})
  PROVE  Turn(pool, s, i) \in PoolsAt(s, i, ToSet(Publishers(s)))
<1> DEFINE P == Publishers(s)
           served(k) == {P[j] : j \in 1..k}
           I == [k \in 0..Len(P) |-> PoolsAt(s, i, served(k))]
           body == [p \in Seq(Articles) |-> [o \in ToSet(P) |->
                      IF Len(p) < PoolLimit /\ i <= Len(Queue(s, o)) THEN Append(p, Queue(s, o)[i]) ELSE p]]
<1>1. P \in Seq(ToSet(P)) /\ IsInjective(P) /\ Len(P) \in Nat /\ DOMAIN P = 1..Len(P)
  BY PublishersOnce, Sequences
<1> HIDE DEF P
<1>2. served(0) = {} /\ served(Len(P)) = ToSet(P)
  BY <1>1, Sequences
<1>3. ASSUME NEW k \in 1..Len(P)
      PROVE  /\ P[k] \in ToSet(P) /\ P[k] \notin served(k - 1)
             /\ served(k) = served(k - 1) \cup {P[k]}
  <2>1. k \in Nat \ {0} /\ P[k] \in ToSet(P)
    <3>1. k \in Nat \ {0}
      BY <1>1
    <3> QED
      BY <1>1, <3>1 DEF ToSet
  <2>2. P[k] \notin served(k - 1)
    <3> SUFFICES ASSUME NEW j \in 1..(k - 1), P[j] = P[k]  PROVE FALSE
      OBVIOUS
    <3>1. j \in 1..Len(P) /\ j # k
      BY <1>1
    <3> QED
      BY <1>1, <3>1 DEF IsInjective
  <2>3. served(k) = served(k - 1) \cup {P[k]}
    BY <2>1, OneItemMore
  <2> QED
    BY <2>1, <2>2, <2>3
<1> HIDE DEF served
<1>4. pool \in I[0] /\ I[Len(P)] = PoolsAt(s, i, ToSet(P))
  <2>1. \A k \in 0..Len(P) : I[k] = PoolsAt(s, i, served(k))
    OBVIOUS
  <2>2. 0 \in 0..Len(P) /\ Len(P) \in 0..Len(P)
    BY <1>1
  <2> HIDE DEF I
  <2> QED
    BY <1>2, <2>1, <2>2
<1>5. ASSUME NEW k \in 1..Len(P), NEW p \in I[k - 1]
      PROVE  body[p][P[k]] \in I[k]
  <2>1. k - 1 \in 0..Len(P) /\ k \in 0..Len(P)
    BY <1>1
  <2>2. p \in PoolsAt(s, i, served(k - 1)) /\ p \in Seq(Articles)
    BY <1>5, <2>1 DEF PoolsAt
  <2>3. body[p][P[k]] = IF Len(p) < PoolLimit /\ i <= Len(Queue(s, P[k]))
                        THEN Append(p, Queue(s, P[k])[i]) ELSE p
    BY <1>3, <2>2
  <2> HIDE DEF body
  <2>4. IF Len(p) < PoolLimit /\ i <= Len(Queue(s, P[k]))
        THEN Append(p, Queue(s, P[k])[i]) \in PoolsAt(s, i, served(k - 1) \cup {P[k]})
        ELSE p \in PoolsAt(s, i, served(k - 1) \cup {P[k]})
    <3>1. P[k] \in ToSet(Publishers(s)) /\ P[k] \notin served(k - 1)
      BY <1>3 DEF P
    <3> HIDE DEF I
    <3> QED
      BY <2>2, <3>1, ServeOne
  <2>5. body[p][P[k]] \in PoolsAt(s, i, served(k - 1) \cup {P[k]})
    BY <2>3, <2>4
  <2> QED
    BY <1>3, <2>1, <2>5
<1>6. Turn(pool, s, i) = Loop(body, pool, P)
  BY DEF Turn, P
<1>7. Loop(body, pool, P) \in I[Len(P)]
  <2> HIDE DEF I, body
  <2>1. \A k \in 1..Len(P) : \A p \in I[k - 1] : body[p][P[k]] \in I[k]
    BY <1>5
  <2> QED
    BY <1>1, <1>4, <2>1, LoopKeeps
<1> QED
  BY <1>4, <1>6, <1>7 DEF P

(* After the last turn the pool is full or has every queue.                *)
LEMMA TurnsFillThePool ==
  ASSUME NEW found \in SUBSET Articles, NEW c \in Categories
  PROVE  LET s == Candidates(found, c) IN
         EditorialPool(found, c) \in PoolsAt(s, MaxPerOutlet, ToSet(Publishers(s)))
<1> DEFINE s == Candidates(found, c)
           O == ToSet(Publishers(s))
           turns == [i \in 1..MaxPerOutlet |-> i]
           I == [k \in 0..Len(turns) |-> PoolsAt(s, k, O)]
           body == [pool \in Seq(Articles) |-> [i \in 1..MaxPerOutlet |-> Turn(pool, s, i)]]
<1>1. s \in Seq(Articles) /\ IsInjective(s)
  BY CandidatesByRecency
<1>2. MaxPerOutlet \in Nat /\ PoolLimit \in Nat
  BY Bounds
<1>3. /\ turns \in Seq(1..MaxPerOutlet) /\ Len(turns) = MaxPerOutlet
      /\ \A k \in 1..MaxPerOutlet : turns[k] = k
  BY <1>2
<1>4. \A o \in O : Len(Queue(s, o)) \in Nat
  BY <1>1, QueueIsFreshest, Sequences
<1> HIDE DEF s, turns
<1>5. <<>> \in I[0]
  <2> DEFINE n == [o \in O |-> 0]
  <2>1. Held(s, <<>>, n)
    BY <1>2, <1>4, Empty DEF Held
  <2>2. Even(s, n)
    <3>1. \A o \in O : Lesser(Len(Queue(s, o)), 1 - 1) <= n[o] /\ n[o] <= 1
      BY <1>4 DEF Lesser
    <3> HIDE DEF n, O
    <3> QED
      BY <3>1 DEF Even, O
  <2>3. Level(s, n, 0, O)
    BY <1>4 DEF Level, Lesser
  <2> HIDE DEF n
  <2>4. <<>> \in PoolsAt(s, 0, O)
    BY <2>1, <2>2, <2>3, Empty DEF PoolsAt
  <2> QED
    BY <1>2, <1>3, <2>4
<1>6. ASSUME NEW k \in 1..Len(turns), NEW pool \in I[k - 1]
      PROVE  body[pool][turns[k]] \in I[k]
  <2>1. k \in Nat \ {0} /\ k - 1 \in 0..Len(turns) /\ k \in 0..Len(turns) /\ k \in 1..MaxPerOutlet
    BY <1>2, <1>3
  <2>2. pool \in PoolsAt(s, k - 1, O)
    BY <1>6, <2>1
  <2>3. pool \in PoolsAt(s, k, {}) /\ pool \in Seq(Articles)
    <3>1. \A n : Level(s, n, k - 1, O) => Level(s, n, k, {})
      BY DEF Level
    <3> HIDE DEF O
    <3> QED
      BY <2>2, <3>1 DEF PoolsAt
  <2>4. body[pool][turns[k]] = Turn(pool, s, k)
    BY <1>3, <2>1, <2>3
  <2>5. Turn(pool, s, k) \in PoolsAt(s, k, O)
    BY <1>1, <2>1, <2>3, TurnServesAll
  <2> HIDE DEF body
  <2> QED
    BY <2>1, <2>4, <2>5
<1>7. EditorialPool(found, c) = Loop(body, <<>>, turns)
  BY DEF EditorialPool, s, turns
<1>8. EditorialPool(found, c) \in I[Len(turns)]
  <2> HIDE DEF I, body
  <2> QED
    BY <1>3, <1>5, <1>6, <1>7, LoopKeeps
<1> QED
  BY <1>2, <1>3, <1>8 DEF s

(* What a pool holds of one publisher is the head of his queue.            *)
LEMMA HeldCounts ==
  ASSUME NEW s \in Seq(Articles), IsInjective(s), NEW pool, NEW n, Held(s, pool, n),
         NEW o \in ToSet(Publishers(s))
  PROVE  /\ From(pool, o) = {Queue(s, o)[k] : k \in 1..n[o]}
         /\ Cardinality(From(pool, o)) = n[o]
<1> DEFINE q == Queue(s, o)
           t == FirstOf(q, n[o])
<1>1. \A p \in ToSet(Publishers(s)) :
        /\ Queue(s, p) \in Seq(Articles) /\ IsInjective(Queue(s, p))
        /\ Len(Queue(s, p)) \in Nat
        /\ \A k \in 1..Len(Queue(s, p)) : Outlet[Queue(s, p)[k]] = p
  <2> SUFFICES ASSUME NEW p \in ToSet(Publishers(s))
               PROVE  /\ Queue(s, p) \in Seq(Articles) /\ IsInjective(Queue(s, p))
                      /\ Len(Queue(s, p)) \in Nat
                      /\ \A k \in 1..Len(Queue(s, p)) : Outlet[Queue(s, p)[k]] = p
    OBVIOUS
  <2>1. /\ Queue(s, p) \in Seq(Articles) /\ IsInjective(Queue(s, p))
        /\ ToSet(Queue(s, p)) \subseteq {a \in ToSet(s) : Outlet[a] = p}
    BY QueueIsFreshest
  <2>2. Len(Queue(s, p)) \in Nat /\ \A k \in 1..Len(Queue(s, p)) : Queue(s, p)[k] \in ToSet(Queue(s, p))
    BY <2>1, Sequences
  <2> QED
    BY <2>1, <2>2
<1>2. \A p \in ToSet(Publishers(s)) : n[p] \in Nat /\ n[p] <= Len(Queue(s, p))
  BY DEF Held
<1>3. From(pool, o) = {q[k] : k \in 1..n[o]}
  <2>1. ASSUME NEW a \in From(pool, o)  PROVE \E k \in 1..n[o] : a = q[k]
    <3>1. a \in ToSet(pool) /\ Outlet[a] = o
      BY <2>1 DEF From
    <3>2. PICK p \in ToSet(Publishers(s)) : \E k \in 1..n[p] : a = Queue(s, p)[k]
      BY <3>1 DEF Held
    <3>3. PICK k \in 1..n[p] : a = Queue(s, p)[k]
      BY <3>2
    <3>4. k \in 1..Len(Queue(s, p))
      BY <1>1, <1>2
    <3>5. p = o
      BY <1>1, <3>1, <3>3, <3>4
    <3> QED
      BY <3>3, <3>5
  <2>2. ASSUME NEW k \in 1..n[o]  PROVE q[k] \in From(pool, o)
    <3>1. q[k] \in ToSet(pool)
      BY DEF Held
    <3>2. k \in 1..Len(q)
      BY <1>1, <1>2
    <3> QED
      BY <1>1, <3>1, <3>2 DEF From
  <2> QED
    BY <2>1, <2>2
<1> HIDE DEF q
<1>4. n[o] \in Nat /\ n[o] <= Len(q) /\ q \in Seq(Articles) /\ IsInjective(q) /\ Len(q) \in Nat
  BY <1>1, <1>2 DEF q
<1> HIDE DEF t
<1>5. /\ t \in Seq(Articles) /\ Len(t) = n[o] /\ IsInjective(t)
      /\ \A k \in 1..n[o] : t[k] = q[k]
  <2>1. Lesser(n[o], Len(q)) = n[o]
    BY <1>4 DEF Lesser
  <2> QED
    BY <1>4, <2>1, FirstItems DEF t
<1>6. ToSet(t) = {q[k] : k \in 1..n[o]}
  <2>1. ToSet(t) = {t[k] : k \in 1..n[o]}
    BY <1>5, Sequences
  <2> QED
    BY <1>5, <2>1
<1>7. Cardinality(ToSet(t)) = n[o]
  BY <1>5, LengthCounts
<1> QED
  BY <1>3, <1>6, <1>7 DEF q

(* The pool of a category is fair to the publishers, whatever was found.   *)
THEOREM PoolsAreBalanced ==
  ASSUME NEW found \in SUBSET Articles, NEW c \in Categories
  PROVE  BalancedPool(found, c)
<1> DEFINE s == Candidates(found, c)
           O == ToSet(Publishers(s))
           pool == EditorialPool(found, c)
           outlets == {Outlet[a] : a \in Articles}
           of(o) == OfOutlet(found, c, o)
           share == [o \in outlets |-> Lesser(MaxPerOutlet, Cardinality(of(o)))]
           held == [o \in outlets |-> Cardinality(From(pool, o))]
<1>1. /\ s \in Seq(Articles) /\ IsInjective(s) /\ InOrderOf(s, ByRecency)
      /\ ToSet(s) = {a \in found : Category[a] = c}
  BY CandidatesByRecency
<1>2. PICK n : /\ Held(s, pool, n) /\ Even(s, n)
               /\ Len(pool) < PoolLimit => Level(s, n, MaxPerOutlet, O)
  BY TurnsFillThePool DEF PoolsAt
<1>3. \A o : {a \in ToSet(s) : Outlet[a] = o} = of(o)
  BY <1>1 DEF OfOutlet
<1>4. O = {Outlet[a] : a \in ToSet(s)} /\ O \subseteq outlets
  BY <1>1, PublishersOnce
<1> HIDE DEF s, pool, outlets, of
<1>5. ASSUME NEW o \in O
      PROVE  /\ n[o] \in Nat /\ Len(Queue(s, o)) \in Nat
             /\ n[o] <= Len(Queue(s, o)) /\ Len(Queue(s, o)) = share[o]
             /\ held[o] = n[o] /\ From(pool, o) = {Queue(s, o)[k] : k \in 1..n[o]}
             /\ From(pool, o) \subseteq of(o)
  <2>1. n[o] \in Nat /\ n[o] <= Len(Queue(s, o))
    BY <1>2 DEF Held
  <2>2. /\ Len(Queue(s, o)) = Lesser(MaxPerOutlet, Cardinality(of(o)))
        /\ Queue(s, o) \in Seq(Articles) /\ ToSet(Queue(s, o)) \subseteq of(o)
    BY <1>1, <1>3, QueueIsFreshest
  <2>3. /\ From(pool, o) = {Queue(s, o)[k] : k \in 1..n[o]}
        /\ Cardinality(From(pool, o)) = n[o]
    BY <1>1, <1>2, HeldCounts
  <2>4. Len(Queue(s, o)) \in Nat /\ \A k \in 1..Len(Queue(s, o)) : Queue(s, o)[k] \in ToSet(Queue(s, o))
    BY <2>2, Sequences
  <2>5. o \in outlets
    BY <1>4
  <2>6. From(pool, o) \subseteq of(o)
    <3>1. \A k \in 1..n[o] : k \in 1..Len(Queue(s, o))
      BY <2>1, <2>4
    <3> QED
      BY <2>2, <2>3, <2>4, <3>1
  <2> QED
    BY <2>1, <2>2, <2>3, <2>4, <2>5, <2>6
<1>6. ASSUME NEW o \in outlets, o \notin O
      PROVE  of(o) = {} /\ From(pool, o) = {} /\ held[o] = 0 /\ share[o] = 0
  <2>1. of(o) = {}
    BY <1>1, <1>4, <1>6 DEF of, OfOutlet
  <2>2. ASSUME NEW a \in From(pool, o)  PROVE FALSE
    <3>1. a \in ToSet(pool) /\ Outlet[a] = o
      BY <2>2 DEF From
    <3>2. PICK p \in O : \E k \in 1..n[p] : a = Queue(s, p)[k]
      BY <1>2, <3>1 DEF Held
    <3>3. a \in From(pool, p)
      BY <1>5, <3>2
    <3> QED
      BY <1>6, <3>1, <3>2, <3>3 DEF From
  <2>3. Cardinality({}) = 0 /\ Lesser(MaxPerOutlet, 0) = 0
    BY Bounds, FS_EmptySet DEF Lesser
  <2> QED
    BY <2>1, <2>2, <2>3
<1> HIDE DEF O, share, held
<1>7. IsInjective(pool) /\ Len(pool) <= PoolLimit
  BY <1>2 DEF Held
<1>8. ASSUME Len(pool) < PoolLimit  PROVE held = share
  <2>1. ASSUME NEW o \in O  PROVE held[o] = share[o]
    <3>1. n[o] = Lesser(Len(Queue(s, o)), MaxPerOutlet)
      BY <1>2, <1>8 DEF Level, O
    <3>2. Len(Queue(s, o)) <= MaxPerOutlet
      <4>1. Len(Queue(s, o)) = Lesser(MaxPerOutlet, Cardinality(of(o))) /\ IsFiniteSet(of(o))
        BY <1>1, <1>3, QueueIsFreshest
      <4>2. Cardinality(of(o)) \in Nat
        BY <4>1, FS_CardinalityType
      <4> QED
        BY <4>1, <4>2, Bounds DEF Lesser
    <3> QED
      BY <1>5, <3>1, <3>2, Bounds DEF Lesser
  <2>2. \A o \in outlets : held[o] = share[o]
    BY <1>6, <2>1
  <2> QED
    BY <2>2 DEF held, share
<1>9. ASSUME NEW o \in outlets
      PROVE  From(pool, o) \subseteq of(o) /\ held[o] <= share[o]
  <2>1. CASE o \in O
    <3>1. /\ held[o] = n[o] /\ share[o] = Len(Queue(s, o)) /\ n[o] <= Len(Queue(s, o))
          /\ From(pool, o) \subseteq of(o)
      BY <1>5, <2>1
    <3> QED
      BY <3>1
  <2>2. CASE o \notin O
    BY <1>6, <2>2
  <2> QED
    BY <2>1, <2>2
<1>10. ASSUME NEW o \in outlets, NEW a \in From(pool, o), NEW b \in of(o) \ From(pool, o)
       PROVE  Older(b, a)
  <2>1. o \in O
    BY <1>6, <1>10
  <2>2. PICK i \in 1..n[o] : a = Queue(s, o)[i]
    BY <1>5, <1>10, <2>1
  <2>3. n[o] \in 0..Len(Queue(s, o)) /\ b \notin {Queue(s, o)[k] : k \in 1..n[o]}
    BY <1>5, <1>10, <2>1
  <2>4. \E p, r \in 1..Len(s) : p < r /\ s[p] = a /\ s[r] = b
    <3>1. b \in ToSet(s) /\ Outlet[b] = o
      BY <1>3, <1>10
    <3>2. s \in Seq(Articles) /\ IsInjective(s)
      BY <1>1
    <3>3. \E p, r \in 1..Len(s) : p < r /\ s[p] = Queue(s, o)[i] /\ s[r] = b
      BY <2>3, <3>1, <3>2, QueueLeavesOlder
    <3> QED
      BY <2>2, <3>3
  <2>5. PICK p \in 1..Len(s), r \in 1..Len(s) : p < r /\ s[p] = a /\ s[r] = b
    BY <2>4
  <2>6. \E u, v \in 1..Len(ByRecency) : u < v /\ ByRecency[u] = a /\ ByRecency[v] = b
    BY <1>1, <2>5 DEF InOrderOf
  <2>7. DOMAIN ByRecency = 1..Len(ByRecency) /\ Len(ByRecency) \in Nat
    BY Bounds, Sequences
  <2> QED
    BY <2>6, <2>7 DEF Older
<1>11. ASSUME NEW o \in outlets, NEW p \in outlets, held[o] > held[p] + 1
       PROVE  held[p] = share[p]
  <2>1. CASE p \notin O
    BY <1>6, <2>1
  <2>2. CASE p \in O
    <3>1. o \in O
      BY <1>5, <1>6, <1>11, <2>2
    <3>2. PICK i \in Nat \ {0} : \A r \in O : Lesser(Len(Queue(s, r)), i - 1) <= n[r] /\ n[r] <= i
      BY <1>2 DEF Even, O
    <3> QED
      BY <1>5, <1>11, <2>2, <3>1, <3>2 DEF Lesser
  <2> QED
    BY <2>1, <2>2
<1> QED
  BY <1>7, <1>8, <1>9, <1>10, <1>11 DEF BalancedPool, pool, outlets, of, share, held

-----------------------------------------------------------------------------
(* The result of one category                                               *)

(* A pool lists articles of its category, each once.                       *)
LEMMA PoolsListArticles ==
  ASSUME NEW found \in SUBSET Articles, NEW c \in Categories
  PROVE  LET pool == EditorialPool(found, c) IN
         pool \in Seq(Articles) /\ IsInjective(pool) /\ \A a \in ToSet(pool) : Category[a] = c
<1> DEFINE s == Candidates(found, c)
           pool == EditorialPool(found, c)
<1>1. /\ s \in Seq(Articles) /\ IsInjective(s)
      /\ ToSet(s) = {a \in found : Category[a] = c}
  BY CandidatesByRecency
<1>2. PICK n : Held(s, pool, n)
  BY TurnsFillThePool DEF PoolsAt
<1> HIDE DEF s, pool
<1>3. ASSUME NEW a \in ToSet(pool)  PROVE Category[a] = c
  <2>1. PICK o \in ToSet(Publishers(s)) : \E k \in 1..n[o] : a = Queue(s, o)[k]
    BY <1>2 DEF Held
  <2>2. PICK k \in 1..n[o] : a = Queue(s, o)[k]
    BY <2>1
  <2>3. /\ Queue(s, o) \in Seq(Articles)
        /\ ToSet(Queue(s, o)) \subseteq {x \in ToSet(s) : Outlet[x] = o}
    BY <1>1, QueueIsFreshest
  <2>4. k \in 1..Len(Queue(s, o))
    <3>1. Len(Queue(s, o)) \in Nat /\ n[o] \in Nat /\ n[o] <= Len(Queue(s, o))
      BY <1>2, <2>3, Sequences DEF Held
    <3> QED
      BY <3>1
  <2>5. a \in ToSet(Queue(s, o))
    BY <2>2, <2>3, <2>4, Sequences
  <2> QED
    BY <1>1, <2>3, <2>5
<1> QED
  BY <1>2, <1>3 DEF Held, pool

(* The audit keeps what the answer and the pool share, up to the target.   *)
LEMMA AuditKeepsLinks ==
  ASSUME NEW T, NEW links \in Seq(T), NEW pool \in Seq(Articles)
  PROVE  LET r == Audit(links, pool)
             shared == ToSet(links) \cap ToSet(pool)
         IN  /\ r \in Seq(Articles) /\ IsInjective(r) /\ ToSet(r) \subseteq shared
             /\ Len(r) \in Nat /\ Len(r) <= Target(pool)
             /\ IsFiniteSet(ToSet(r)) /\ Cardinality(ToSet(r)) = Len(r)
             /\ IsFiniteSet(shared) /\ Len(r) = Lesser(Target(pool), Cardinality(shared))
             /\ Len(r) < Target(pool) => ToSet(r) = shared
<1> DEFINE r == Audit(links, pool)
           shared == ToSet(links) \cap ToSet(pool)
           those == Those(links, ToSet(pool))
           once == Distinct(those)
<1>1. those \in Seq(T) /\ ToSet(those) = shared
  BY ThoseAreListed
<1>2. r = FirstOf(once, Target(pool))
  BY DEF Audit
<1>3. Target(pool) \in Nat
  BY Bounds, Sequences DEF Target, Lesser
<1> HIDE DEF those, shared
<1>4. once \in Seq(T) /\ ToSet(once) = shared /\ IsInjective(once)
  BY <1>1, DistinctIsInjective
<1> HIDE DEF once, r
<1>5. /\ r \in Seq(T) /\ IsInjective(r) /\ ToSet(r) \subseteq shared
      /\ Len(r) = Lesser(Target(pool), Len(once)) /\ Len(r) <= Target(pool)
      /\ Len(once) <= Target(pool) => r = once
  BY <1>2, <1>3, <1>4, FirstItems
<1>6. IsFiniteSet(shared) /\ Len(once) = Cardinality(shared)
  BY <1>4, LengthCounts
<1>7. IsFiniteSet(ToSet(r)) /\ Cardinality(ToSet(r)) = Len(r)
  BY <1>5, LengthCounts
<1>8. r \in Seq(Articles)
  <2>1. ToSet(pool) \subseteq Articles
    BY Sequences
  <2>2. ToSet(r) \subseteq Articles
    BY <1>5, <2>1 DEF shared
  <2> QED
    BY <1>5, <2>2, SequenceOfItsItems
<1>9. Len(r) \in Nat /\ Len(once) \in Nat
  BY <1>4, <1>5, Sequences
<1>10. Len(r) < Target(pool) => ToSet(r) = shared
  BY <1>3, <1>4, <1>5, <1>9 DEF Lesser
<1> QED
  BY <1>5, <1>6, <1>7, <1>8, <1>9, <1>10 DEF r, shared

(* The repair adds to a short selection what the second answer has more.   *)
LEMMA RepairAddsLinks ==
  ASSUME NEW T, NEW links \in Seq(T), NEW pool \in Seq(Articles), IsInjective(pool),
         NEW U, NEW more \in Seq(U), Len(Audit(links, pool)) < Target(pool)
  PROVE  LET t == Repaired(pool, Audit(links, pool), more)
             shared == (ToSet(links) \cap ToSet(pool)) \cup (ToSet(more) \cap ToSet(pool))
         IN  /\ t \in Seq(Articles) /\ IsInjective(t) /\ ToSet(t) \subseteq ToSet(pool)
             /\ Len(t) = Lesser(MaxItems, Cardinality(shared))
             /\ \A u \in ToSet(links) \cap ToSet(pool) : u \in ToSet(t)
<1> DEFINE r == Audit(links, pool)
           A == ToSet(links) \cap ToSet(pool)
           B == ToSet(more) \cap ToSet(pool)
           rest == Remaining(pool, r)
           found == Audit(more, rest)
           added == FirstOf(found, Target(pool) - Len(r))
           t == Repaired(pool, r, more)
<1>1. t = Audit(r \o added, pool)
  BY DEF Repaired
<1>2. /\ r \in Seq(Articles) /\ IsInjective(r) /\ ToSet(r) = A /\ Len(r) \in Nat
      /\ IsFiniteSet(A) /\ Cardinality(A) = Len(r)
  BY AuditKeepsLinks
<1>3. /\ Target(pool) \in Nat /\ MaxItems \in Nat /\ Len(pool) \in Nat
      /\ Target(pool) = Lesser(Len(pool), MaxItems)
  BY Bounds, Sequences DEF Target, Lesser
<1>4. Len(r) < Target(pool)
  OBVIOUS
<1>5. IsFiniteSet(ToSet(pool)) /\ Cardinality(ToSet(pool)) = Len(pool)
  BY LengthCounts
<1> HIDE DEF r, t
<1>6. rest \in Seq(Articles) /\ IsInjective(rest) /\ ToSet(rest) = ToSet(pool) \ A
  <2>1. ToSet(pool) \cap (ToSet(pool) \ ToSet(r)) = ToSet(pool) \ A
    BY <1>2
  <2> DEFINE S == ToSet(pool) \ ToSet(r)
  <2> HIDE DEF S
  <2>2. Those(pool, S) \in Seq(Articles) /\ IsInjective(Those(pool, S)) /\ ToSet(Those(pool, S)) = ToSet(pool) \cap S
    BY ThoseAreListed
  <2> QED
    BY <2>1, <2>2 DEF Remaining, S
<1> HIDE DEF rest
<1>7. Len(rest) = Len(pool) - Len(r)
  <2>1. IsFiniteSet(ToSet(rest)) /\ Cardinality(ToSet(rest)) = Len(rest) /\ Len(rest) \in Nat
    BY <1>6, LengthCounts, Sequences
  <2>2. A \cap ToSet(rest) = {} /\ A \cup ToSet(rest) = ToSet(pool)
    BY <1>6
  <2> HIDE DEF A
  <2>3. Cardinality(ToSet(pool)) = Cardinality(A) + Cardinality(ToSet(rest))
    BY <1>2, <2>1, <2>2, CountedApart
  <2> QED
    BY <1>2, <1>3, <1>5, <2>1, <2>3
<1>8. Target(rest) = Lesser(Len(pool) - Len(r), MaxItems)
  BY <1>7 DEF Target
<1>9. B \ A = ToSet(more) \cap ToSet(rest)
  BY <1>6
<1>10. /\ found \in Seq(Articles) /\ IsInjective(found) /\ ToSet(found) \subseteq B \ A
       /\ IsFiniteSet(B \ A) /\ Len(found) = Lesser(Target(rest), Cardinality(B \ A))
  <2>1. LET shared == ToSet(more) \cap ToSet(rest) IN
        /\ found \in Seq(Articles) /\ IsInjective(found) /\ ToSet(found) \subseteq shared
        /\ IsFiniteSet(shared) /\ Len(found) = Lesser(Target(rest), Cardinality(shared))
    BY <1>6, AuditKeepsLinks, ZenonT(60)
  <2> HIDE DEF found, A, B
  <2> QED
    BY <1>9, <2>1
<1> HIDE DEF A, B, found
<1>11. /\ added \in Seq(Articles) /\ IsInjective(added) /\ ToSet(added) \subseteq B \ A
       /\ Len(added) = Lesser(Target(pool) - Len(r), Len(found)) /\ Len(added) \in Nat
  <2>1. Target(pool) - Len(r) \in Nat
    BY <1>2, <1>3, <1>4
  <2> HIDE DEF added
  <2>2. added = FirstOf(found, Target(pool) - Len(r))
    BY DEF added
  <2> QED
    BY <1>10, <2>1, <2>2, FirstItems, Sequences
<1>12. IsFiniteSet(ToSet(added)) /\ Cardinality(ToSet(added)) = Len(added)
  BY <1>11, LengthCounts
<1> HIDE DEF added
<1>13. Cardinality(B \ A) \in Nat
  BY <1>10, FS_CardinalityType
<1>14. Len(added) = Lesser(Target(pool) - Len(r), Cardinality(B \ A))
  BY <1>2, <1>3, <1>4, <1>8, <1>10, <1>11, <1>13, SMTT(30) DEF Lesser
<1>15. A \subseteq ToSet(pool) /\ B \subseteq ToSet(pool)
  BY DEF A, B
<1>16. ToSet(r \o added) \cap ToSet(pool) = A \cup ToSet(added) /\ r \o added \in Seq(Articles)
  <2>1. r \o added \in Seq(Articles) /\ ToSet(r \o added) = A \cup ToSet(added)
    BY <1>2, <1>11, Joined
  <2> QED
    BY <1>11, <1>15, <2>1
<1>17. Cardinality(A \cup ToSet(added)) = Len(r) + Len(added) /\ IsFiniteSet(A \cup ToSet(added))
  <2>1. A \cap ToSet(added) = {}
    BY <1>11
  <2> QED
    BY <1>2, <1>12, <2>1, CountedApart
<1>18. Len(r) + Len(added) <= Target(pool)
  BY <1>2, <1>3, <1>4, <1>11, <1>13, <1>14 DEF Lesser
<1>19. /\ t \in Seq(Articles) /\ IsInjective(t) /\ ToSet(t) \subseteq A \cup ToSet(added)
       /\ Len(t) = Len(r) + Len(added)
       /\ IsFiniteSet(ToSet(t)) /\ Cardinality(ToSet(t)) = Len(t)
  <2>1. LET T2 == ToSet(r \o added) \cap ToSet(pool) IN
        /\ t \in Seq(Articles) /\ IsInjective(t) /\ ToSet(t) \subseteq T2
        /\ Len(t) = Lesser(Target(pool), Cardinality(T2))
        /\ IsFiniteSet(ToSet(t)) /\ Cardinality(ToSet(t)) = Len(t)
    BY <1>1, <1>16, AuditKeepsLinks, ZenonT(60)
  <2>2. Lesser(Target(pool), Len(r) + Len(added)) = Len(r) + Len(added)
    BY <1>2, <1>3, <1>11, <1>18 DEF Lesser
  <2> QED
    BY <1>16, <1>17, <2>1, <2>2
<1>20. ToSet(t) = A \cup ToSet(added)
  BY <1>17, <1>19, FS_Subset
<1>21. Cardinality(A \cup B) = Len(r) + Cardinality(B \ A) /\ IsFiniteSet(A \cup B)
  <2>1. A \cap (B \ A) = {} /\ A \cup (B \ A) = A \cup B
    OBVIOUS
  <2>2. IsFiniteSet(A \cup (B \ A)) /\ Cardinality(A \cup (B \ A)) = Cardinality(A) + Cardinality(B \ A)
    BY <1>2, <1>10, <2>1, CountedApart
  <2> QED
    BY <1>2, <2>1, <2>2
<1>22. Cardinality(A \cup B) <= Len(pool)
  BY <1>5, <1>15, FS_Subset
<1>23. Len(t) = Lesser(MaxItems, Cardinality(A \cup B))
  BY <1>2, <1>3, <1>4, <1>13, <1>14, <1>19, <1>21, <1>22 DEF Lesser
<1>24. ToSet(t) \subseteq ToSet(pool) /\ \A u \in A : u \in ToSet(t)
  BY <1>11, <1>15, <1>20
<1> QED
  BY <1>19, <1>23, <1>24 DEF r, t, A, B

(* The title list carries titles of the pool.                              *)
LEMMA FallbackListsTitles ==
  ASSUME NEW pool \in Seq(Articles), IsInjective(pool)
  PROVE  /\ Fallback(pool).degraded = TRUE
         /\ Fallback(pool).items \in Seq(Articles) /\ IsInjective(Fallback(pool).items)
         /\ ToSet(Fallback(pool).items) \subseteq ToSet(pool)
         /\ ToSet(Fallback(pool).items) \cap Untitled = {} /\ Len(Fallback(pool).items) <= MaxItems
<1> DEFINE S == ToSet(pool) \ Untitled
           those == Those(pool, S)
           t == FirstOf(those, MaxItems)
<1>1. ToSet(pool) \cap S = S
  OBVIOUS
<1>2. Fallback(pool).degraded = TRUE /\ Fallback(pool).items = t
  BY DEF Fallback
<1> HIDE DEF S
<1>3. those \in Seq(Articles) /\ ToSet(those) = S /\ IsInjective(those)
  BY <1>1, ThoseAreListed
<1> HIDE DEF those
<1>4. t \in Seq(Articles) /\ Len(t) <= MaxItems /\ ToSet(t) \subseteq S /\ IsInjective(t)
  BY <1>3, Bounds, FirstItems
<1> QED
  BY <1>2, <1>4 DEF S

(* Whatever the model answers, the result is an audit of it, or a title    *)
(* list after a failure.                                                   *)
LEMMA ResultIsVerified ==
  ASSUME NEW pool \in Seq(Articles), IsInjective(pool), pool # <<>>,
         NEW a \in Answers(pool), NEW r \in Answers(pool)
  PROVE  GenerateResult(pool, a, r).items \in Seq(Articles) /\ VerifiedResult(pool, a, r)
<1> DEFINE T == ToSet(pool) \cup {Invented}
           result == GenerateResult(pool, a, r)
           A == IF a = Broken THEN {} ELSE ToSet(a) \cap ToSet(pool)
           R == IF r = Broken THEN {} ELSE ToSet(r) \cap ToSet(pool)
           accepted == Audit(a, pool)
<1>1. (a = Broken \/ a \in Seq(T)) /\ (r = Broken \/ r \in Seq(T))
  <2>1. \A s \in BoundedSeq(T, MaxItems) : s \in Seq(T)
    <3>1. BoundedSeq(T, MaxItems) = UNION {[1..m -> T] : m \in 0..MaxItems}
      BY DEF BoundedSeq, SeqOf
    <3>2. \A m \in 0..MaxItems : \A s \in [1..m -> T] : s \in Seq(T)
      BY Bounds, SeqDef
    <3> QED
      BY <3>1, <3>2
  <2> QED
    BY <2>1 DEF Answers
<1>2. /\ Len(pool) \in Nat /\ Len(pool) > 0 /\ MaxItems \in Nat /\ MaxItems > 0
      /\ Target(pool) \in Nat /\ Target(pool) > 0 /\ Target(pool) = Lesser(Len(pool), MaxItems)
  <2>1. Len(pool) \in Nat /\ Len(pool) # 0 /\ MaxItems \in Nat \ {0}
    BY Bounds, EmptySeq, Sequences
  <2> QED
    BY <2>1 DEF Target, Lesser
<1>3. IsFiniteSet(ToSet(pool)) /\ Cardinality(ToSet(pool)) = Len(pool)
  BY LengthCounts
<1>4. A \subseteq ToSet(pool) /\ R \subseteq ToSet(pool)
  OBVIOUS
<1>5. /\ IsFiniteSet(A \cup R) /\ Cardinality(A \cup R) \in Nat /\ Cardinality(A \cup R) <= Len(pool)
      /\ IsFiniteSet(A) /\ Cardinality(A) \in Nat /\ Cardinality(A) <= Cardinality(A \cup R)
      /\ Cardinality(A) = 0 <=> A = {}
  <2> HIDE DEF A, R
  <2>1. A \cup R \subseteq ToSet(pool) /\ A \subseteq A \cup R
    BY <1>4
  <2>2. /\ IsFiniteSet(A \cup R) /\ Cardinality(A \cup R) <= Len(pool)
    BY <1>3, <2>1, FS_Subset
  <2>3. /\ IsFiniteSet(A) /\ Cardinality(A) <= Cardinality(A \cup R)
    BY <2>1, <2>2, FS_Subset
  <2> QED
    BY <2>2, <2>3, FS_CardinalityType, FS_EmptySet
<1> HIDE DEF T, result
<1>6. SUFFICES
        /\ result.items \in Seq(Articles) /\ IsInjective(result.items)
        /\ ToSet(result.items) \subseteq ToSet(pool) /\ Len(result.items) <= MaxItems
        /\ result.degraded <=> (a = Broken \/ (A = {} /\ r = Broken))
        /\ result.degraded => ToSet(result.items) \cap Untitled = {}
        /\ ~ result.degraded =>
             /\ Len(result.items) = Lesser(MaxItems, Cardinality(A \cup R))
             /\ \A u \in A : u \in ToSet(result.items) \/ Len(result.items) = MaxItems
  <2> HIDE DEF A, R
  <2> DEFINE links(s) == IF s = Broken THEN {} ELSE ToSet(s) \cap ToSet(pool)
  <2>1. A = links(a) /\ R = links(r)
    BY DEF A, R
  <2> HIDE DEF links
  <2>2. /\ IsInjective(result.items) /\ ToSet(result.items) \subseteq ToSet(pool)
        /\ Len(result.items) <= MaxItems
        /\ result.degraded <=> a = Broken \/ (links(a) = {} /\ r = Broken)
        /\ IF result.degraded THEN ToSet(result.items) \cap Untitled = {}
           ELSE Len(result.items) = Lesser(MaxItems, Cardinality(links(a) \cup links(r)))
                /\ \A u \in links(a) : u \in ToSet(result.items) \/ Len(result.items) = MaxItems
    BY <1>6, <2>1
  <2> QED
    BY <1>6, <2>2 DEF VerifiedResult, result, links
<1>7. CASE a = Broken
  <2>1. result = Fallback(pool)
    BY <1>7 DEF result, GenerateResult
  <2> HIDE DEF A, R
  <2> QED
    BY <1>7, <2>1, FallbackListsTitles
<1>8. CASE a # Broken
  <2>1. /\ accepted \in Seq(Articles) /\ IsInjective(accepted) /\ ToSet(accepted) \subseteq A
        /\ Len(accepted) \in Nat /\ Len(accepted) <= Target(pool)
        /\ Len(accepted) = Lesser(Target(pool), Cardinality(A))
        /\ IsFiniteSet(ToSet(accepted)) /\ Cardinality(ToSet(accepted)) = Len(accepted)
        /\ Len(accepted) < Target(pool) => ToSet(accepted) = A
    <3>1. a \in Seq(T) /\ A = ToSet(a) \cap ToSet(pool)
      BY <1>1, <1>8
    <3> QED
      BY <3>1, AuditKeepsLinks, ZenonT(60)
  <2>2. Len(accepted) = 0 <=> accepted = <<>>
    BY <2>1, EmptySeq
  <2>3. Target(pool) <= MaxItems /\ Target(pool) <= Len(pool)
    BY <1>2 DEF Lesser
  <2>4. CASE Len(accepted) = Target(pool)
    <3>1. result.items = accepted /\ result.degraded = FALSE
      BY <1>8, <2>4 DEF result, GenerateResult
    <3> HIDE DEF accepted, A, R
    <3>2. A # {}
      BY <1>2, <1>5, <2>1, <2>4 DEF Lesser
    <3>3. Len(accepted) = Lesser(MaxItems, Cardinality(A \cup R))
      BY <1>2, <1>5, <2>1, <2>3, <2>4 DEF Lesser
    <3>4. ASSUME NEW u \in A, Len(accepted) # MaxItems  PROVE u \in ToSet(accepted)
      <4>1. Len(accepted) = Len(pool)
        BY <1>2, <2>4, <3>4 DEF Lesser
      <4>2. ToSet(accepted) = ToSet(pool)
        <5>1. ToSet(accepted) \subseteq ToSet(pool)
          BY <1>4, <2>1
        <5> QED
          BY <1>3, <2>1, <4>1, <5>1, FS_Subset
      <4> QED
        BY <1>4, <4>2
    <3>5. ToSet(accepted) \subseteq ToSet(pool) /\ Len(accepted) <= MaxItems
      BY <1>2, <1>4, <2>1, <2>3
    <3> QED
      BY <1>8, <2>1, <3>1, <3>2, <3>3, <3>4, <3>5
  <2>5. CASE Len(accepted) < Target(pool) /\ r # Broken
    <3> DEFINE t == Repaired(pool, accepted, r)
    <3>1. result.items = t /\ result.degraded = FALSE
      <4>1. Len(accepted) # Target(pool)
        BY <1>2, <2>1, <2>5
      <4> QED
        BY <1>8, <2>5, <4>1 DEF result, GenerateResult
    <3>2. /\ t \in Seq(Articles) /\ IsInjective(t) /\ ToSet(t) \subseteq ToSet(pool)
          /\ Len(t) = Lesser(MaxItems, Cardinality(A \cup R))
          /\ \A u \in A : u \in ToSet(t)
      <4>1. a \in Seq(T) /\ r \in Seq(T)
        BY <1>1, <1>8, <2>5
      <4>2. LET shared == (ToSet(a) \cap ToSet(pool)) \cup (ToSet(r) \cap ToSet(pool)) IN
            /\ t \in Seq(Articles) /\ IsInjective(t) /\ ToSet(t) \subseteq ToSet(pool)
            /\ Len(t) = Lesser(MaxItems, Cardinality(shared))
            /\ \A u \in ToSet(a) \cap ToSet(pool) : u \in ToSet(t)
        BY <2>5, <4>1, RepairAddsLinks
      <4>3. A = ToSet(a) \cap ToSet(pool) /\ R = ToSet(r) \cap ToSet(pool)
        BY <1>8, <2>5
      <4> HIDE DEF A, R, t
      <4> QED
        BY <4>2, <4>3
    <3> HIDE DEF t, accepted, A, R
    <3>3. Len(t) <= MaxItems
      BY <1>2, <1>5, <3>2 DEF Lesser
    <3> QED
      BY <1>8, <2>5, <3>1, <3>2, <3>3
  <2>6. CASE Len(accepted) < Target(pool) /\ r = Broken
    <3>1. /\ ~ (Len(accepted) = Target(pool)) /\ R = {} /\ A \cup R = A
      BY <1>2, <2>1, <2>6
    <3>2. CASE accepted = <<>>
      <4>1. result = Fallback(pool)
        BY <1>8, <2>6, <3>1, <3>2 DEF result, GenerateResult
      <4>2. A = {}
        BY <2>1, <2>6, <3>2, Empty
      <4> HIDE DEF A, R
      <4> QED
        BY <2>6, <4>1, <4>2, FallbackListsTitles
    <3>3. CASE accepted # <<>>
      <4>1. result.items = accepted /\ result.degraded = FALSE
        BY <1>8, <2>6, <3>1, <3>3 DEF result, GenerateResult
      <4> HIDE DEF accepted, A, R
      <4>2. A # {}
        BY <1>2, <1>5, <2>1, <2>2, <3>3 DEF Lesser
      <4>3. Cardinality(A) = Len(accepted)
        BY <2>1, <2>6
      <4>4. /\ Len(accepted) = Lesser(MaxItems, Cardinality(A \cup R)) /\ Len(accepted) <= MaxItems
        BY <1>2, <2>1, <2>3, <2>6, <3>1, <4>3 DEF Lesser
      <4> QED
        BY <1>4, <1>8, <2>1, <2>6, <4>1, <4>2, <4>4
    <3> QED
      BY <3>2, <3>3
  <2> QED
    BY <1>2, <2>1, <2>4, <2>5, <2>6
<1> QED
  BY <1>7, <1>8

-----------------------------------------------------------------------------
(* The message                                                              *)

Under(m, i) ==
  \E j \in 1..(i - 1) : /\ m.lines[j] = Category[m.lines[i]]
                        /\ \A k \in (j + 1)..i : m.lines[k] \notin Categories

HeadingsAreShort == \A a \in Articles : HeadingBytes <= Bytes[a]

(* The messages there may be after the headings C and the items P.         *)
Offered(C, P) ==
  {m \in Messages :
     /\ m.bytes <= MaxBytes /\ IsInjective(m.lines) /\ ToSet(m.lines) \subseteq C \cup P
     /\ \A a \in P : m.bytes + Bytes[a] <= MaxBytes => a \in ToSet(m.lines)
     /\ HeadingsAreShort =>
          \A i \in 1..Len(m.lines) : m.lines[i] \in Articles => Under(m, i)}

(* The last heading of the message is c, unless there was no room for it.  *)
InSection(m, c) ==
  \/ m.bytes + HeadingBytes > MaxBytes
  \/ \E j \in 1..Len(m.lines) : /\ m.lines[j] = c
                                /\ \A k \in (j + 1)..Len(m.lines) : m.lines[k] \notin Categories

(* The sizes of the lines and the order of the categories, likewise.       *)
LEMMA Sizes ==
  /\ HeadingBytes \in Nat /\ TitleBytes \in Nat /\ FocusBytes \in Nat /\ MaxBytes \in Nat
  /\ TitleBytes + FocusBytes <= MaxBytes /\ Bytes \in [Articles -> Nat]
  /\ Categories \cap Articles = {} /\ Category \in [Articles -> Categories]
  /\ CategoryOrder \in Seq(Categories) /\ IsInjective(CategoryOrder)
BY EditionConstantsOK

\* Message t is m and, after it, one line of b bytes.
LineAfter(t, m, x, b) ==
  /\ t \in Messages /\ t.bytes = m.bytes + b /\ IsInjective(t.lines)
  /\ Len(m.lines) \in Nat /\ Len(t.lines) = Len(m.lines) + 1 /\ t.lines[Len(m.lines) + 1] = x
  /\ \A i \in 1..Len(m.lines) : t.lines[i] = m.lines[i]
  /\ ToSet(t.lines) = ToSet(m.lines) \cup {x}

(* A line that fits comes last.                                            *)
LEMMA LineComesLast ==
  ASSUME NEW m \in Messages, IsInjective(m.lines),
         NEW x \in Categories \cup Articles, x \notin ToSet(m.lines),
         NEW b \in Nat, m.bytes + b <= MaxBytes
  PROVE  LineAfter(AddLine(m, x, b), m, x, b)
<1> DEFINE t == AddLine(m, x, b)
<1>1. m.lines \in Seq(Categories \cup Articles) /\ m.bytes \in Nat
  BY DEF Messages
<1>2. t = [lines |-> Append(m.lines, x), bytes |-> m.bytes + b]
  BY DEF AddLine
<1>3. LET l == Append(m.lines, x) IN
      /\ l \in Seq(Categories \cup Articles) /\ IsInjective(l)
      /\ Len(l) = Len(m.lines) + 1 /\ l[Len(m.lines) + 1] = x
      /\ \A i \in 1..Len(m.lines) : l[i] = m.lines[i]
      /\ ToSet(l) = ToSet(m.lines) \cup {x}
  BY <1>1, Longer
<1>4. Len(m.lines) \in Nat
  BY <1>1, Sequences
<1>5. t \in Messages
  BY <1>1, <1>2, <1>3 DEF Messages
<1> QED
  BY <1>2, <1>3, <1>4, <1>5 DEF LineAfter

(* Where a line stands does not change when another comes last.            *)
LEMMA StaysUnder ==
  ASSUME NEW m, NEW t, NEW n \in Nat, \A i \in 1..n : t.lines[i] = m.lines[i],
         NEW i \in 1..n, Under(m, i)
  PROVE  Under(t, i)
<1>1. PICK j \in 1..(i - 1) : /\ m.lines[j] = Category[m.lines[i]]
                              /\ \A k \in (j + 1)..i : m.lines[k] \notin Categories
  BY DEF Under
<1>2. j \in 1..n /\ \A k \in (j + 1)..i : k \in 1..n
  OBVIOUS
<1>3. t.lines[j] = Category[t.lines[i]] /\ \A k \in (j + 1)..i : t.lines[k] \notin Categories
  BY <1>1, <1>2
<1> QED
  BY <1>3 DEF Under

(* A new section.                                                          *)
LEMMA HeadingIsOffered ==
  ASSUME NEW C \in SUBSET Categories, NEW P \in SUBSET Articles, NEW m \in Offered(C, P),
         NEW c \in Categories \ C
  PROVE  LET t == AddLine(m, c, HeadingBytes) IN t \in Offered(C \cup {c}, P) /\ InSection(t, c)
<1> DEFINE t == AddLine(m, c, HeadingBytes)
<1>1. /\ m \in Messages /\ m.bytes <= MaxBytes /\ IsInjective(m.lines)
      /\ ToSet(m.lines) \subseteq C \cup P
      /\ \A a \in P : m.bytes + Bytes[a] <= MaxBytes => a \in ToSet(m.lines)
      /\ HeadingsAreShort => \A i \in 1..Len(m.lines) : m.lines[i] \in Articles => Under(m, i)
  BY DEF Offered
<1>2. c \notin ToSet(m.lines)
  BY <1>1, Sizes
<1>3. /\ ~ (m.bytes + HeadingBytes <= MaxBytes) => t = m
      /\ m.bytes + HeadingBytes <= MaxBytes =>
           /\ t \in Messages /\ t.bytes = m.bytes + HeadingBytes /\ t.bytes <= MaxBytes
           /\ IsInjective(t.lines) /\ Len(m.lines) \in Nat
           /\ Len(t.lines) = Len(m.lines) + 1 /\ t.lines[Len(m.lines) + 1] = c
           /\ \A i \in 1..Len(m.lines) : t.lines[i] = m.lines[i]
           /\ ToSet(t.lines) = ToSet(m.lines) \cup {c}
  <2>1. c \in Categories \cup Articles /\ HeadingBytes \in Nat
    BY Sizes
  <2>2. ~ (m.bytes + HeadingBytes <= MaxBytes) => t = m
    BY DEF AddLine
  <2>3. ASSUME m.bytes + HeadingBytes <= MaxBytes
        PROVE  LineAfter(t, m, c, HeadingBytes)
    <3>1. /\ m \in Messages /\ IsInjective(m.lines) /\ c \in Categories \cup Articles
          /\ c \notin ToSet(m.lines) /\ HeadingBytes \in Nat
      BY <1>1, <1>2, <2>1
    <3> QED
      BY <2>3, <3>1, LineComesLast
  <2> HIDE DEF t
  <2> QED
    BY <2>2, <2>3 DEF LineAfter
<1> SUFFICES t \in Offered(C \cup {c}, P) /\ InSection(t, c)
  OBVIOUS
<1> HIDE DEF t
<1>4. CASE ~ (m.bytes + HeadingBytes <= MaxBytes)
  <2>1. m.bytes + HeadingBytes > MaxBytes
    BY <1>1, <1>4, Sizes DEF Messages
  <2> QED
    BY <1>1, <1>3, <1>4, <2>1 DEF Offered, InSection
<1>5. CASE m.bytes + HeadingBytes <= MaxBytes
  <2> USE <1>3, <1>5
  <2>1. ASSUME NEW a \in P, t.bytes + Bytes[a] <= MaxBytes  PROVE a \in ToSet(t.lines)
    <3>1. m.bytes + Bytes[a] <= MaxBytes
      BY <1>1, <2>1, Sizes DEF Messages
    <3> QED
      BY <1>1, <3>1
  <2>2. ASSUME HeadingsAreShort, NEW i \in 1..Len(t.lines), t.lines[i] \in Articles
        PROVE  Under(t, i)
    <3>1. i \in 1..Len(m.lines)
      BY <2>2, Sizes
    <3>2. Under(m, i)
      BY <1>1, <2>2, <3>1
    <3> QED
      BY <3>1, <3>2, StaysUnder
  <2>3. InSection(t, c)
    <3>1. Len(m.lines) + 1 \in 1..Len(t.lines)
      OBVIOUS
    <3>2. \A k \in (Len(m.lines) + 1 + 1)..Len(t.lines) : FALSE
      OBVIOUS
    <3> QED
      BY <3>1, <3>2 DEF InSection
  <2> QED
    BY <1>1, <2>1, <2>2, <2>3 DEF Offered
<1> QED
  BY <1>4, <1>5

(* An item of the section.                                                 *)
LEMMA ItemIsOffered ==
  ASSUME NEW C \in SUBSET Categories, NEW P \in SUBSET Articles, NEW m \in Offered(C, P),
         NEW a \in Articles \ P, InSection(m, Category[a])
  PROVE  LET t == AddLine(m, a, Bytes[a]) IN
         t \in Offered(C, P \cup {a}) /\ InSection(t, Category[a])
<1> DEFINE t == AddLine(m, a, Bytes[a])
           c == Category[a]
<1>1. /\ m \in Messages /\ m.bytes <= MaxBytes /\ IsInjective(m.lines)
      /\ ToSet(m.lines) \subseteq C \cup P /\ m.bytes \in Nat
      /\ \A x \in P : m.bytes + Bytes[x] <= MaxBytes => x \in ToSet(m.lines)
      /\ HeadingsAreShort => \A i \in 1..Len(m.lines) : m.lines[i] \in Articles => Under(m, i)
  BY DEF Offered, Messages
<1>2. a \notin ToSet(m.lines) /\ a \notin Categories /\ Bytes[a] \in Nat
  BY <1>1, Sizes
<1>3. /\ ~ (m.bytes + Bytes[a] <= MaxBytes) => t = m
      /\ m.bytes + Bytes[a] <= MaxBytes =>
           /\ t \in Messages /\ t.bytes = m.bytes + Bytes[a] /\ t.bytes <= MaxBytes
           /\ IsInjective(t.lines) /\ Len(m.lines) \in Nat
           /\ Len(t.lines) = Len(m.lines) + 1 /\ t.lines[Len(m.lines) + 1] = a
           /\ \A i \in 1..Len(m.lines) : t.lines[i] = m.lines[i]
           /\ ToSet(t.lines) = ToSet(m.lines) \cup {a}
  <2>1. a \in Categories \cup Articles
    OBVIOUS
  <2>2. ~ (m.bytes + Bytes[a] <= MaxBytes) => t = m
    BY DEF AddLine
  <2>3. ASSUME m.bytes + Bytes[a] <= MaxBytes
        PROVE  LineAfter(t, m, a, Bytes[a])
    <3>1. /\ m \in Messages /\ IsInjective(m.lines) /\ a \in Categories \cup Articles
          /\ a \notin ToSet(m.lines) /\ Bytes[a] \in Nat
      BY <1>1, <1>2, <2>1
    <3> QED
      BY <2>3, <3>1, LineComesLast
  <2> HIDE DEF t
  <2> QED
    BY <2>2, <2>3 DEF LineAfter
<1> SUFFICES t \in Offered(C, P \cup {a}) /\ InSection(t, c)
  OBVIOUS
<1> HIDE DEF t
<1>4. CASE ~ (m.bytes + Bytes[a] <= MaxBytes)
  BY <1>1, <1>3, <1>4 DEF Offered
<1>5. CASE m.bytes + Bytes[a] <= MaxBytes
  <2> USE <1>3, <1>5
  <2>1. ASSUME NEW x \in P \cup {a}, t.bytes + Bytes[x] <= MaxBytes  PROVE x \in ToSet(t.lines)
    <3>1. x # a => m.bytes + Bytes[x] <= MaxBytes
      BY <1>1, <1>2, <2>1, Sizes
    <3> QED
      BY <1>1, <3>1
  <2>2. InSection(t, c)
    <3>1. CASE m.bytes + HeadingBytes > MaxBytes
      BY <1>1, <1>2, <3>1, Sizes DEF InSection
    <3>2. CASE ~ (m.bytes + HeadingBytes > MaxBytes)
      <4>1. PICK j \in 1..Len(m.lines) :
              m.lines[j] = c /\ \A k \in (j + 1)..Len(m.lines) : m.lines[k] \notin Categories
        BY <3>2 DEF InSection
      <4>2. j \in 1..Len(t.lines) /\ t.lines[j] = c
        BY <4>1
      <4>3. ASSUME NEW k \in (j + 1)..Len(t.lines)  PROVE t.lines[k] \notin Categories
        <5>1. CASE k = Len(m.lines) + 1
          BY <1>2, <5>1
        <5>2. CASE k # Len(m.lines) + 1
          <6>1. k \in (j + 1)..Len(m.lines) /\ k \in 1..Len(m.lines)
            BY <5>2
          <6> QED
            BY <4>1, <6>1
        <5> QED
          BY <5>1, <5>2
      <4> QED
        BY <4>2, <4>3 DEF InSection
    <3> QED
      BY <3>1, <3>2
  <2>3. ASSUME HeadingsAreShort, NEW i \in 1..Len(t.lines), t.lines[i] \in Articles
        PROVE  Under(t, i)
    <3>1. CASE i \in 1..Len(m.lines)
      <4>1. Under(m, i)
        BY <1>1, <2>3, <3>1
      <4> QED
        BY <3>1, <4>1, StaysUnder
    <3>2. CASE i = Len(m.lines) + 1
      <4>1. HeadingBytes <= Bytes[a] /\ HeadingBytes \in Nat /\ MaxBytes \in Nat
        BY <2>3, Sizes DEF HeadingsAreShort
      <4>3. ~ (m.bytes + HeadingBytes > MaxBytes)
        BY <1>1, <1>2, <4>1
      <4>4. PICK j \in 1..Len(m.lines) :
              m.lines[j] = c /\ \A k \in (j + 1)..Len(m.lines) : m.lines[k] \notin Categories
        BY <4>3 DEF InSection
      <4>5. j \in 1..(i - 1) /\ t.lines[j] = Category[t.lines[i]]
        BY <3>2, <4>4
      <4>6. ASSUME NEW k \in (j + 1)..i  PROVE t.lines[k] \notin Categories
        <5>1. k = i \/ (k \in (j + 1)..Len(m.lines) /\ k \in 1..Len(m.lines))
          BY <3>2
        <5> QED
          BY <1>2, <3>2, <4>4, <5>1
      <4> QED
        BY <4>5, <4>6 DEF Under
    <3> QED
      BY <3>1, <3>2
  <2> QED
    BY <1>1, <2>1, <2>2, <2>3 DEF Offered
<1> QED
  BY <1>4, <1>5

(* The items of a section.                                                 *)
LEMMA SectionIsOffered ==
  ASSUME NEW C \in SUBSET Categories, NEW P \in SUBSET Articles, NEW m \in Offered(C, P),
         NEW c \in Categories \ C, NEW items \in Seq(Articles), IsInjective(items),
         \A a \in ToSet(items) : Category[a] = c /\ a \notin P
  PROVE  AddSection(m, c, items) \in Offered(C \cup {c}, P \cup ToSet(items))
<1> DEFINE D == C \cup {c}
           shown(k) == P \cup {items[i] : i \in 1..k}
           I == [k \in 0..Len(items) |-> {n \in Offered(D, shown(k)) : InSection(n, c)}]
           body == [n \in Messages |-> [a \in Articles |-> AddLine(n, a, Bytes[a])]]
           start == AddLine(m, c, HeadingBytes)
<1>1. Len(items) \in Nat /\ DOMAIN items = 1..Len(items)
  BY Sequences
<1>2. /\ D \in SUBSET Categories /\ shown(0) = P /\ shown(Len(items)) = P \cup ToSet(items)
      /\ \A k \in 0..Len(items) : shown(k) \in SUBSET Articles
  <2>1. ToSet(items) = {items[i] : i \in 1..Len(items)} /\ ToSet(items) \subseteq Articles
    BY Sequences
  <2>2. ASSUME NEW k \in 0..Len(items)  PROVE shown(k) \in SUBSET Articles
    <3>1. \A i \in 1..k : i \in 1..Len(items)
      BY <1>1
    <3>2. \A i \in 1..k : items[i] \in Articles
      BY <3>1, Sequences
    <3> QED
      BY <3>2
  <2> QED
    BY <2>1, <2>2
<1>3. ASSUME NEW k \in 1..Len(items)
      PROVE  /\ items[k] \in Articles \ shown(k - 1) /\ Category[items[k]] = c
             /\ shown(k) = shown(k - 1) \cup {items[k]}
  <2>1. items[k] \in Articles /\ items[k] \in ToSet(items)
    BY Sequences
  <2>2. items[k] \notin {items[i] : i \in 1..(k - 1)}
    <3> SUFFICES ASSUME NEW i \in 1..(k - 1), items[i] = items[k]  PROVE FALSE
      OBVIOUS
    <3>1. i \in 1..Len(items) /\ i # k
      BY <1>1
    <3> QED
      BY <1>1, <3>1 DEF IsInjective
  <2>3. {items[i] : i \in 1..k} = {items[i] : i \in 1..(k - 1)} \cup {items[k]}
    <3>1. k \in Nat \ {0}
      BY <1>1
    <3> QED
      BY <3>1, OneItemMore
  <2> QED
    BY <2>1, <2>2, <2>3
<1> HIDE DEF D, shown
<1>4. start \in I[0]
  <2>1. start \in Offered(D, P) /\ InSection(start, c)
    BY HeadingIsOffered DEF D
  <2>2. 0 \in 0..Len(items)
    BY <1>1
  <2> QED
    BY <1>2, <2>1, <2>2
<1>5. ASSUME NEW k \in 1..Len(items), NEW n \in I[k - 1]
      PROVE  body[n][items[k]] \in I[k]
  <2>1. k - 1 \in 0..Len(items) /\ k \in 0..Len(items)
    BY <1>1
  <2>2. n \in Offered(D, shown(k - 1)) /\ InSection(n, c)
    BY <1>5, <2>1
  <2>3. n \in Messages
    BY <2>2 DEF Offered
  <2>4. body[n][items[k]] = AddLine(n, items[k], Bytes[items[k]])
    BY <1>3, <2>3
  <2> HIDE DEF body
  <2> DEFINE a == items[k]
             Q == shown(k - 1)
  <2>5. /\ D \in SUBSET Categories /\ Q \in SUBSET Articles /\ n \in Offered(D, Q)
        /\ a \in Articles \ Q /\ Category[a] = c /\ InSection(n, Category[a])
    BY <1>2, <1>3, <2>1, <2>2
  <2>7. \A x : x \in I[k] <=> x \in Offered(D, shown(k)) /\ InSection(x, c)
    BY <2>1
  <2> HIDE DEF a, Q, I
  <2>6. /\ AddLine(n, a, Bytes[a]) \in Offered(D, Q \cup {a})
        /\ InSection(AddLine(n, a, Bytes[a]), Category[a])
    BY <2>5, ItemIsOffered
  <2>8. Q \cup {a} = shown(k)
    BY <1>3 DEF a, Q
  <2>9. AddLine(n, a, Bytes[a]) \in I[k]
    BY <2>5, <2>6, <2>7, <2>8
  <2> QED
    BY <2>4, <2>9 DEF a
<1>6. AddSection(m, c, items) = Loop(body, start, items)
  BY DEF AddSection
<1>7. Loop(body, start, items) \in I[Len(items)]
  <2> HIDE DEF I, body, start
  <2>1. \A k \in 1..Len(items) : \A n \in I[k - 1] : body[n][items[k]] \in I[k]
    BY <1>5
  <2> QED
    BY <1>4, <2>1, LoopKeeps
<1>8. Len(items) \in 0..Len(items)
  BY <1>1
<1> QED
  BY <1>2, <1>6, <1>7, <1>8 DEF D

(* A message offers every heading and every item.                          *)
LEMMA MessageIsOffered ==
  ASSUME NEW items, NEW focus \in BOOLEAN,
         \A c \in Categories :
           /\ items[c] \in Seq(Articles) /\ IsInjective(items[c])
           /\ \A a \in ToSet(items[c]) : Category[a] = c
  PROVE  Message(items, focus) \in Offered(Categories, UNION {ToSet(items[c]) : c \in Categories})
<1> DEFINE O == CategoryOrder
           C(k) == {O[j] : j \in 1..k}
           P(k) == UNION {ToSet(items[c]) : c \in C(k)}
           I == [k \in 0..Len(O) |-> Offered(C(k), P(k))]
           body == [m \in Messages |-> [c \in Categories |->
                     IF items[c] = <<>> THEN m ELSE AddSection(m, c, items[c])]]
           start == [lines |-> <<>>, bytes |-> TitleBytes + IF focus THEN FocusBytes ELSE 0]
<1>1. /\ O \in Seq(Categories) /\ IsInjective(O) /\ Len(O) \in Nat /\ DOMAIN O = 1..Len(O)
      /\ \A k \in 1..Len(O) : O[k] \in Categories
  BY Sizes, Sequences
<1>2. C(0) = {} /\ C(Len(O)) = Categories /\ P(0) = {}
  BY <1>1, Sequences DEF Categories
<1>3. ASSUME NEW k \in 1..Len(O)
      PROVE  /\ O[k] \in Categories \ C(k - 1) /\ C(k - 1) \in SUBSET Categories
             /\ C(k) = C(k - 1) \cup {O[k]}
  <2>1. O[k] \notin C(k - 1)
    <3> SUFFICES ASSUME NEW j \in 1..(k - 1), O[j] = O[k]  PROVE FALSE
      OBVIOUS
    <3>1. j \in 1..Len(O) /\ j # k
      BY <1>1
    <3> QED
      BY <1>1, <3>1 DEF IsInjective
  <2>2. C(k) = C(k - 1) \cup {O[k]}
    <3>1. k \in Nat \ {0}
      BY <1>1
    <3> QED
      BY <3>1, OneItemMore
  <2>3. \A j \in 1..(k - 1) : j \in 1..Len(O)
    BY <1>1
  <2> QED
    BY <1>1, <2>1, <2>2, <2>3
<1>4. start \in I[0]
  <2>1. start \in Messages /\ start.lines = <<>> /\ start.bytes <= MaxBytes
    BY Sizes, Empty DEF Messages
  <2> HIDE DEF start
  <2>2. start \in Offered({}, {})
    BY <2>1, Empty DEF Offered
  <2>3. 0 \in 0..Len(O)
    BY <1>1
  <2> HIDE DEF C, P
  <2> QED
    BY <1>2, <2>2, <2>3
<1>5. ASSUME NEW k \in 1..Len(O), NEW m \in I[k - 1]
      PROVE  body[m][O[k]] \in I[k]
  <2>1. k - 1 \in 0..Len(O) /\ k \in 0..Len(O)
    BY <1>1
  <2> DEFINE c == O[k]
             B == C(k - 1)
             Q == P(k - 1)
  <2>2. c \in Categories \ B /\ B \in SUBSET Categories /\ C(k) = B \cup {c}
    BY <1>3
  <2>3. P(k) = Q \cup ToSet(items[c])
    <3> HIDE DEF c
    <3> QED
      BY <2>2
  <2>4. Q \in SUBSET Articles /\ \A a \in ToSet(items[c]) : Category[a] = c /\ a \notin Q
    <3> HIDE DEF C, c
    <3>1. \A d \in Categories : ToSet(items[d]) \subseteq Articles
      BY Sequences
    <3>2. \A a \in Q : \E d \in B : a \in ToSet(items[d])
      OBVIOUS
    <3> HIDE DEF Q, B
    <3>3. \A a \in Q : a \in Articles /\ Category[a] # c
      BY <2>2, <3>1, <3>2
    <3> QED
      BY <2>2, <3>3
  <2>5. m \in Offered(B, Q) /\ m \in Messages
    BY <1>5, <2>1 DEF Offered
  <2>6. I[k] = Offered(C(k), P(k))
    BY <2>1
  <2>7. body[m][c] = IF items[c] = <<>> THEN m ELSE AddSection(m, c, items[c])
    BY <2>2, <2>5
  <2>8. body[m][O[k]] = body[m][c]
    OBVIOUS
  <2> HIDE DEF body, I, C, P, B, Q, c
  <2>9. CASE items[c] = <<>>
    <3>1. P(k) = Q /\ C(k) = B \cup {c}
      BY <2>2, <2>3, <2>9, Empty
    <3>2. m \in Offered(B \cup {c}, Q)
      BY <2>5 DEF Offered
    <3> QED
      BY <2>6, <2>7, <2>8, <2>9, <3>1, <3>2
  <2>10. CASE items[c] # <<>>
    <3>1. items[c] \in Seq(Articles) /\ IsInjective(items[c])
      BY <2>2
    <3>2. AddSection(m, c, items[c]) \in Offered(B \cup {c}, Q \cup ToSet(items[c]))
      BY <2>2, <2>4, <2>5, <3>1, SectionIsOffered
    <3> QED
      BY <2>2, <2>3, <2>6, <2>7, <2>8, <2>10, <3>2
  <2> QED
    BY <2>9, <2>10
<1>6. Message(items, focus) = Loop(body, start, O)
  BY DEF Message
<1>7. Loop(body, start, O) \in I[Len(O)]
  <2> HIDE DEF I, body, start
  <2>1. \A k \in 1..Len(O) : \A m \in I[k - 1] : body[m][O[k]] \in I[k]
    BY <1>5
  <2> QED
    BY <1>1, <1>4, <2>1, LoopKeeps
<1>8. Len(O) \in 0..Len(O)
  BY <1>1
<1>9. P(Len(O)) = UNION {ToSet(items[c]) : c \in Categories}
  BY <1>2
<1> QED
  BY <1>2, <1>6, <1>7, <1>8, <1>9

(* What the readers get fits, and loses nothing that would have fitted.    *)
THEOREM MessagesFit ==
  ASSUME NEW items, NEW focus \in BOOLEAN,
         \A c \in Categories :
           /\ items[c] \in Seq(Articles) /\ IsInjective(items[c])
           /\ \A a \in ToSet(items[c]) : Category[a] = c
  PROVE  FittingMessage(items, focus)
<1> DEFINE message == Message(items, focus)
           P == UNION {ToSet(items[c]) : c \in Categories}
           Stands(i) ==
             \E j \in 1..(i - 1) : /\ message.lines[j] = Category[message.lines[i]]
                                   /\ \A k \in (j + 1)..i : message.lines[k] \notin Categories
<1>1. message \in Offered(Categories, P)
  BY MessageIsOffered
<1> HIDE DEF message, P
<1>2. /\ message \in Messages
      /\ message.bytes <= MaxBytes /\ IsInjective(message.lines)
      /\ \A a \in P : message.bytes + Bytes[a] <= MaxBytes => a \in ToSet(message.lines)
      /\ HeadingsAreShort =>
           \A i \in 1..Len(message.lines) : message.lines[i] \in Articles => Under(message, i)
  BY <1>1 DEF Offered
<1>3. DOMAIN message.lines = 1..Len(message.lines)
  BY <1>2, Sequences DEF Messages
<1>4. \A i : Under(message, i) <=> Stands(i)
  BY DEF Under
<1>5. \A c \in Categories : \A a \in ToSet(items[c]) : a \in P
  BY DEF P
<1> HIDE DEF Stands
<1>6. (\A a \in Articles : HeadingBytes <= Bytes[a]) =>
        \A i \in DOMAIN message.lines : message.lines[i] \in Articles => Stands(i)
  BY <1>2, <1>3, <1>4 DEF HeadingsAreShort
<1> QED
  BY <1>2, <1>5, <1>6 DEF FittingMessage, message, Stands

-----------------------------------------------------------------------------
(* What one category and one edition may be                                 *)

(* A pool lists articles, each once.                                       *)
LEMMA PoolsAreLists ==
  ASSUME NEW pool \in Pools
  PROVE  pool \in Seq(Articles) /\ IsInjective(pool)
<1>1. PICK found \in SUBSET Articles, c \in Categories : pool = EditorialPool(found, c)
  BY DEF Pools
<1> QED
  BY <1>1, PoolsListArticles

(* The items of a category are articles of its pool, each once.            *)
LEMMA ItemsComeFromThePool ==
  ASSUME NEW pool \in Pools, NEW s \in ItemsOf(pool)
  PROVE  s \in Seq(Articles) /\ IsInjective(s) /\ ToSet(s) \subseteq ToSet(pool)
<1>1. CASE pool = <<>>
  BY <1>1, Empty DEF ItemsOf
<1>2. CASE pool # <<>>
  <2>1. PICK result \in Results[pool] : s = result.items
    BY <1>2 DEF ItemsOf
  <2>2. PICK a \in Answers(pool), r \in Answers(pool) : result = GenerateResult(pool, a, r)
    BY <2>1 DEF Results
  <2>3. GenerateResult(pool, a, r).items \in Seq(Articles) /\ VerifiedResult(pool, a, r)
    BY <1>2, PoolsAreLists, ResultIsVerified
  <2> QED
    BY <2>1, <2>2, <2>3 DEF VerifiedResult
<1> QED
  BY <1>1, <1>2

(* Every result of every pool is verified.                                 *)
THEOREM ResultsAreVerified == VerifiedPools = Pools
<1>1. ASSUME NEW pool \in Pools, pool # <<>>, NEW a \in Answers(pool), NEW r \in Answers(pool)
      PROVE  VerifiedResult(pool, a, r)
  BY <1>1, PoolsAreLists, ResultIsVerified
<1> QED
  BY <1>1 DEF VerifiedPools

(* The message of every outcome fits.                                      *)
THEOREM EditionsFit ==
  ASSUME NEW found \in SUBSET Articles, NEW items \in ResultsOf(found), NEW focus \in BOOLEAN
  PROVE  FittingMessage(items, focus)
<1>1. ASSUME NEW c \in Categories
      PROVE  /\ items[c] \in Seq(Articles) /\ IsInjective(items[c])
             /\ \A a \in ToSet(items[c]) : Category[a] = c
  <2>1. EditorialPool(found, c) \in Pools /\ items[c] \in ItemsOf(EditorialPool(found, c))
    BY DEF ResultsOf, Pools
  <2>2. \A a \in ToSet(EditorialPool(found, c)) : Category[a] = c
    BY PoolsListArticles
  <2> QED
    BY <2>1, <2>2, ItemsComeFromThePool
<1> QED
  BY <1>1, MessagesFit

(* Whatever was found and whatever the model answers, the edition is made  *)
(* of verified links in their places, and its message fits the budget of   *)
(* the robot (briefing/editor.py, briefing/renderer.py).                   *)
THEOREM EditionsAreVerified == Spec => []EditionIsVerified
<1>1. BalancedSelections = SUBSET Articles
  BY PoolsAreBalanced DEF BalancedSelections
<1>2. FittingSelections = SUBSET Articles
  BY EditionsFit DEF FittingSelections
<1>3. EditionIsVerified
  BY <1>1, <1>2, ResultsAreVerified DEF EditionIsVerified
<1> QED
  BY <1>3, PTL

==============================================================================
