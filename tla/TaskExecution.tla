---------------------------- MODULE TaskExecution ----------------------------
(***************************************************************************)
(* The durable task executor of DailyCast: TaskSubmissionService,          *)
(* InProcessTaskExecutor, PipelineOrchestrator and RecoveryService over    *)
(* the one table they share, task_runs (with its task_steps).              *)
(*                                                                         *)
(* One process runs at a time.  Inside it two threads touch the table: the *)
(* asyncio loop (API requests, heartbeats, the single worker, startup and  *)
(* shutdown) and the APScheduler thread that runs the daily tick.  Code on *)
(* the loop is atomic between awaits with respect to other coroutines, but *)
(* not with respect to the scheduler thread or to a crash, so there is one *)
(* action per write transaction and the coroutines that need the loop ask  *)
(* for AtAwait.                                                            *)
(***************************************************************************)
EXTENDS Naturals, Sequences, FiniteSets

CONSTANTS
  Businesses,    \* business keys ("daily:<date>:<edition>:<pipeline_version>")
  ClientKeys,    \* idempotency keys chosen by clients and by the scheduler
  ApiRequests,   \* the commands API clients send: [key, business]
  CronRequests,  \* the commands the scheduler builds: [key, business]
  NumSteps,      \* length of the pipeline
  Restorable,    \* the steps whose checkpoint a recovery child can restore
  QueueSize,     \* queue_maxsize of the in-process queue
  NoRun,         \* Python's None: no run, and the queue's shutdown sentinel
  MaxRuns,       \* bound: submissions stop at this many rows
  MaxBoots,      \* bound: the last of this many processes never dies
  MaxFaults      \* bound: transactions that raise

Steps == 1 .. NumSteps

Requests == [key : ClientKeys, business : Businesses]

ASSUME ConstantsOK ==
  /\ NumSteps \in Nat \ {0} /\ QueueSize \in Nat \ {0}
  /\ MaxRuns \in Nat /\ MaxBoots \in Nat \ {0} /\ MaxFaults \in Nat
  /\ Restorable \subseteq Steps
  /\ ApiRequests \subseteq Requests /\ CronRequests \subseteq Requests
  /\ NoRun \notin Nat

VARIABLES
  \* Durable: SQLite.
  runs,       \* the task_runs table in created_at order, a row per run
  \* Volatile: one process.
  proc,       \* "down", "recovering", "up" or "stopping"
  queue,      \* InProcessTaskExecutor._queue
  pending,    \* InProcessTaskExecutor._queued_task_run_ids
  todo,       \* stale runs startup recovery still has to replace
  pc,         \* where the worker is between two transactions
  run,        \* the run the worker holds
  step,       \* the pipeline step the worker is at
  skip,       \* steps 1..skip were restored from ancestors
  warned,     \* warning_count > 0 in PipelineOrchestrator.execute
  outcome,    \* the StepResult waiting to be acted upon
  cron,       \* the scheduler thread inside TaskSubmissionService.submit
  \* The clock, as far as the table tells times apart.
  stale,      \* running rows whose heartbeat is older than stale_after_seconds
  overdue,    \* deadlines up to this one have passed
  \* Bounds.
  boots,      \* processes started so far
  faults      \* transactions that have raised so far

local  == <<queue, pending, todo>>
worker == <<pc, run, step, skip, warned, outcome>>
clock  == <<stale, overdue>>
counts == <<boots, faults>>
vars   == <<runs, proc, local, worker, cron, clock, counts>>

Runs == DOMAIN runs

-----------------------------------------------------------------------------
(* Rows *)

RunStatus == {"queued", "running", "succeeded", "succeeded_with_warnings",
              "waiting_action", "failed", "timed_out", "interrupted"}

ActiveStatus   == {"queued", "running"}
TerminalStatus == RunStatus \ ActiveStatus

Done       == {"succeeded", "succeeded_with_warnings"}
StepStatus == {"absent", "running", "failed"} \cup Done

(* An idempotency key is a client's (or the tick's), or derived from the   *)
(* identifier of the run a recovery child replaces.                        *)
ClientKey(k)   == <<"client", k>>
RecoveryKey(r) == <<"recovery", r>>

(* The unique indexes of task_runs. *)
KeyHeldByActive(key) ==              \* mutant: keys of finished runs are free
  \E r \in Runs : runs[r].key = key /\ runs[r].status \in ActiveStatus
KeyTaken(key) == \E r \in Runs : runs[r].key = key
ActiveWhileRunning(business) ==      \* mutant: the index forgets "queued"
  \E r \in Runs : runs[r].business = business /\ runs[r].status = "running"
Active(business) ==
  \E r \in Runs : runs[r].business = business /\ runs[r].status \in ActiveStatus

NewRow(business, key, parent, deadline) ==
  [status |-> "queued", business |-> business, key |-> key, parent |-> parent,
   deadline |-> deadline, stopped |-> FALSE,
   steps |-> [i \in Steps |-> "absent"]]

(* Every command gets deadline_at = now + deadline_seconds, so deadlines   *)
(* pass in the order of submission: a deadline is the number of the row it *)
(* was computed for.                                                       *)
RequestRow(q) ==
  NewRow(q.business, ClientKey(q.key), NoRun, Len(runs) + 1)

(* A recovery child repeats its parent's request, deadline included.       *)
ChildWithOwnDeadline(r) ==           \* mutant: the child gets time of its own
  NewRow(runs[r].business, RecoveryKey(r), r, Len(runs) + 1)
Child(r) == NewRow(runs[r].business, RecoveryKey(r), r, runs[r].deadline)

Expired(r) == runs[r].deadline <= overdue

(* update_status to a final status; the row's heartbeat stops mattering.   *)
End(r, status) ==
  /\ runs' = [runs EXCEPT ![r].status = status]
  /\ stale' = stale \ {r}

(* Runs a recovery child may inherit from: itself and its ancestors.       *)
Lineage ==
  LET line[r \in Runs] ==
        {r} \cup (IF runs[r].parent = NoRun THEN {} ELSE line[runs[r].parent])
  IN  line

(* The newest attempt at step i in the lineage of r is the successful one  *)
(* recorded by run a (children are created after their parents).           *)
LatestSuccess(r, i, a) ==
  /\ a \in Lineage[r]
  /\ runs[a].steps[i] \in Done
  /\ \A b \in Lineage[r] : b > a => runs[b].steps[i] = "absent"

Completed(r, i) == \E a \in Runs : LatestSuccess(r, i, a)

InheritsWarning(r, i) ==
  \E a \in Runs : /\ LatestSuccess(r, i, a)
                  /\ runs[a].steps[i] = "succeeded_with_warnings"

-----------------------------------------------------------------------------
Init ==
  /\ runs = <<>>
  /\ proc = "down"
  /\ queue = <<>> /\ pending = {} /\ todo = {}
  /\ pc = "idle" /\ run = NoRun /\ step = 1 /\ skip = 0
  /\ warned = FALSE /\ outcome = "none"
  /\ cron = [at |-> "idle", run |-> NoRun]
  /\ stale = {} /\ overdue = 0 /\ boots = 0 /\ faults = 0

(* Every coroutine but the worker runs only while the worker awaits.       *)
AtAwait == pc \in {"idle", "step", "release", "exited"}

-----------------------------------------------------------------------------
(* InProcessTaskExecutor.enqueue, from the loop, of a freshly written row  *)

EnqueueMarksFirst(r) ==              \* mutant: no undo on QueueFull
  /\ queue' = IF Len(queue) < QueueSize THEN Append(queue, r) ELSE queue
  /\ pending' = pending \cup {r}

Enqueue(r) ==
  IF proc \in {"recovering", "up"} /\ Len(queue) < QueueSize
  THEN queue' = Append(queue, r) /\ pending' = pending \cup {r}
  ELSE UNCHANGED <<queue, pending>>

(* The queued rows _redeliver_queued offers, oldest first, until the first *)
(* refusal: those that are not pending, as many as fit.                    *)
Unoffered == {r \in Runs : runs[r].status = "queued" /\ r \notin pending}

Offered ==
  {r \in Unoffered :
     Cardinality({s \in Unoffered : s < r}) < QueueSize - Len(queue)}

NoRedelivery == UNCHANGED <<queue, pending>>     \* mutant: QueueFull is final

Redelivery ==
  /\ queue' \in {queue \o s : s \in
       {t \in [1 .. Cardinality(Offered) -> Offered] :
          \A i, j \in DOMAIN t : i < j => t[i] < t[j]}}
  /\ pending' = pending \cup Offered

-----------------------------------------------------------------------------
(* TaskSubmissionService *)

(* An API request: look up, insert and offer without leaving the loop.  A  *)
(* row that wins the race from the scheduler thread is found either by the *)
(* lookup or by _resolve_insert_race, with the same result: no new row.    *)
Submit(q) ==
  /\ proc = "up" /\ AtAwait
  /\ Len(runs) < MaxRuns
  /\ ~KeyTaken(ClientKey(q.key)) /\ ~Active(q.business)
  /\ runs' = Append(runs, RequestRow(q))
  /\ Enqueue(Len(runs) + 1)
  /\ UNCHANGED <<proc, todo, worker, cron, clock, counts>>

(* The daily tick, in the APScheduler thread: the lookup finds nothing ... *)
CronLookup(q) ==
  /\ proc = "up" /\ cron.at = "idle"
  /\ Len(runs) < MaxRuns
  /\ ~KeyTaken(ClientKey(q.key)) /\ ~Active(q.business)
  /\ cron' = [at |-> "insert", run |-> q]
  /\ UNCHANGED <<runs, proc, local, worker, clock, counts>>

(* ... the insert commits unless a unique index refuses it ...             *)
CronInsert ==
  /\ cron.at = "insert"
  /\ LET q == cron.run IN
       IF KeyTaken(ClientKey(q.key)) \/ Active(q.business)
       THEN /\ cron' = [at |-> "idle", run |-> NoRun]
            /\ UNCHANGED runs
       ELSE /\ runs' = Append(runs, RequestRow(q))
            /\ cron' = [at |-> "put", run |-> Len(runs) + 1]
  /\ UNCHANGED <<proc, local, worker, clock, counts>>

(* ... the identifier is put on the queue without synchronisation ...      *)
CronPut ==
  /\ cron.at = "put"
  /\ IF proc = "up" /\ cron.run \notin pending /\ Len(queue) < QueueSize
     THEN /\ queue' = Append(queue, cron.run)
          /\ cron' = [at |-> "mark", run |-> cron.run]
     ELSE /\ cron' = [at |-> "idle", run |-> NoRun]
          /\ UNCHANGED queue
  /\ UNCHANGED <<runs, proc, pending, todo, worker, clock, counts>>

(* ... and recorded as pending, by which time the worker may hold it.      *)
CronMark ==
  /\ cron.at = "mark"
  /\ pending' = pending \cup {cron.run}
  /\ cron' = [at |-> "idle", run |-> NoRun]
  /\ UNCHANGED <<runs, proc, queue, todo, worker, clock, counts>>

Cron == (\E q \in CronRequests : CronLookup(q)) \/ CronInsert \/ CronPut \/ CronMark

-----------------------------------------------------------------------------
(* InProcessTaskExecutor: the worker loop and the heartbeat *)

(* An idle worker re-offers queued rows every redelivery interval.         *)
Redeliver ==
  /\ proc = "up" /\ pc = "idle"
  /\ Redelivery
  /\ UNCHANGED <<runs, proc, todo, worker, cron, clock, counts>>

Get ==
  /\ proc \in {"up", "stopping"} /\ pc = "idle"
  /\ queue # <<>>
  /\ queue' = Tail(queue)
  /\ IF Head(queue) = NoRun \/ proc = "stopping"
     THEN /\ pc' = "exited"
          /\ UNCHANGED <<pending, run>>
     ELSE /\ pending' = pending \ {Head(queue)}
          /\ run' = Head(queue)
          /\ pc' = "claim"
  /\ UNCHANGED <<runs, proc, todo, step, skip, warned, outcome, cron, clock, counts>>

(* The end of one task: the heartbeat stops and the queue is refilled.     *)
Release ==
  /\ pc = "release"
  /\ IF proc = "up" THEN Redelivery ELSE UNCHANGED <<queue, pending>>
  /\ pc' = "idle"
  /\ UNCHANGED <<runs, proc, todo, run, step, skip, warned, outcome, cron, clock, counts>>

Heartbeat ==
  /\ pc = "step" /\ runs[run].status = "running"
  /\ stale' = stale \ {run}
  /\ UNCHANGED <<runs, proc, local, worker, cron, overdue, counts>>

-----------------------------------------------------------------------------
(* PipelineOrchestrator.execute, one action per transaction *)

(* The worker's local variables before execute and after it.               *)
Blank(place) ==
  /\ pc' = place /\ run' = NoRun /\ step' = 1 /\ skip' = 0
  /\ warned' = FALSE /\ outcome' = "none"

Finish(status) ==
  /\ End(run, status)
  /\ Blank("release")
  /\ UNCHANGED <<proc, local, cron, overdue, counts>>

Goto(place) ==
  /\ pc' = place
  /\ UNCHANGED <<proc, local, run, cron, clock, counts>>

(* _claim: queued -> running, unless the queue entry is out of date.       *)
ClaimAgain ==                        \* mutant: no compare-and-set on the status
  /\ pc = "claim"
  /\ runs' = [runs EXCEPT ![run].status = "running"]
  /\ Goto("restore")
  /\ UNCHANGED <<step, skip, warned, outcome>>

Claim ==
  /\ pc = "claim"
  /\ runs[run].status = "queued" /\ ~Expired(run)
  /\ runs' = [runs EXCEPT ![run].status = "running"]
  /\ Goto("restore")
  /\ UNCHANGED <<step, skip, warned, outcome>>

ClaimExpired ==
  /\ pc = "claim"
  /\ runs[run].status = "queued" /\ Expired(run)
  /\ Finish("timed_out")

ClaimRefused ==
  /\ pc = "claim"
  /\ runs[run].status # "queued"
  /\ Blank("release")
  /\ UNCHANGED <<runs, proc, local, cron, clock, counts>>

(* _restore_completed_checkpoints: a prefix of the pipeline whose newest   *)
(* attempts succeeded and whose checkpoints validate.  Whether a recorded  *)
(* artifact or fingerprint is still good is the environment's choice.      *)
RestoredByAnySuccess(k) ==           \* mutant: not only the newest attempt counts
  \A i \in 1 .. k :
    i \in Restorable /\ \E a \in Lineage[run] : runs[a].steps[i] \in Done

RestoredPrefix(k) == \A i \in 1 .. k : i \in Restorable /\ Completed(run, i)

RestoredQuietly(k) == FALSE          \* mutant: inherited warnings are not counted

RestoredWarning(k) == \E i \in 1 .. k : InheritsWarning(run, i)

RestoreCheckpoints ==
  /\ pc = "restore"
  /\ \E k \in 0 .. NumSteps :
       /\ RestoredPrefix(k)
       /\ skip' = k
       /\ warned' = RestoredWarning(k)
  /\ Goto("boundary")
  /\ UNCHANGED <<runs, step, outcome>>

(* _fail_run_without_step *)
RestoreFails ==
  /\ pc = "restore"
  /\ faults < MaxFaults
  /\ faults' = faults + 1
  /\ End(run, "failed")
  /\ Blank("release")
  /\ UNCHANGED <<proc, local, cron, overdue, boots>>

RunsPastTheEnd == pc = "boundary"    \* mutant: the loop has no end

InLoop == pc = "boundary" /\ step <= NumSteps

(* _interrupt *)
Interrupt ==
  /\ InLoop /\ proc = "stopping"
  /\ Finish("interrupted")

(* _time_out, before a step *)
TimeOutWithoutReturn ==              \* mutant: execute goes on with the step
  /\ InLoop /\ Expired(run)
  /\ End(run, "timed_out")
  /\ Goto("boundary")
  /\ UNCHANGED <<step, skip, warned, outcome>>

TimeOutBeforeStep ==
  /\ InLoop /\ proc # "stopping"
  /\ Expired(run)
  /\ Finish("timed_out")

SkipStep ==
  /\ InLoop /\ proc # "stopping"
  /\ ~Expired(run)
  /\ step <= skip
  /\ step' = step + 1
  /\ UNCHANGED <<runs, proc, local, pc, run, skip, warned, outcome, cron, clock, counts>>

(* _start_step *)
StartStep ==
  /\ InLoop /\ proc # "stopping"
  /\ ~Expired(run)
  /\ step > skip
  /\ runs' = [runs EXCEPT ![run].steps[step] = "running"]
  /\ Goto("step")
  /\ UNCHANGED <<step, skip, warned, outcome>>

(* step.run returns and _finish_step commits; "stop" and "wait" stand for  *)
(* StepResult.stop_pipeline and terminal_status.                           *)
FinishStep ==
  /\ pc = "step"
  /\ \E result \in {"continue", "stop", "wait"}, status \in Done :
       /\ outcome' = result
       /\ runs' = [runs EXCEPT ![run].steps[step] = status]
       /\ warned' = (warned \/ status = "succeeded_with_warnings")
  /\ Goto("decide")
  /\ UNCHANGED <<step, skip>>

(* _fail_step_and_run *)
FailStepAndRun ==
  /\ pc = "step"
  /\ runs' = [runs EXCEPT ![run].steps[step] = "failed", ![run].status = "failed"]
  /\ stale' = stale \ {run}
  /\ Blank("release")
  /\ UNCHANGED <<proc, local, cron, overdue, counts>>

(* _time_out, after a step and before its outcome is acted upon *)
TimeOutAfterStep ==
  /\ pc = "decide"
  /\ Expired(run)
  /\ Finish("timed_out")

WaitForAction ==
  /\ pc = "decide" /\ outcome = "wait"
  /\ ~Expired(run)
  /\ Finish("waiting_action")

(* _succeed, early *)
StopPipeline ==
  /\ pc = "decide" /\ outcome = "stop"
  /\ ~Expired(run)
  /\ runs' = [runs EXCEPT ![run].status = IF warned THEN "succeeded_with_warnings"
                                                     ELSE "succeeded",
                          ![run].stopped = TRUE]
  /\ stale' = stale \ {run}
  /\ Blank("release")
  /\ UNCHANGED <<proc, local, cron, overdue, counts>>

NextStep ==
  /\ pc = "decide" /\ outcome = "continue"
  /\ ~Expired(run)
  /\ pc' = "boundary" /\ step' = step + 1 /\ outcome' = "none"
  /\ UNCHANGED <<runs, proc, local, run, skip, warned, cron, clock, counts>>

(* _succeed, after the last step *)
Succeed ==
  /\ pc = "boundary" /\ step > NumSteps
  /\ Finish(IF warned THEN "succeeded_with_warnings" ELSE "succeeded")

(* A transaction of execute raises outside the step's own try block: the   *)
(* worker logs task_execution_boundary_failed and leaves the row as it is. *)
BoundaryFails ==
  /\ pc \in {"claim", "boundary", "step", "decide"}
  /\ faults < MaxFaults
  /\ faults' = faults + 1
  /\ Blank("release")
  /\ UNCHANGED <<runs, proc, local, cron, clock, boots>>

Execute ==
  \/ Claim \/ ClaimExpired \/ ClaimRefused
  \/ RestoreCheckpoints \/ Interrupt \/ TimeOutBeforeStep \/ SkipStep
  \/ StartStep \/ FinishStep \/ FailStepAndRun
  \/ TimeOutAfterStep \/ WaitForAction \/ StopPipeline \/ NextStep \/ Succeed

-----------------------------------------------------------------------------
(* Startup, shutdown, crash *)

(* executor.start re-offers the queued rows; RecoveryService lists stale   *)
(* running rows once, before the worker can run.                           *)
Boot ==
  /\ proc = "down" /\ boots < MaxBoots
  /\ boots' = boots + 1
  /\ proc' = "recovering"
  /\ Redelivery
  /\ todo' = stale
  /\ UNCHANGED <<runs, worker, cron, clock, faults>>

(* recover_stale: one transaction per run, which is still stale because no *)
(* worker runs yet.                                                        *)
RecoverBesideParent(r) ==            \* mutant: the parent is not ended with it
  /\ proc = "recovering" /\ r \in todo
  /\ todo' = todo \ {r}
  /\ runs' = IF KeyTaken(RecoveryKey(r)) THEN runs ELSE Append(runs, Child(r))
  /\ UNCHANGED <<proc, queue, pending, worker, cron, clock, counts>>

RecoverStale(r) ==
  /\ proc = "recovering" /\ r \in todo \cap stale
  /\ todo' = todo \ {r}
  /\ stale' = stale \ {r}
  /\ LET status == IF Expired(r) THEN "timed_out" ELSE "interrupted"
         ended  == [runs EXCEPT ![r].status = status]
     IN  IF Expired(r) \/ KeyTaken(RecoveryKey(r))
         THEN /\ runs' = ended
              /\ UNCHANGED <<queue, pending>>
         ELSE /\ runs' = Append(ended, Child(r))
              /\ Enqueue(Len(runs) + 1)
  /\ UNCHANGED <<proc, worker, cron, overdue, counts>>

Serve ==
  /\ proc = "recovering" /\ todo = {}
  /\ proc' = "up"
  /\ UNCHANGED <<runs, local, worker, cron, clock, counts>>

(* shutdown: stop accepting, ask the run to stop at its next boundary and  *)
(* wake an idle worker with the sentinel.                                  *)
BeginShutdown ==
  /\ proc = "up" /\ AtAwait /\ boots < MaxBoots
  /\ proc' = "stopping"
  /\ queue' = IF Len(queue) < QueueSize THEN Append(queue, NoRun) ELSE queue
  /\ UNCHANGED <<runs, pending, todo, worker, cron, clock, counts>>

(* The grace period ends inside a step: the worker is cancelled and the    *)
(* row stays running.                                                      *)
GraceExpires ==
  /\ proc = "stopping" /\ pc = "step"
  /\ Blank("exited")
  /\ UNCHANGED <<runs, proc, local, cron, clock, counts>>

Down ==
  /\ proc' = "down" /\ queue' = <<>> /\ pending' = {} /\ todo' = {}
  /\ Blank("idle")
  /\ cron' = [at |-> "idle", run |-> NoRun]
  /\ UNCHANGED <<runs, clock, counts>>

Exit == proc = "stopping" /\ pc = "exited" /\ cron.at = "idle" /\ Down

Crash == proc # "down" /\ boots < MaxBoots /\ Down

(* Time passes: a heartbeat nobody renews gets old, a deadline is reached. *)
HeartbeatAges ==
  /\ \E r \in Runs \ stale :
       /\ runs[r].status = "running"
       /\ stale' = stale \cup {r}
  /\ UNCHANGED <<runs, proc, local, worker, cron, overdue, counts>>

DeadlinePasses ==
  /\ \E r \in Runs :
       /\ runs[r].status \in ActiveStatus /\ ~Expired(r)
       /\ overdue' = runs[r].deadline
  /\ UNCHANGED <<runs, proc, local, worker, cron, stale, counts>>

-----------------------------------------------------------------------------
Recovery == Boot \/ (\E r \in todo : RecoverStale(r)) \/ Serve

Next ==
  \/ \E q \in ApiRequests : Submit(q)
  \/ Cron
  \/ Redeliver \/ Get \/ Release \/ Heartbeat
  \/ Execute \/ RestoreFails \/ BoundaryFails
  \/ Recovery
  \/ BeginShutdown \/ GraceExpires \/ Exit \/ Crash
  \/ HeartbeatAges \/ DeadlinePasses

Spec == Init /\ [][Next]_vars

(* The process is restarted when it dies, the loop keeps scheduling the    *)
(* worker, threads run, every external call of a step has a timeout, and   *)
(* heartbeats get old.  Nobody has to submit anything, and nothing has to fail.   *)
Fairness ==
  /\ WF_vars(Recovery) /\ WF_vars(Exit) /\ WF_vars(HeartbeatAges)
  /\ WF_vars(Redeliver) /\ WF_vars(Get) /\ WF_vars(Release)
  /\ WF_vars(Execute)
  /\ WF_vars(CronInsert \/ CronPut \/ CronMark)

FairSpec == Spec /\ Fairness

-----------------------------------------------------------------------------
(* Properties *)

Row == [status : RunStatus, business : Businesses,
        key : ({"client"} \X ClientKeys) \cup ({"recovery"} \X Nat),
        parent : Nat \cup {NoRun}, deadline : Nat,
        stopped : BOOLEAN, steps : [Steps -> StepStatus]]

CronPlace == {[at |-> "idle", run |-> NoRun]}
             \cup [at : {"insert"}, run : Requests]
             \cup [at : {"put", "mark"}, run : Runs]

(* The state of every variable; an identifier held outside the table       *)
(* always names a row of it.                                               *)
TypeOK ==
  /\ runs \in Seq(Row)
  /\ proc \in {"down", "recovering", "up", "stopping"}
  /\ queue \in Seq(Runs \cup {NoRun})
  /\ pending \subseteq Runs /\ todo \subseteq Runs
  /\ pc \in {"idle", "claim", "restore", "boundary", "step", "decide",
             "release", "exited"}
  /\ run \in Runs \cup {NoRun}
  /\ step \in 1 .. NumSteps + 1 /\ skip \in 0 .. NumSteps
  /\ warned \in BOOLEAN
  /\ outcome \in {"none", "continue", "stop", "wait"}
  /\ cron \in CronPlace
  /\ stale \subseteq Runs /\ overdue \in Nat /\ boots \in Nat /\ faults \in Nat

(* At most one run of a business key is queued or running, whichever of    *)
(* the API, the scheduler thread and startup recovery created it.          *)
OneActivePerBusiness ==
  \A r, s \in Runs :
    /\ runs[r].status \in ActiveStatus /\ runs[s].status \in ActiveStatus
    /\ runs[r].business = runs[s].business
    => r = s

(* No idempotency key is ever bound to two rows; in particular a run is    *)
(* replaced by at most one recovery child however often it is recovered.   *)
UniqueKeys == \A r, s \in Runs : runs[r].key = runs[s].key => r = s

(* A recovery child continues exactly the request of an interrupted run:   *)
(* same business key, same deadline, and the parent is over for good.      *)
ChildReplacesParent ==
  \A c \in Runs : LET p == runs[c].parent IN
    p # NoRun => /\ p \in Runs /\ p < c
                 /\ runs[p].status = "interrupted"
                 /\ runs[c].business = runs[p].business
                 /\ runs[c].deadline = runs[p].deadline
                 /\ runs[c].key = RecoveryKey(p)

(* While execute is between its claim and its last transaction its row is  *)
(* running, so every validate_task_run_transition it performs succeeds.    *)
WorkerOwnsRunning ==
  pc \in {"restore", "boundary", "step", "decide"} =>
    /\ proc \in {"up", "stopping"}
    /\ run \in Runs /\ runs[run].status = "running"

(* A run never starts a step before the newest attempt at every earlier    *)
(* step, its own or an ancestor's, has succeeded.                          *)
StepsNeedTheirPrefix ==
  \A r \in Runs : \A i \in Steps :
    runs[r].steps[i] # "absent" => \A j \in 1 .. i - 1 : Completed(r, j)

(* A run that went through the whole pipeline completed every step, itself *)
(* or through its ancestors, and says "with warnings" iff one of those     *)
(* steps did.                                                              *)
SuccessIsComplete ==
  \A r \in Runs :
    runs[r].status \in Done /\ ~runs[r].stopped =>
      /\ \A i \in Steps : Completed(r, i)
      /\ runs[r].status = "succeeded_with_warnings"
           <=> \E i \in Steps : InheritsWarning(r, i)

(* The audit record of a finished run never changes: a stale or duplicate  *)
(* queue entry, a late heartbeat or a second recovery cannot reopen it.    *)
FinishedRunsAreFinal ==
  [][\A r \in Runs : runs[r].status \in TerminalStatus => runs'[r] = runs[r]]_runs

(* The writers of the table together keep what TaskLifecycle promises: no  *)
(* step of the API, the tick, the worker or recovery does more to the rows *)
(* than one submission, one documented transition or one replacement.      *)
View == [r \in Runs |-> [business |-> runs[r].business,
                         status   |-> runs[r].status,
                         parent   |-> runs[r].parent]]

Lifecycle == INSTANCE TaskLifecycle WITH rows <- View

KeepsLifecycle == Lifecycle!Spec

(* A queued row the executor believes to have been delivered is on its     *)
(* queue or in the worker's hands, so redelivery may pass it over.  (Once  *)
(* shutdown has begun nothing is redelivered.)                             *)
PendingIsHeld ==
  proc \in {"recovering", "up"} =>
    \A r \in pending :
      runs[r].status = "queued" => run = r \/ \E i \in DOMAIN queue : queue[i] = r

(* Every identifier a row can get within the bounds.                       *)
RunIds == 1 .. MaxRuns + MaxBoots

(* A committed queued row does not wait for ever, whatever QueueFull,      *)
(* crashes and shutdowns do to the local queue.                            *)
QueuedIsTaken ==
  \A r \in RunIds :
    (r \in Runs /\ runs[r].status = "queued")
      ~> (r \in Runs /\ runs[r].status # "queued")

(* docs/design.md:492: after an over-grace exit "the run stays running;    *)
(* the next startup waits for the 60 second heartbeat threshold and then   *)
(* finds it interrupted".                                                  *)
OrphanIsRecovered ==
  \A r \in RunIds :
    (r \in Runs /\ runs[r].status = "running")
      ~> (r \in Runs /\ runs[r].status # "running")

(* docs/design.md:491: a run interrupted by a graceful shutdown gets its   *)
(* child task from the next startup's recovery.                            *)
InterruptedIsResumed ==
  proc = "up" =>
    \A p \in Runs : runs[p].status = "interrupted" =>
      \E c \in Runs : runs[c].parent = p

=============================================================================
