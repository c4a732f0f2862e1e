------------------------- MODULE TaskExecutionProofs -------------------------
(***************************************************************************)
(* Theorems about TaskExecution, for any set of commands, any pipeline     *)
(* length, queue size and number of crashes.                               *)
(*                                                                         *)
(* Everything rests on one inductive invariant, IInv, and on one view of   *)
(* the steps: under IInv a step does to the table one of four things       *)
(* (RowChange), and whatever the properties say of the table follows from  *)
(* those four.  The second half is about the way of a run: that the        *)
(* executor holds what it believes to have delivered, and that the steps   *)
(* of a run and of the ancestors it inherits from add up to the whole      *)
(* pipeline.                                                               *)
(***************************************************************************)
EXTENDS TaskExecution, LoopProofs

-----------------------------------------------------------------------------
(* The inductive invariant *)

(* Where the worker can be.                                                *)
WorkerPlace ==
  /\ pc # "idle" => proc \in {"up", "stopping"}
  /\ pc = "claim" => run \in Runs
  /\ pc \in {"step", "decide"} => step \in Steps

(* Only running rows have a heartbeat that can be out of date.             *)
StaleRunsRun == \A r \in stale : runs[r].status = "running"

(* The part that does not compare rows with each other ...                 *)
Base == TypeOK /\ WorkerPlace /\ StaleRunsRun /\ WorkerOwnsRunning

(* ... and the part that does.                                             *)
IInv == Base /\ OneActivePerBusiness /\ UniqueKeys /\ ChildReplacesParent

-----------------------------------------------------------------------------
(* What a step may do to the table *)

(* Row r changes its status (and steps); nothing else changes.             *)
Moved(r, status) ==
  /\ DOMAIN runs' = Runs
  /\ \A s \in Runs \ {r} : runs'[s] = runs[s]
  /\ runs'[r].status = status
  /\ runs'[r].business = runs[r].business /\ runs'[r].key = runs[r].key
  /\ runs'[r].parent = runs[r].parent /\ runs'[r].deadline = runs[r].deadline

(* Row r is ended and its child queued.                                    *)
Replaced(r) ==
  /\ DOMAIN runs' = 1 .. Len(runs) + 1
  /\ \A s \in Runs \ {r} : runs'[s] = runs[s]
  /\ runs'[r] = [runs[r] EXCEPT !.status = "interrupted"]
  /\ runs'[Len(runs) + 1] = Child(r)

Added(row) ==
  /\ DOMAIN runs' = 1 .. Len(runs) + 1
  /\ \A s \in Runs : runs'[s] = runs[s]
  /\ runs'[Len(runs) + 1] = row

RowChange ==
  \/ UNCHANGED runs
  \/ \E q \in Requests : /\ ~KeyTaken(ClientKey(q.key)) /\ ~Active(q.business)
                         /\ Added(RequestRow(q))
  \/ \E r \in Runs : /\ runs[r].status = "queued"
                     /\ Moved(r, "running") \/ Moved(r, "timed_out")
  \/ \E r \in Runs : /\ runs[r].status = "running"
                     /\ \E status \in TerminalStatus \cup {"running"} : Moved(r, status)
  \/ \E r \in Runs : /\ runs[r].status = "running"
                     /\ ~KeyTaken(RecoveryKey(r))
                     /\ Replaced(r)

-----------------------------------------------------------------------------
(* Replacing an element of a sequence keeps its length and its type.       *)
LEMMA ReplacedEntry ==
  ASSUME NEW S, NEW s \in Seq(S), NEW i \in DOMAIN s, NEW x \in S
  PROVE  /\ [s EXCEPT ![i] = x] \in Seq(S)
         /\ DOMAIN [s EXCEPT ![i] = x] = DOMAIN s
         /\ Len([s EXCEPT ![i] = x]) = Len(s)
  OBVIOUS

(* The rows a redelivery appends are rows of the table.                    *)
LEMMA RedeliveryHandles ==
  ASSUME TypeOK, Redelivery
  PROVE  queue' \in Seq(Runs \cup {NoRun}) /\ pending' \subseteq Runs
<1>1. Offered \subseteq Runs
  BY DEF Offered, Unoffered
<1>2. Runs = 1 .. Len(runs) /\ Len(runs) \in Nat
  BY DEF TypeOK, Runs
<1>3. IsFiniteSet(Offered)
  <2>1. IsFiniteSet(1 .. Len(runs))
    BY <1>2, FS_Interval
  <2> QED
    BY <1>1, <1>2, <2>1, FS_Subset
<1>4. Cardinality(Offered) \in Nat
  BY <1>3, FS_CardinalityType
<1>5. PICK s \in [1 .. Cardinality(Offered) -> Offered] : queue' = queue \o s
  BY DEF Redelivery
<1>6. s \in Seq(Runs \cup {NoRun})
  BY <1>1, <1>4, <1>5
<1>7. queue \in Seq(Runs \cup {NoRun})
  BY DEF TypeOK
<1>8. queue' \in Seq(Runs \cup {NoRun})
  BY <1>5, <1>6, <1>7
<1> QED
  BY <1>1, <1>8 DEF Redelivery, TypeOK

(* An enqueued row is a row.                                               *)
LEMMA EnqueueHandles ==
  ASSUME NEW Ids, NEW r \in Ids, queue \in Seq(Ids \cup {NoRun}), pending \subseteq Ids,
         Enqueue(r)
  PROVE  queue' \in Seq(Ids \cup {NoRun}) /\ pending' \subseteq Ids
  BY DEF Enqueue

-----------------------------------------------------------------------------
(* Edits of one row *)

(* Putting a row of the same identity in place of row r.                   *)
LEMMA RowEdit ==
  ASSUME TypeOK, NEW r \in Runs, NEW row \in Row,
         row.business = runs[r].business, row.key = runs[r].key,
         row.parent = runs[r].parent, row.deadline = runs[r].deadline,
         runs' = [runs EXCEPT ![r] = row]
  PROVE  runs' \in Seq(Row) /\ Len(runs') = Len(runs) /\ Moved(r, row.status)
<1>1. runs \in Seq(Row) /\ r \in DOMAIN runs
  BY DEF TypeOK, Runs
<1>2. runs' \in Seq(Row) /\ Len(runs') = Len(runs) /\ DOMAIN runs' = DOMAIN runs
  BY <1>1, ReplacedEntry
<1>3. runs'[r] = row /\ \A s \in DOMAIN runs \ {r} : runs'[s] = runs[s]
  BY <1>1
<1> QED
  BY <1>2, <1>3 DEF Moved, Runs

(* update_status keeps every other column and every other row.             *)
LEMMA StatusEdit ==
  ASSUME TypeOK, NEW r \in Runs, NEW status \in RunStatus,
         runs' = [runs EXCEPT ![r].status = status]
  PROVE  runs' \in Seq(Row) /\ Len(runs') = Len(runs) /\ Moved(r, status)
<1> DEFINE row == [runs[r] EXCEPT !.status = status]
<1>1. runs[r] \in Row
  BY DEF TypeOK, Runs
<1>2. row \in Row /\ row.status = status
      /\ row.business = runs[r].business /\ row.key = runs[r].key
      /\ row.parent = runs[r].parent /\ row.deadline = runs[r].deadline
  BY <1>1 DEF Row
<1>3. runs' = [runs EXCEPT ![r] = row]
  OBVIOUS
<1> HIDE DEF row
<1> QED
  BY <1>2, <1>3, RowEdit

(* A step row may change too.                                              *)
LEMMA StepEdit ==
  ASSUME TypeOK, NEW r \in Runs, NEW i \in Steps, NEW result \in StepStatus,
         runs' = [runs EXCEPT ![r].steps[i] = result]
  PROVE  runs' \in Seq(Row) /\ Len(runs') = Len(runs) /\ Moved(r, runs[r].status)
<1> DEFINE row == [runs[r] EXCEPT !.steps[i] = result]
<1>1. runs[r] \in Row
  BY DEF TypeOK, Runs
<1>2. row \in Row /\ row.status = runs[r].status
      /\ row.business = runs[r].business /\ row.key = runs[r].key
      /\ row.parent = runs[r].parent /\ row.deadline = runs[r].deadline
  BY <1>1 DEF Row
<1>3. runs' = [runs EXCEPT ![r] = row]
  OBVIOUS
<1> HIDE DEF row
<1> QED
  BY <1>2, <1>3, RowEdit

LEMMA FailEdit ==
  ASSUME TypeOK, NEW r \in Runs, NEW i \in Steps,
         runs' = [runs EXCEPT ![r].steps[i] = "failed", ![r].status = "failed"]
  PROVE  runs' \in Seq(Row) /\ Len(runs') = Len(runs) /\ Moved(r, "failed")
<1> DEFINE row == [runs[r] EXCEPT !.steps[i] = "failed", !.status = "failed"]
<1>1. runs[r] \in Row /\ runs \in Seq(Row) /\ r \in DOMAIN runs
  BY DEF TypeOK, Runs
<1>2. row \in Row /\ row.status = "failed"
      /\ row.business = runs[r].business /\ row.key = runs[r].key
      /\ row.parent = runs[r].parent /\ row.deadline = runs[r].deadline
  BY <1>1 DEF Row, RunStatus, StepStatus
<1>3. runs' = [runs EXCEPT ![r] = row]
  BY <1>1
<1> HIDE DEF row
<1> QED
  BY <1>2, <1>3, RowEdit

LEMMA StopEdit ==
  ASSUME TypeOK, NEW r \in Runs, NEW status \in RunStatus,
         runs' = [runs EXCEPT ![r].status = status, ![r].stopped = TRUE]
  PROVE  runs' \in Seq(Row) /\ Len(runs') = Len(runs) /\ Moved(r, status)
<1> DEFINE row == [runs[r] EXCEPT !.status = status, !.stopped = TRUE]
<1>1. runs[r] \in Row /\ runs \in Seq(Row) /\ r \in DOMAIN runs
  BY DEF TypeOK, Runs
<1>2. row \in Row /\ row.status = status
      /\ row.business = runs[r].business /\ row.key = runs[r].key
      /\ row.parent = runs[r].parent /\ row.deadline = runs[r].deadline
  BY <1>1 DEF Row
<1>3. runs' = [runs EXCEPT ![r] = row]
  BY <1>1
<1> HIDE DEF row
<1> QED
  BY <1>2, <1>3, RowEdit

LEMMA RequestRowType ==
  ASSUME TypeOK, NEW q \in Requests
  PROVE  RequestRow(q) \in Row
BY DEF TypeOK, RequestRow, NewRow, Row, Requests, ClientKey, RunStatus, StepStatus

LEMMA ChildType ==
  ASSUME TypeOK, NEW r \in Runs
  PROVE  Child(r) \in Row
<1>1. runs[r] \in Row /\ r \in Nat
  BY DEF TypeOK, Runs
<1> QED
  BY <1>1 DEF Child, NewRow, Row, RecoveryKey, RunStatus, StepStatus

(* An insert keeps every row.                                              *)
LEMMA InsertRow ==
  ASSUME TypeOK, NEW row \in Row, runs' = Append(runs, row)
  PROVE  runs' \in Seq(Row) /\ Len(runs') = Len(runs) + 1 /\ Added(row)
<1>1. runs \in Seq(Row)
  BY DEF TypeOK
<1> QED
  BY <1>1 DEF Added, Runs

-----------------------------------------------------------------------------
(* Every step is a RowChange and keeps Base *)

(* Steps that leave the table, the worker and the clock alone.             *)
LEMMA QuietStep ==
  ASSUME Base, UNCHANGED <<runs, clock, worker>>,
         proc' \in {"down", "recovering", "up", "stopping"},
         pc = "idle" \/ proc' \in {"up", "stopping"},
         queue' \in Seq(Runs \cup {NoRun}), pending' \subseteq Runs, todo' \subseteq Runs,
         cron' \in CronPlace, boots' \in Nat, faults' \in Nat
  PROVE  RowChange /\ Base'
<1> USE DEF Base, worker, clock
<1>1. TypeOK'
  BY DEF TypeOK, Runs, CronPlace
<1>2. WorkerPlace'
  BY DEF WorkerPlace, Runs
<1>3. WorkerOwnsRunning' /\ StaleRunsRun'
  BY DEF WorkerOwnsRunning, StaleRunsRun, Runs
<1> QED
  BY <1>1, <1>2, <1>3 DEF RowChange

(* Steps that only move the worker.                                        *)
LEMMA WorkerStep ==
  ASSUME Base, UNCHANGED <<runs, proc, todo, cron, clock>>,
         queue' \in Seq(Runs \cup {NoRun}), pending' \subseteq Runs,
         run' \in Runs \cup {NoRun}, step' \in 1 .. NumSteps + 1, skip' \in 0 .. NumSteps,
         warned' \in BOOLEAN, outcome' \in {"none", "continue", "stop", "wait"},
         boots' \in Nat, faults' \in Nat,
         proc \in {"up", "stopping"},
         \/ pc' \in {"idle", "release", "exited"}
         \/ pc' = "claim" /\ run' \in Runs
         \/ pc' = "boundary" /\ run' = run /\ pc \in {"restore", "boundary", "decide"}
  PROVE  RowChange /\ Base'
<1> USE DEF Base, clock
<1>1. TypeOK'
  BY DEF TypeOK, Runs, CronPlace
<1>2. WorkerPlace'
  BY DEF WorkerPlace, Runs
<1>3. WorkerOwnsRunning' /\ StaleRunsRun'
  BY DEF WorkerOwnsRunning, StaleRunsRun, Runs
<1> QED
  BY <1>1, <1>2, <1>3 DEF RowChange

(* Steps of the worker that write its row.                                 *)
LEMMA MoveStep ==
  ASSUME Base, NEW r \in Runs, NEW status, runs' \in Seq(Row), Moved(r, status),
         UNCHANGED <<proc, local, cron, overdue, boots>>, faults' \in Nat,
         run' \in Runs \cup {NoRun}, step' \in 1 .. NumSteps + 1, skip' \in 0 .. NumSteps,
         warned' \in BOOLEAN, outcome' \in {"none", "continue", "stop", "wait"},
         proc \in {"up", "stopping"},
         \/ stale' = stale \ {r} /\ pc' = "release"
         \/ /\ stale' = stale /\ status = "running" /\ run' = r
            /\ \/ pc' \in {"restore", "boundary"}
               \/ pc' \in {"step", "decide"} /\ step' \in Steps
  PROVE  Base'
<1> USE DEF Base, local
<1>1. Runs' = Runs /\ r \in Runs' /\ runs'[r].status = status
  BY DEF Moved, Runs
<1>2. TypeOK'
  BY <1>1 DEF TypeOK, CronPlace
<1>3. WorkerPlace'
  BY <1>1 DEF WorkerPlace
<1>4. WorkerOwnsRunning'
  BY <1>1 DEF WorkerOwnsRunning
<1>5. StaleRunsRun'
  BY <1>1 DEF StaleRunsRun, Moved, TypeOK
<1> QED
  BY <1>2, <1>3, <1>4, <1>5

(* Steps that insert a row.                                                *)
LEMMA InsertStep ==
  ASSUME Base, NEW row \in Row, runs' = Append(runs, row),
         UNCHANGED <<proc, todo, worker, clock, counts>>,
         queue' \in Seq(Runs' \cup {NoRun}), pending' \subseteq Runs',
         cron' \in CronPlace \/ cron' = [at |-> "put", run |-> Len(runs) + 1]
  PROVE  Base'
<1> USE DEF Base, worker, clock, counts
<1>1. runs' \in Seq(Row) /\ Added(row) /\ Len(runs') = Len(runs) + 1
  BY InsertRow
<1>2. Runs' = 1 .. Len(runs) + 1 /\ Runs = 1 .. Len(runs) /\ Len(runs) \in Nat
  BY <1>1 DEF Added, Runs, TypeOK
<1>3. Runs \subseteq Runs' /\ \A s \in Runs : runs'[s] = runs[s]
  BY <1>1, <1>2 DEF Added
<1>4. cron' \in CronPlace'
  BY <1>2, <1>3 DEF CronPlace
<1>5. TypeOK'
  BY <1>1, <1>3, <1>4 DEF TypeOK
<1>6. WorkerPlace'
  BY <1>3 DEF WorkerPlace
<1>7. WorkerOwnsRunning' /\ StaleRunsRun'
  BY <1>3 DEF WorkerOwnsRunning, StaleRunsRun, TypeOK
<1> QED
  BY <1>5, <1>6, <1>7

(* Submission, from the API and from the scheduler thread.                 *)
LEMMA SubmissionSteps ==
  ASSUME Base, (\E q \in ApiRequests : Submit(q)) \/ Cron
  PROVE  RowChange /\ Base'
<1> USE DEF local, worker, clock, counts
<1>0. /\ Runs = 1 .. Len(runs) /\ Len(runs) \in Nat
      /\ queue \in Seq(Runs \cup {NoRun}) /\ pending \subseteq Runs /\ todo \subseteq Runs
      /\ cron \in CronPlace /\ boots \in Nat /\ faults \in Nat
      /\ proc \in {"down", "recovering", "up", "stopping"}
      /\ pc = "idle" \/ proc \in {"up", "stopping"}
  BY DEF Base, TypeOK, Runs, WorkerPlace
<1>1. ASSUME NEW q \in ApiRequests, Submit(q)  PROVE RowChange /\ Base'
  <2>1. q \in Requests /\ RequestRow(q) \in Row
    BY RequestRowType, ConstantsOK DEF Base
  <2>2. runs' = Append(runs, RequestRow(q)) /\ Enqueue(Len(runs) + 1)
    BY <1>1 DEF Submit
  <2>3. Added(RequestRow(q)) /\ Runs' = 1 .. Len(runs) + 1
    BY <2>1, <2>2, InsertRow DEF Base, Added, Runs
  <2>4. queue \in Seq(Runs' \cup {NoRun}) /\ pending \subseteq Runs' /\ Len(runs) + 1 \in Runs'
    BY <1>0, <2>3
  <2>5. queue' \in Seq(Runs' \cup {NoRun}) /\ pending' \subseteq Runs'
    BY <2>2, <2>4, EnqueueHandles
  <2>6. Base'
    BY <1>0, <1>1, <2>1, <2>2, <2>5, InsertStep DEF Submit
  <2> QED
    BY <1>1, <2>1, <2>3, <2>6 DEF Submit, RowChange
<1>2. ASSUME NEW q \in CronRequests, CronLookup(q)  PROVE RowChange /\ Base'
  <2>1. cron' \in CronPlace
    BY <1>2, ConstantsOK DEF CronLookup, CronPlace
  <2> QED
    BY <1>0, <1>2, <2>1, QuietStep DEF CronLookup
<1>3. CASE CronInsert
  <2>1. CASE UNCHANGED runs
    <3>1. cron' = [at |-> "idle", run |-> NoRun]
      BY <1>0, <1>3, <2>1 DEF CronInsert, Base, TypeOK
    <3> QED
      BY <1>0, <1>3, <2>1, <3>1, QuietStep DEF CronInsert, CronPlace
  <2>2. CASE runs' # runs
    <3> DEFINE q == cron.run
    <3>1. q \in Requests
      BY <1>0, <1>3 DEF CronInsert, CronPlace
    <3>2. /\ ~KeyTaken(ClientKey(q.key)) /\ ~Active(q.business)
          /\ runs' = Append(runs, RequestRow(q))
          /\ cron' = [at |-> "put", run |-> Len(runs) + 1]
      BY <1>3, <2>2 DEF CronInsert
    <3>3. RequestRow(q) \in Row
      BY <3>1, RequestRowType DEF Base
    <3>4. Added(RequestRow(q)) /\ Runs' = 1 .. Len(runs) + 1
      BY <3>2, <3>3, InsertRow DEF Base, Added, Runs
    <3>5. queue' \in Seq(Runs' \cup {NoRun}) /\ pending' \subseteq Runs'
      BY <1>0, <1>3, <3>4 DEF CronInsert
    <3>6. Base'
      BY <1>3, <3>2, <3>3, <3>5, InsertStep DEF CronInsert
    <3> QED
      BY <3>1, <3>2, <3>4, <3>6 DEF RowChange
  <2> QED
    BY <2>1, <2>2
<1>4. CASE CronPut
  <2>1. cron.run \in Runs
    BY <1>0, <1>4 DEF CronPut, CronPlace
  <2>2. queue' \in Seq(Runs \cup {NoRun}) /\ cron' \in CronPlace
    BY <1>0, <1>4, <2>1 DEF CronPut, CronPlace
  <2> QED
    BY <1>0, <1>4, <2>2, QuietStep DEF CronPut
<1>5. CASE CronMark
  <2>1. cron.run \in Runs /\ cron' \in CronPlace
    BY <1>0, <1>5 DEF CronMark, CronPlace
  <2> QED
    BY <1>0, <1>5, <2>1, QuietStep DEF CronMark
<1> QED
  BY <1>1, <1>2, <1>3, <1>4, <1>5 DEF Cron

(* The worker loop, up to its call of execute and after it.                *)
LEMMA WorkerLoopSteps ==
  ASSUME Base, Redeliver \/ Get \/ Release \/ Heartbeat
  PROVE  RowChange /\ Base'
<1> USE DEF local, worker, clock, counts
<1>0. /\ queue \in Seq(Runs \cup {NoRun}) /\ pending \subseteq Runs /\ todo \subseteq Runs
      /\ cron \in CronPlace /\ boots \in Nat /\ faults \in Nat
      /\ proc \in {"down", "recovering", "up", "stopping"}
      /\ run \in Runs \cup {NoRun} /\ step \in 1 .. NumSteps + 1 /\ skip \in 0 .. NumSteps
      /\ warned \in BOOLEAN /\ outcome \in {"none", "continue", "stop", "wait"}
      /\ pc # "idle" => proc \in {"up", "stopping"}
  BY DEF Base, TypeOK, WorkerPlace
<1>1. CASE Redeliver
  BY <1>0, <1>1, QuietStep, RedeliveryHandles DEF Redeliver, Base
<1>2. CASE Get
  <2>1. Tail(queue) \in Seq(Runs \cup {NoRun}) /\ Head(queue) \in Runs \cup {NoRun}
    BY <1>0, <1>2 DEF Get
  <2>2. run' \in Runs \cup {NoRun} /\ pc' \in {"claim", "exited"}
        /\ (pc' = "claim" => run' \in Runs)
    BY <1>0, <1>2, <2>1 DEF Get
  <2>3. queue' \in Seq(Runs \cup {NoRun}) /\ pending' \subseteq Runs
    BY <1>0, <1>2, <2>1 DEF Get
  <2> QED
    BY <1>0, <1>2, <2>2, <2>3, WorkerStep DEF Get
<1>3. CASE Release
  <2>1. queue' \in Seq(Runs \cup {NoRun}) /\ pending' \subseteq Runs
    BY <1>0, <1>3, RedeliveryHandles DEF Release, Base
  <2> QED
    BY <1>0, <1>3, <2>1, WorkerStep DEF Release
<1>4. CASE Heartbeat
  <2>1. stale' \subseteq stale
    BY <1>4 DEF Heartbeat
  <2>2. TypeOK'
    BY <1>4, <2>1 DEF Heartbeat, Base, TypeOK, Runs, CronPlace
  <2>3. WorkerPlace' /\ WorkerOwnsRunning' /\ StaleRunsRun'
    BY <1>4, <2>1 DEF Heartbeat, Base, WorkerPlace, WorkerOwnsRunning, StaleRunsRun, Runs
  <2> QED
    BY <1>4, <2>2, <2>3 DEF Heartbeat, Base, RowChange
<1> QED
  BY <1>1, <1>2, <1>3, <1>4

(* A worker between two tasks.                                             *)
LEMMA BlankWorker ==
  ASSUME NEW place, Blank(place)
  PROVE  /\ pc' = place /\ run' = NoRun
         /\ step' \in 1 .. NumSteps + 1 /\ skip' \in 0 .. NumSteps
         /\ warned' \in BOOLEAN /\ outcome' \in {"none", "continue", "stop", "wait"}
<1>1. NumSteps \in Nat \ {0}
  BY ConstantsOK
<1>2. pc' = place /\ run' = NoRun /\ step' = 1 /\ skip' = 0
      /\ warned' = FALSE /\ outcome' = "none"
  BY DEF Blank
<1>3. step' \in 1 .. NumSteps + 1 /\ skip' \in 0 .. NumSteps
  BY <1>1, <1>2
<1> QED
  BY <1>2, <1>3

(* Ending the worker's row.                                                *)
LEMMA FinishStepOver ==
  ASSUME Base, NEW status \in TerminalStatus, Finish(status), run \in Runs,
         proc \in {"up", "stopping"},
         runs[run].status = "running" \/ (runs[run].status = "queued" /\ status = "timed_out")
  PROVE  RowChange /\ Base'
<1> USE DEF local, counts
<1>1. status \in RunStatus /\ NumSteps \in Nat \ {0}
  BY ConstantsOK DEF TerminalStatus
<1>2. runs' \in Seq(Row) /\ Moved(run, status)
  BY <1>1, StatusEdit DEF Finish, End, Base
<1>3. Base'
  BY <1>1, <1>2, MoveStep, BlankWorker DEF Finish, End, Base, TypeOK
<1> QED
  BY <1>2, <1>3 DEF RowChange

(* PipelineOrchestrator.execute.                                           *)
LEMMA ExecuteSteps ==
  ASSUME Base, Execute \/ RestoreFails \/ BoundaryFails
  PROVE  RowChange /\ Base'
<1> USE DEF local, worker, clock, counts
<1>0. /\ queue \in Seq(Runs \cup {NoRun}) /\ pending \subseteq Runs /\ todo \subseteq Runs
      /\ cron \in CronPlace /\ boots \in Nat /\ faults \in Nat
      /\ run \in Runs \cup {NoRun} /\ step \in 1 .. NumSteps + 1 /\ skip \in 0 .. NumSteps
      /\ warned \in BOOLEAN /\ outcome \in {"none", "continue", "stop", "wait"}
      /\ NumSteps \in Nat \ {0}
  BY ConstantsOK DEF Base, TypeOK
<1>00. /\ pc # "idle" => proc \in {"up", "stopping"}
       /\ pc = "claim" => run \in Runs
       /\ pc \in {"restore", "boundary", "step", "decide"} =>
            run \in Runs /\ runs[run].status = "running"
       /\ pc \in {"step", "decide"} => step \in Steps
  BY DEF Base, WorkerPlace, WorkerOwnsRunning
<1>1. CASE Claim
  <2>1. runs' \in Seq(Row) /\ Moved(run, "running")
    BY <1>00, <1>1, StatusEdit DEF Claim, RunStatus, Base
  <2>2. Base'
    BY <1>0, <1>00, <1>1, <2>1, MoveStep DEF Claim, Goto
  <2> QED
    BY <1>00, <1>1, <2>1, <2>2 DEF Claim, RowChange
<1>2. CASE ClaimExpired
  BY <1>00, <1>2, FinishStepOver DEF ClaimExpired, TerminalStatus, RunStatus, ActiveStatus
<1>3. CASE ClaimRefused
  BY <1>0, <1>00, <1>3, WorkerStep, BlankWorker DEF ClaimRefused
<1>4. CASE RestoreCheckpoints
  BY <1>0, <1>00, <1>4, WorkerStep DEF RestoreCheckpoints, Goto, RestoredWarning
<1>5. CASE RestoreFails
  <2>1. runs' \in Seq(Row) /\ Moved(run, "failed")
    BY <1>00, <1>5, StatusEdit DEF RestoreFails, End, RunStatus, Base
  <2>2. /\ pc' = "release" /\ run' \in Runs \cup {NoRun}
        /\ step' \in 1 .. NumSteps + 1 /\ skip' \in 0 .. NumSteps
        /\ warned' \in BOOLEAN /\ outcome' \in {"none", "continue", "stop", "wait"}
    BY <1>5, BlankWorker DEF RestoreFails
  <2>3. /\ stale' = stale \ {run} /\ faults' \in Nat
        /\ UNCHANGED <<proc, local, cron, overdue, boots>>
    BY <1>0, <1>5 DEF RestoreFails, End
  <2>4. Base'
    BY <1>00, <1>5, <2>1, <2>2, <2>3, MoveStep DEF RestoreFails
  <2> QED
    BY <1>00, <1>5, <2>1, <2>4
    DEF RestoreFails, RowChange, TerminalStatus, RunStatus, ActiveStatus
<1>6. CASE Interrupt
  BY <1>00, <1>6, FinishStepOver
  DEF Interrupt, InLoop, TerminalStatus, RunStatus, ActiveStatus
<1>7. CASE TimeOutBeforeStep
  BY <1>00, <1>7, FinishStepOver
  DEF TimeOutBeforeStep, InLoop, TerminalStatus, RunStatus, ActiveStatus
<1>8. CASE SkipStep
  <2>1. step' \in 1 .. NumSteps + 1
    BY <1>0, <1>8 DEF SkipStep, InLoop
  <2> QED
    BY <1>0, <1>00, <1>8, <2>1, WorkerStep DEF SkipStep, InLoop
<1>9. CASE StartStep
  <2>1. step \in Steps
    BY <1>0, <1>9 DEF StartStep, InLoop, Steps
  <2>2. runs' \in Seq(Row) /\ Moved(run, "running")
    BY <1>00, <1>9, <2>1, StepEdit DEF StartStep, InLoop, StepStatus, Base
  <2>3. Base'
    BY <1>0, <1>00, <1>9, <2>1, <2>2, MoveStep DEF StartStep, InLoop, Goto
  <2> QED
    BY <1>00, <1>9, <2>2, <2>3 DEF StartStep, InLoop, RowChange
<1>10. CASE FinishStep
  <2>1. PICK result \in {"continue", "stop", "wait"}, status \in Done :
          /\ outcome' = result
          /\ runs' = [runs EXCEPT ![run].steps[step] = status]
          /\ warned' = (warned \/ status = "succeeded_with_warnings")
    BY <1>10 DEF FinishStep
  <2>2. runs' \in Seq(Row) /\ Moved(run, "running")
    BY <1>00, <1>10, <2>1, StepEdit DEF FinishStep, StepStatus, Base
  <2>3. Base'
    BY <1>0, <1>00, <1>10, <2>1, <2>2, MoveStep DEF FinishStep, Goto
  <2> QED
    BY <1>00, <1>10, <2>2, <2>3 DEF FinishStep, RowChange
<1>11. CASE FailStepAndRun
  <2>1. runs' \in Seq(Row) /\ Moved(run, "failed")
    BY <1>00, <1>11, FailEdit DEF FailStepAndRun, Base
  <2>2. Base'
    BY <1>0, <1>00, <1>11, <2>1, MoveStep, BlankWorker DEF FailStepAndRun
  <2> QED
    BY <1>00, <1>11, <2>1, <2>2
    DEF FailStepAndRun, RowChange, TerminalStatus, RunStatus, ActiveStatus
<1>12. CASE TimeOutAfterStep
  BY <1>00, <1>12, FinishStepOver
  DEF TimeOutAfterStep, TerminalStatus, RunStatus, ActiveStatus
<1>13. CASE WaitForAction
  BY <1>00, <1>13, FinishStepOver DEF WaitForAction, TerminalStatus, RunStatus, ActiveStatus
<1>14. CASE StopPipeline
  <2> DEFINE status == IF warned THEN "succeeded_with_warnings" ELSE "succeeded"
  <2>1. status \in RunStatus /\ status \in TerminalStatus
    BY DEF RunStatus, TerminalStatus, ActiveStatus
  <2>2. runs' = [runs EXCEPT ![run].status = status, ![run].stopped = TRUE]
    BY <1>14 DEF StopPipeline
  <2> HIDE DEF status
  <2>3. runs' \in Seq(Row) /\ Moved(run, status)
    BY <1>00, <1>14, <2>1, <2>2, StopEdit DEF StopPipeline, Base
  <2>4. Base'
    BY <1>0, <1>00, <1>14, <2>3, MoveStep, BlankWorker DEF StopPipeline
  <2> QED
    BY <1>00, <1>14, <2>1, <2>3, <2>4 DEF StopPipeline, RowChange
<1>15. CASE NextStep
  <2>1. step' \in 1 .. NumSteps + 1
    BY <1>0, <1>00, <1>15 DEF NextStep, Steps
  <2> QED
    BY <1>0, <1>00, <1>15, <2>1, WorkerStep DEF NextStep
<1>16. CASE Succeed
  <2> DEFINE status == IF warned THEN "succeeded_with_warnings" ELSE "succeeded"
  <2>1. status \in TerminalStatus /\ Finish(status)
    BY <1>16 DEF Succeed, RunStatus, TerminalStatus, ActiveStatus
  <2> HIDE DEF status
  <2> QED
    BY <1>00, <1>16, <2>1, FinishStepOver DEF Succeed
<1>17. CASE BoundaryFails
  BY <1>0, <1>00, <1>17, WorkerStep, BlankWorker DEF BoundaryFails
<1> QED
  BY <1>1, <1>2, <1>3, <1>4, <1>5, <1>6, <1>7, <1>8, <1>9, <1>10, <1>11, <1>12, <1>13,
     <1>14, <1>15, <1>16, <1>17 DEF Execute

(* Startup: redelivery, recovery of the stale rows, serving.               *)
LEMMA RecoverySteps ==
  ASSUME Base, Recovery
  PROVE  RowChange /\ Base'
<1> USE DEF local, worker, clock, counts
<1>0. /\ Runs = 1 .. Len(runs) /\ Len(runs) \in Nat /\ runs \in Seq(Row)
      /\ queue \in Seq(Runs \cup {NoRun}) /\ pending \subseteq Runs /\ todo \subseteq Runs
      /\ stale \subseteq Runs
      /\ cron \in CronPlace /\ boots \in Nat /\ faults \in Nat
      /\ proc \notin {"up", "stopping"} => pc = "idle"
  BY DEF Base, TypeOK, WorkerPlace, Runs
<1>1. CASE Boot
  BY <1>0, <1>1, QuietStep, RedeliveryHandles DEF Boot, Base
<1>2. CASE Serve
  BY <1>0, <1>2, QuietStep DEF Serve
<1>3. ASSUME NEW r \in todo, RecoverStale(r)  PROVE RowChange /\ Base'
  <2>1. r \in Runs /\ r \in stale /\ runs[r].status = "running" /\ pc = "idle"
    BY <1>0, <1>3 DEF RecoverStale, Base, StaleRunsRun
  <2> DEFINE status == IF Expired(r) THEN "timed_out" ELSE "interrupted"
             ended  == [runs EXCEPT ![r].status = status]
  <2>2. status \in TerminalStatus /\ status \in RunStatus
    BY DEF TerminalStatus, RunStatus, ActiveStatus
  <2>3. stale' = stale \ {r} /\ todo' \subseteq Runs
    BY <1>0, <1>3 DEF RecoverStale
  <2>4. UNCHANGED <<proc, worker, cron, overdue, counts>>
    BY <1>3 DEF RecoverStale
  <2>5. CASE Expired(r) \/ KeyTaken(RecoveryKey(r))
    <3>1. runs' = ended /\ UNCHANGED <<queue, pending>>
      BY <1>3, <2>5 DEF RecoverStale
    <3> HIDE DEF status
    <3>2. runs' \in Seq(Row) /\ Moved(r, status)
      BY <2>1, <2>2, <3>1, StatusEdit DEF Base
    <3>3. Runs' = Runs
      BY <3>2 DEF Moved, Runs
    <3>4. TypeOK'
      BY <1>0, <2>3, <2>4, <3>1, <3>2, <3>3 DEF Base, TypeOK, CronPlace
    <3>5. WorkerPlace' /\ WorkerOwnsRunning'
      BY <2>1, <2>4 DEF WorkerPlace, WorkerOwnsRunning
    <3>6. StaleRunsRun'
      BY <1>0, <2>3, <3>2 DEF Moved, StaleRunsRun, Base
    <3> QED
      BY <2>1, <2>2, <3>2, <3>4, <3>5, <3>6 DEF RowChange, Base
  <2>6. CASE ~Expired(r) /\ ~KeyTaken(RecoveryKey(r))
    <3>1. runs' = Append(ended, Child(r)) /\ Enqueue(Len(runs) + 1)
      BY <1>3, <2>6 DEF RecoverStale
    <3>2. runs[r] \in Row /\ [runs[r] EXCEPT !.status = "interrupted"] \in Row
      <4>1. runs[r] \in Row
        BY <1>0, <2>1
      <4> QED
        BY <4>1 DEF Row, RunStatus
    <3>3. ended = [runs EXCEPT ![r] = [runs[r] EXCEPT !.status = "interrupted"]]
      BY <2>6
    <3>4. /\ ended \in Seq(Row) /\ Len(ended) = Len(runs) /\ DOMAIN ended = Runs
          /\ ended[r] = [runs[r] EXCEPT !.status = "interrupted"]
          /\ \A s \in Runs \ {r} : ended[s] = runs[s]
      BY <1>0, <2>1, <3>2, <3>3, ReplacedEntry DEF Runs
    <3> HIDE DEF ended, status
    <3>5. Child(r) \in Row
      BY <2>1, ChildType DEF Base
    <3>6. runs' \in Seq(Row) /\ Replaced(r) /\ Runs' = 1 .. Len(runs) + 1
      <4>1. runs' \in Seq(Row) /\ DOMAIN runs' = 1 .. Len(runs) + 1
        BY <1>0, <3>1, <3>4, <3>5
      <4>2. /\ runs'[Len(runs) + 1] = Child(r)
            /\ \A s \in Runs : runs'[s] = ended[s]
        BY <1>0, <3>1, <3>4, <3>5
      <4> QED
        BY <2>1, <3>4, <4>1, <4>2 DEF Replaced, Runs
    <3>7. queue \in Seq(Runs' \cup {NoRun}) /\ pending \subseteq Runs' /\ Len(runs) + 1 \in Runs'
      BY <1>0, <3>6
    <3>8. queue' \in Seq(Runs' \cup {NoRun}) /\ pending' \subseteq Runs'
      BY <3>1, <3>7, EnqueueHandles
    <3>9. Runs \subseteq Runs'
      BY <1>0, <3>6
    <3>10. TypeOK'
      BY <1>0, <2>3, <2>4, <3>6, <3>8, <3>9 DEF Base, TypeOK, CronPlace
    <3>11. WorkerPlace' /\ WorkerOwnsRunning'
      BY <2>1, <2>4 DEF WorkerPlace, WorkerOwnsRunning
    <3>12. StaleRunsRun'
      BY <1>0, <2>3, <3>6 DEF Replaced, StaleRunsRun, Base
    <3> QED
      BY <2>1, <2>6, <3>6, <3>10, <3>11, <3>12 DEF RowChange, Base
  <2> QED
    BY <2>5, <2>6
<1> QED
  BY <1>1, <1>2, <1>3 DEF Recovery

(* Shutdown, crash and the clock.                                          *)
LEMMA OtherSteps ==
  ASSUME Base,
         \/ BeginShutdown \/ GraceExpires \/ Exit \/ Crash
         \/ HeartbeatAges \/ DeadlinePasses
  PROVE  RowChange /\ Base'
<1> USE DEF local, worker, clock, counts
<1>0. /\ queue \in Seq(Runs \cup {NoRun}) /\ pending \subseteq Runs /\ todo \subseteq Runs
      /\ cron \in CronPlace /\ boots \in Nat /\ faults \in Nat
      /\ proc \notin {"up", "stopping"} => pc = "idle"
      /\ Runs \subseteq Nat
  BY DEF Base, TypeOK, WorkerPlace, Runs
<1>1. CASE BeginShutdown
  <2>1. queue' \in Seq(Runs \cup {NoRun})
    BY <1>0, <1>1 DEF BeginShutdown
  <2> QED
    BY <1>0, <1>1, <2>1, QuietStep DEF BeginShutdown
<1>2. CASE GraceExpires
  <2>1. /\ pc' = "exited" /\ run' \in Runs \cup {NoRun}
        /\ step' \in 1 .. NumSteps + 1 /\ skip' \in 0 .. NumSteps
        /\ warned' \in BOOLEAN /\ outcome' \in {"none", "continue", "stop", "wait"}
    BY <1>2, BlankWorker DEF GraceExpires
  <2> QED
    BY <1>0, <1>2, <2>1, WorkerStep DEF GraceExpires
<1>3. CASE Down
  <2>1. /\ pc' = "idle" /\ run' \in Runs \cup {NoRun}
        /\ step' \in 1 .. NumSteps + 1 /\ skip' \in 0 .. NumSteps
        /\ warned' \in BOOLEAN /\ outcome' \in {"none", "continue", "stop", "wait"}
    BY <1>3, BlankWorker DEF Down
  <2>2. /\ queue' \in Seq(Runs \cup {NoRun}) /\ pending' \subseteq Runs /\ todo' \subseteq Runs
        /\ cron' \in CronPlace
    BY <1>3 DEF Down, CronPlace
  <2>3. TypeOK'
    BY <1>3, <2>1, <2>2 DEF Down, Base, TypeOK, Runs, CronPlace
  <2>4. WorkerPlace' /\ WorkerOwnsRunning' /\ StaleRunsRun'
    BY <1>3, <2>1 DEF Down, Base, WorkerPlace, WorkerOwnsRunning, StaleRunsRun
  <2> QED
    BY <1>3, <2>3, <2>4 DEF Down, Base, RowChange
<1>4. CASE HeartbeatAges
  <2>1. PICK r \in Runs \ stale : runs[r].status = "running" /\ stale' = stale \cup {r}
    BY <1>4 DEF HeartbeatAges
  <2>2. UNCHANGED <<runs, proc, local, worker, cron, overdue, counts>>
    BY <1>4 DEF HeartbeatAges
  <2>3. TypeOK'
    BY <2>1, <2>2 DEF Base, TypeOK, Runs, CronPlace
  <2>4. WorkerPlace' /\ WorkerOwnsRunning' /\ StaleRunsRun'
    BY <2>1, <2>2 DEF Base, WorkerPlace, WorkerOwnsRunning, StaleRunsRun, Runs
  <2> QED
    BY <2>2, <2>3, <2>4 DEF Base, RowChange
<1>5. CASE DeadlinePasses
  <2>1. PICK r \in Runs : overdue' = runs[r].deadline
    BY <1>5 DEF DeadlinePasses
  <2>2. UNCHANGED <<runs, proc, local, worker, cron, stale, counts>>
    BY <1>5 DEF DeadlinePasses
  <2>3. overdue' \in Nat
    <3>1. runs[r] \in Row
      BY DEF Base, TypeOK, Runs
    <3> QED
      BY <2>1, <3>1 DEF Row
  <2>4. TypeOK'
    BY <2>2, <2>3 DEF Base, TypeOK, Runs, CronPlace
  <2>5. WorkerPlace' /\ WorkerOwnsRunning' /\ StaleRunsRun'
    BY <2>2 DEF Base, WorkerPlace, WorkerOwnsRunning, StaleRunsRun, Runs
  <2> QED
    BY <2>2, <2>4, <2>5 DEF Base, RowChange
<1> QED
  BY <1>1, <1>2, <1>3, <1>4, <1>5 DEF Exit, Crash

LEMMA BaseStep ==
  ASSUME Base, [Next]_vars
  PROVE  RowChange /\ Base'
<1>1. CASE UNCHANGED vars
  BY <1>1 DEF vars, local, worker, clock, counts, Base, TypeOK, Runs, CronPlace, WorkerPlace,
              WorkerOwnsRunning, StaleRunsRun, RowChange
<1>2. CASE Next
  BY <1>2, SubmissionSteps, WorkerLoopSteps, ExecuteSteps, RecoverySteps, OtherSteps DEF Next
<1> QED
  BY <1>1, <1>2

-----------------------------------------------------------------------------
(* What a RowChange preserves *)

LEMMA TableStep ==
  ASSUME IInv, RowChange
  PROVE  (OneActivePerBusiness /\ UniqueKeys /\ ChildReplacesParent)'
<1> USE DEF ActiveStatus
<1>0. Runs = 1 .. Len(runs) /\ Len(runs) \in Nat /\ NoRun \notin Nat
  BY ConstantsOK DEF IInv, Base, TypeOK, Runs
<1>1. CASE UNCHANGED runs
  BY <1>1 DEF IInv, OneActivePerBusiness, UniqueKeys, ChildReplacesParent, Runs
<1>2. ASSUME NEW q \in Requests, ~KeyTaken(ClientKey(q.key)), ~Active(q.business),
             Added(RequestRow(q))
      PROVE  (OneActivePerBusiness /\ UniqueKeys /\ ChildReplacesParent)'
  <2> DEFINE n == Len(runs) + 1
  <2>1. /\ Runs' = Runs \cup {n} /\ n \notin Runs
        /\ \A s \in Runs : runs'[s] = runs[s]
        /\ runs'[n].key = ClientKey(q.key) /\ runs'[n].business = q.business
        /\ runs'[n].parent = NoRun
    BY <1>0, <1>2 DEF Added, RequestRow, NewRow, Runs
  <2> HIDE DEF n
  <2>2. OneActivePerBusiness'
    BY <1>2, <2>1 DEF IInv, OneActivePerBusiness, Active
  <2>3. UniqueKeys'
    BY <1>2, <2>1 DEF IInv, UniqueKeys, KeyTaken
  <2>4. ChildReplacesParent'
    BY <2>1 DEF IInv, ChildReplacesParent, RecoveryKey
  <2> QED
    BY <2>2, <2>3, <2>4
<1>3. ASSUME NEW r \in Runs, NEW status, Moved(r, status), runs[r].status \in ActiveStatus
      PROVE  (OneActivePerBusiness /\ UniqueKeys /\ ChildReplacesParent)'
  <2>1. /\ Runs' = Runs
        /\ \A s \in Runs : /\ runs'[s].business = runs[s].business
                           /\ runs'[s].key = runs[s].key
                           /\ runs'[s].parent = runs[s].parent
                           /\ runs'[s].deadline = runs[s].deadline
                           /\ s = r \/ runs'[s].status = runs[s].status
    BY <1>3 DEF Moved, Runs
  <2>2. OneActivePerBusiness'
    BY <1>3, <2>1 DEF IInv, OneActivePerBusiness
  <2>3. UniqueKeys'
    BY <2>1 DEF IInv, UniqueKeys
  <2>4. ChildReplacesParent'
    BY <1>3, <2>1 DEF IInv, ChildReplacesParent, RecoveryKey
  <2> QED
    BY <2>2, <2>3, <2>4
<1>4. ASSUME NEW r \in Runs, runs[r].status = "running", ~KeyTaken(RecoveryKey(r)), Replaced(r)
      PROVE  (OneActivePerBusiness /\ UniqueKeys /\ ChildReplacesParent)'
  <2> DEFINE n == Len(runs) + 1
  <2>0. runs[r] \in Row
    BY <1>0 DEF IInv, Base, TypeOK
  <2>1. /\ Runs' = Runs \cup {n} /\ n \notin Runs /\ r < n /\ n \in Nat
        /\ \A s \in Runs \ {r} : runs'[s] = runs[s]
    BY <1>0, <1>4 DEF Replaced, Runs
  <2>2. /\ runs'[n].key = RecoveryKey(r) /\ runs'[n].business = runs[r].business
        /\ runs'[n].parent = r /\ runs'[n].deadline = runs[r].deadline
    BY <1>4 DEF Replaced, Child, NewRow
  <2>3. /\ runs'[r].status = "interrupted" /\ runs'[r].business = runs[r].business
        /\ runs'[r].key = runs[r].key /\ runs'[r].parent = runs[r].parent
        /\ runs'[r].deadline = runs[r].deadline
    BY <1>4, <2>0 DEF Replaced, Row
  <2> HIDE DEF n
  <2>4. OneActivePerBusiness'
    BY <1>4, <2>1, <2>2, <2>3 DEF IInv, OneActivePerBusiness
  <2>5. UniqueKeys'
    BY <1>4, <2>1, <2>2, <2>3 DEF IInv, UniqueKeys, KeyTaken
  <2>6. ChildReplacesParent'
    BY SMTT(30), <1>0, <1>4, <2>1, <2>2, <2>3 DEF IInv, ChildReplacesParent, RecoveryKey
  <2> QED
    BY <2>4, <2>5, <2>6
<1> QED
  BY <1>1, <1>2, <1>3, <1>4 DEF RowChange

-----------------------------------------------------------------------------
(* The theorems *)

LEMMA InitInvariant == Init => IInv
<1> SUFFICES ASSUME Init PROVE IInv
  OBVIOUS
<1>1. Runs = {} /\ NumSteps \in Nat \ {0}
  BY ConstantsOK DEF Init, Runs
<1>2. TypeOK
  <2>1. runs \in Seq(Row) /\ queue \in Seq(Runs \cup {NoRun})
    BY DEF Init
  <2>2. step \in 1 .. NumSteps + 1 /\ skip \in 0 .. NumSteps
    BY <1>1 DEF Init
  <2>3. cron \in CronPlace
    BY DEF Init, CronPlace
  <2> QED
    BY <2>1, <2>2, <2>3 DEF Init, TypeOK
<1> QED
  BY <1>1, <1>2 DEF Init, IInv, Base, WorkerPlace, StaleRunsRun, WorkerOwnsRunning,
                    OneActivePerBusiness, UniqueKeys, ChildReplacesParent

LEMMA NextInvariant == IInv /\ [Next]_vars => IInv' /\ RowChange
  BY BaseStep, TableStep DEF IInv

LEMMA Invariance == Spec => []IInv
<1>1. IInv /\ [Next]_vars => IInv'
  BY NextInvariant
<1> QED
  BY <1>1, InitInvariant, PTL DEF Spec

(* Every variable keeps its type, and no queue entry, pending identifier,  *)
(* recovery work item or worker variable ever names a row that is not in   *)
(* the table.                                                              *)
THEOREM TypeCorrect == Spec => []TypeOK
<1>1. IInv => TypeOK
  BY DEF IInv, Base
<1> QED
  BY <1>1, Invariance, PTL

(* However many submissions, ticks, crashes and recoveries interleave, a   *)
(* business key never has two active runs.                                 *)
THEOREM OneActive == Spec => []OneActivePerBusiness
<1>1. IInv => OneActivePerBusiness
  BY DEF IInv
<1> QED
  BY <1>1, Invariance, PTL

(* An idempotency key is bound to one row for ever, a run has at most one  *)
(* recovery child.                                                         *)
THEOREM KeysAreUnique == Spec => []UniqueKeys
<1>1. IInv => UniqueKeys
  BY DEF IInv
<1> QED
  BY <1>1, Invariance, PTL

(* A recovery child repeats its parent's request and its parent is over.   *)
THEOREM ChildrenReplace == Spec => []ChildReplacesParent
<1>1. IInv => ChildReplacesParent
  BY DEF IInv
<1> QED
  BY <1>1, Invariance, PTL

(* Nobody changes the status of the row the worker is executing, so none   *)
(* of execute's transition checks can fail.                                *)
THEOREM WorkerOwnsItsRow == Spec => []WorkerOwnsRunning
<1>1. IInv => WorkerOwnsRunning
  BY DEF IInv, Base
<1> QED
  BY <1>1, Invariance, PTL

(* Finished rows are never written again.                                  *)
THEOREM FinalRows == Spec => FinishedRunsAreFinal
<1>1. IInv /\ [Next]_vars =>
        [\A r \in Runs : runs[r].status \in TerminalStatus => runs'[r] = runs[r]]_runs
  <2> SUFFICES ASSUME IInv, RowChange,
                      NEW r \in Runs, runs[r].status \in TerminalStatus
               PROVE  runs'[r] = runs[r]
    BY NextInvariant
  <2>1. runs[r].status \notin ActiveStatus
    BY DEF TerminalStatus
  <2> QED
    BY <2>1 DEF RowChange, Moved, Added, Replaced, ActiveStatus
<1> QED
  BY <1>1, Invariance, PTL DEF Spec, FinishedRunsAreFinal

-----------------------------------------------------------------------------
(* TaskExecution implements TaskLifecycle *)

(* A new row is appended to the view too.                                  *)
LEMMA ViewAppend ==
  ASSUME NEW n \in Nat, NEW V, NEW W, NEW x,
         V = [i \in 1 .. n |-> V[i]], W = [i \in 1 .. n + 1 |-> W[i]],
         \A i \in 1 .. n : W[i] = V[i], W[n + 1] = x
  PROVE  W = Append(V, x)
<1>1. Len(V) = n
  OBVIOUS
<1>2. Append(V, x) = [i \in 1 .. n + 1 |-> IF i = n + 1 THEN x ELSE V[i]]
  BY <1>1
<1>3. \A i \in 1 .. n + 1 : W[i] = IF i = n + 1 THEN x ELSE V[i]
  <2> TAKE i \in 1 .. n + 1
  <2>1. i = n + 1 \/ i \in 1 .. n
    OBVIOUS
  <2> QED
    BY <2>1
<1>4. [i \in 1 .. n + 1 |-> W[i]] = [i \in 1 .. n + 1 |-> IF i = n + 1 THEN x ELSE V[i]]
  BY <1>3
<1> QED
  BY <1>2, <1>4

LEMMA StepRefines ==
  ASSUME IInv, RowChange
  PROVE  [Lifecycle!Next]_View
<1> USE DEF ActiveStatus
<1>0. Runs = 1 .. Len(runs) /\ Len(runs) \in Nat /\ DOMAIN View = Runs
  BY DEF IInv, Base, TypeOK, Runs, View
<1>1. CASE UNCHANGED runs
  BY <1>1 DEF View, Runs
<1>2. ASSUME NEW q \in Requests, ~Active(q.business), Added(RequestRow(q))
      PROVE  Lifecycle!Next
  <2> DEFINE n == Len(runs)
             x == [business |-> q.business, status |-> "queued", parent |-> NoRun]
  <2>1. /\ Runs' = 1 .. n + 1
        /\ \A s \in 1 .. n : View'[s] = View[s]
        /\ View'[n + 1] = x
    BY <1>0, <1>2 DEF View, Added, RequestRow, NewRow, Runs
  <2>2. View = [i \in 1 .. n |-> View[i]] /\ View' = [i \in 1 .. n + 1 |-> View'[i]]
    BY <1>0, <2>1 DEF View
  <2>3. View' = Append(View, x)
    <3> HIDE DEF n, x
    <3>1. n \in Nat
      BY <1>0 DEF n
    <3> QED
      BY <2>1, <2>2, <3>1, ViewAppend
  <2>4. ~Lifecycle!Busy(q.business)
    BY <1>0, <1>2 DEF Lifecycle!Busy, Active, View
  <2>5. Lifecycle!Submit(q.business)
    BY <2>3, <2>4 DEF Lifecycle!Submit, Lifecycle!Queued
  <2> QED
    BY <2>5 DEF Lifecycle!Next, Requests
<1>3. ASSUME NEW r \in Runs, NEW status, Moved(r, status),
             status \in Lifecycle!AllowedTransition(runs[r].status)
      PROVE  Lifecycle!Next
  <2>1. View' = [View EXCEPT ![r].status = status]
    BY <1>0, <1>3 DEF View, Moved, Runs
  <2>2. Lifecycle!Move(r)
    BY <1>0, <1>3, <2>1 DEF Lifecycle!Move, View
  <2> QED
    BY <1>0, <2>2 DEF Lifecycle!Next
<1>4. ASSUME NEW r \in Runs, Moved(r, runs[r].status)
      PROVE  UNCHANGED View
  BY <1>0, <1>4 DEF View, Moved, Runs
<1>5. ASSUME NEW r \in Runs, runs[r].status = "running", Replaced(r)
      PROVE  Lifecycle!Next
  <2> DEFINE n == Len(runs)
             V == [View EXCEPT ![r].status = "interrupted"]
             x == [business |-> View[r].business, status |-> "queued", parent |-> r]
  <2>1. runs[r] \in Row
    BY <1>0 DEF IInv, Base, TypeOK
  <2>2. runs'[r].status = "interrupted" /\ runs'[r].business = runs[r].business
        /\ runs'[r].parent = runs[r].parent
    BY <1>5, <2>1 DEF Replaced, Row
  <2>3. /\ Runs' = 1 .. n + 1
        /\ \A s \in 1 .. n : View'[s] = V[s]
        /\ View'[n + 1] = x
    <3>1. Runs' = 1 .. n + 1 /\ 1 .. n \subseteq Runs' /\ n + 1 \in Runs'
      BY <1>0, <1>5 DEF Replaced, Runs
    <3>2. \A s \in Runs : View'[s] = V[s]
      BY <1>0, <1>5, <2>2, <3>1 DEF View, Replaced
    <3>3. View'[n + 1] = x
      BY <1>0, <1>5, <3>1 DEF View, Replaced, Child, NewRow
    <3> QED
      BY <1>0, <3>1, <3>2, <3>3
  <2>4. V = [i \in 1 .. n |-> V[i]] /\ View' = [i \in 1 .. n + 1 |-> View'[i]]
    BY <1>0, <2>3 DEF View
  <2>5. View' = Append(V, x)
    <3> HIDE DEF n, x, V
    <3>1. n \in Nat
      BY <1>0 DEF n
    <3> QED
      BY <2>3, <2>4, <3>1, ViewAppend
  <2>6. View[r].status = "running"
    BY <1>0, <1>5 DEF View
  <2>7. Lifecycle!Replace(r)
    BY <2>5, <2>6 DEF Lifecycle!Replace, Lifecycle!Queued
  <2> QED
    BY <1>0, <2>7 DEF Lifecycle!Next
<1>6. \A status \in TerminalStatus : status \in Lifecycle!AllowedTransition("running")
  BY DEF TerminalStatus, RunStatus, Lifecycle!AllowedTransition, Lifecycle!Ending
<1>7. {"running", "timed_out"} \subseteq Lifecycle!AllowedTransition("queued")
  BY DEF Lifecycle!AllowedTransition
<1> QED
  BY <1>1, <1>2, <1>3, <1>4, <1>5, <1>6, <1>7 DEF RowChange

(* The task table behaves as TaskLifecycle says: one row at a time, along  *)
(* the documented transitions, one active row per business key.            *)
THEOREM ImplementsLifecycle == Spec => KeepsLifecycle
<1>1. Init => Lifecycle!Init
  BY DEF Init, Lifecycle!Init, View, Runs
<1>2. IInv /\ [Next]_vars => [Lifecycle!Next]_View
  BY NextInvariant, StepRefines
<1> QED
  BY <1>1, <1>2, Invariance, PTL DEF Spec, KeepsLifecycle, Lifecycle!Spec

-----------------------------------------------------------------------------
(* Delivery *)

(* What counts as pending, or is about to: the scheduler thread has put it *)
(* on the queue and not yet recorded it.                                   *)
Marked == pending \cup (IF cron.at = "mark" THEN {cron.run} ELSE {})

Delivered(r) == run = r \/ \E i \in DOMAIN queue : queue[i] = r

(* No transaction has raised yet.                                          *)
Faultless == faults = 0

AllDelivered ==
  Faultless /\ proc \in {"recovering", "up"} =>
    \A r \in Marked : runs[r].status = "queued" => Delivered(r)

(* A worker that waits for the queue holds no run, and a process that is   *)
(* down has neither a queue nor a scheduler thread.                        *)
WaitingHoldsNothing ==
  /\ pc \in {"idle", "release"} => run = NoRun
  /\ proc = "down" => pending = {} /\ cron.at # "mark"

Delivery == AllDelivered /\ WaitingHoldsNothing

-----------------------------------------------------------------------------
(* Inheritance *)

Untouched(r) == \A i \in Steps : runs[r].steps[i] = "absent"

(* The steps the worker has behind it: inherited, or executed by itself.   *)
Behind == {i \in Steps : i <= skip \/ i < step \/ (pc = "decide" /\ i = step)}

QueuedIsUntouched == \A r \in Runs : runs[r].status = "queued" => Untouched(r)

(* The worker's row and variables record how far the pipeline has come.    *)
WorkerProgress ==
  /\ pc \in {"idle", "claim", "restore", "release"} => step = 1 /\ skip = 0
  /\ pc = "restore" => Untouched(run)
  /\ pc \in {"boundary", "step", "decide"} =>
       /\ \A i \in Steps : i > step \/ (i = step /\ pc = "boundary") => runs[run].steps[i] = "absent"
       /\ pc \in {"step", "decide"} => step > skip
       /\ \A i \in Behind : Completed(run, i)
       /\ warned <=> \E i \in Behind : InheritsWarning(run, i)

(* What Lineage computes, without the recursion: the runs of a lineage are *)
(* older than its last one, and over.                                      *)
LineageOK ==
  /\ Lineage = [r \in Runs |->
       {r} \cup (IF runs[r].parent = NoRun THEN {} ELSE Lineage[runs[r].parent])]
  /\ \A r \in Runs : /\ r \in Lineage[r] /\ Lineage[r] \subseteq 1 .. r
                     /\ \A a \in Lineage[r] \ {r} : runs[a].status = "interrupted"

Progress == QueuedIsUntouched /\ WorkerProgress /\ StepsNeedTheirPrefix /\ SuccessIsComplete

-----------------------------------------------------------------------------
(* Delivery is kept *)

(* A redelivery takes nothing off the queue and puts every row on it that  *)
(* it marks: the offered rows are enumerated without repetition.           *)
LEMMA RedeliveryDelivers ==
  ASSUME TypeOK, Redelivery
  PROVE  /\ \A r \in pending' \ pending : \E i \in DOMAIN queue' : queue'[i] = r
         /\ \A r : (\E i \in DOMAIN queue : queue[i] = r) => \E i \in DOMAIN queue' : queue'[i] = r
<1>1. Offered \subseteq Runs /\ Runs = 1 .. Len(runs) /\ Len(runs) \in Nat
      /\ queue \in Seq(Runs \cup {NoRun})
  BY DEF Offered, Unoffered, TypeOK, Runs
<1> DEFINE n == Cardinality(Offered)
<1>2. IsFiniteSet(Offered) /\ n \in Nat
  <2>1. IsFiniteSet(1 .. Len(runs))
    BY <1>1, FS_Interval
  <2>2. IsFiniteSet(Offered)
    BY <1>1, <2>1, FS_Subset
  <2> QED
    BY <2>2, FS_CardinalityType
<1>3. PICK s \in [1 .. n -> Offered] : /\ queue' = queue \o s
                                       /\ \A i, j \in DOMAIN s : i < j => s[i] < s[j]
  BY DEF Redelivery
<1>4. pending' = pending \cup Offered
  BY DEF Redelivery
<1> HIDE DEF n
<1>9. n \in Nat /\ Offered \subseteq Nat /\ s \in [1 .. n -> Offered]
  BY <1>1, <1>2 DEF n
<1>5. \A i, j \in 1 .. n : s[i] = s[j] => i = j
  <2> SUFFICES ASSUME NEW i \in 1 .. n, NEW j \in 1 .. n, s[i] = s[j], i # j PROVE FALSE
    OBVIOUS
  <2>1. s[i] \in Nat /\ s[j] \in Nat /\ i \in Nat /\ j \in Nat
    <3>1. s[i] \in Offered /\ s[j] \in Offered
      BY <1>9, Zenon
    <3>2. i \in Nat /\ j \in Nat
      BY <1>9
    <3> QED
      BY <1>9, <3>1, <3>2, Zenon
  <2>2. i < j \/ j < i
    BY <2>1
  <2>3. s[i] < s[j] \/ s[j] < s[i]
    BY <1>3, <2>2
  <2> QED
    BY <2>1, <2>3
<1>6. \A r \in Offered : \E i \in 1 .. n : s[i] = r
  <2>1. s \in Injection(1 .. n, Offered)
    BY <1>5 DEF Injection, IsInjective
  <2>2. Cardinality(1 .. n) = n
    BY <1>2, FS_Interval
  <2>3. s \in Surjection(1 .. n, Offered)
    BY <1>2, <2>1, <2>2, FS_Injection DEF n
  <2> QED
    BY <2>3 DEF Surjection
<1>7. s \in Seq(Runs \cup {NoRun}) /\ Len(s) = n
  <2>1. s \in [1 .. n -> Runs \cup {NoRun}]
    BY <1>1, <1>9, Zenon
  <2> QED
    BY <1>9, <2>1
<1>8. /\ \A i \in DOMAIN queue : i \in DOMAIN queue' /\ queue'[i] = queue[i]
      /\ \A i \in 1 .. n : Len(queue) + i \in DOMAIN queue' /\ queue'[Len(queue) + i] = s[i]
  BY <1>1, <1>2, <1>3, <1>7
<1> QED
  BY <1>4, <1>6, <1>8

LEMMA EnqueueDelivers ==
  ASSUME queue \in Seq(Nat \cup {NoRun}), NEW r \in Nat, Enqueue(r)
  PROVE  /\ pending' \subseteq pending \cup {r}
         /\ r \in pending' \ pending => \E i \in DOMAIN queue' : queue'[i] = r
         /\ \A s : (\E i \in DOMAIN queue : queue[i] = s) => \E i \in DOMAIN queue' : queue'[i] = s
<1>1. CASE UNCHANGED <<queue, pending>>
  BY <1>1
<1>2. CASE queue' = Append(queue, r) /\ pending' = pending \cup {r}
  <2>1. /\ \A i \in DOMAIN queue : i \in DOMAIN queue' /\ queue'[i] = queue[i]
        /\ Len(queue) + 1 \in DOMAIN queue' /\ queue'[Len(queue) + 1] = r
    BY <1>2
  <2> QED
    BY <1>2, <2>1
<1> QED
  BY <1>1, <1>2 DEF Enqueue

(* A step that marks nothing new, empties nothing from the queue and       *)
(* queues no row keeps the delivery; the worker may let go of its run once *)
(* that is not queued any more.                                            *)
LEMMA DeliveryKept ==
  ASSUME TypeOK, AllDelivered, Faultless' => Faultless,
         proc' \in {"recovering", "up"} => proc \in {"recovering", "up"},
         \A r \in Marked' : \/ r \in Marked /\ r \in Runs
                            \/ \E i \in DOMAIN queue' : queue'[i] = r,
         \A r \in Runs : runs'[r].status = "queued" => runs[r].status = "queued",
         \A r : (\E i \in DOMAIN queue : queue[i] = r) => \E i \in DOMAIN queue' : queue'[i] = r,
         run' = run \/ (run \in Runs => runs'[run].status # "queued")
  PROVE  AllDelivered'
BY DEF AllDelivered, Delivered

(* What is marked or queued names a row.                                   *)
LEMMA HandlesAreRows ==
  ASSUME TypeOK
  PROVE  /\ Runs = 1 .. Len(runs) /\ Len(runs) \in Nat /\ Marked \subseteq Runs
         /\ queue \in Seq(Nat \cup {NoRun}) /\ faults \in Nat /\ NoRun \notin Nat
<1>1. Runs = 1 .. Len(runs) /\ Len(runs) \in Nat /\ faults \in Nat /\ NoRun \notin Nat
  BY ConstantsOK DEF TypeOK, Runs
<1>2. cron.at = "mark" => cron.run \in Runs
  BY DEF TypeOK, CronPlace
<1>3. Marked \subseteq Runs
  BY <1>2 DEF TypeOK, Marked
<1>4. queue \in Seq(Nat \cup {NoRun})
  <2>1. Runs \cup {NoRun} \subseteq Nat \cup {NoRun} /\ queue \in Seq(Runs \cup {NoRun})
    BY <1>1 DEF TypeOK
  <2> HIDE DEF Runs
  <2> QED
    BY <2>1
<1> QED
  BY <1>1, <1>3, <1>4

(* Submission, from the API and from the scheduler thread.                 *)
LEMMA SubmissionDelivers ==
  ASSUME Base, Delivery, (\E q \in ApiRequests : Submit(q)) \/ Cron, RowChange, Base'
  PROVE  Delivery'
<1> USE DEF worker, clock, counts, local, Delivery
<1>0. /\ Runs = 1 .. Len(runs) /\ Len(runs) \in Nat /\ Marked \subseteq Runs
      /\ queue \in Seq(Nat \cup {NoRun})
  BY HandlesAreRows DEF Base
<1>1. ASSUME NEW q \in ApiRequests, Submit(q)  PROVE Delivery'
  <2>1. runs' = Append(runs, RequestRow(q)) /\ Enqueue(Len(runs) + 1)
        /\ UNCHANGED <<proc, pc, run, cron, faults>> /\ proc = "up"
    BY <1>1 DEF Submit
  <2>2. \A r \in Runs : runs'[r] = runs[r]
    BY <1>0, <2>1
  <2>0. Len(runs) + 1 \in Nat
    BY <1>0
  <2>3. /\ \A s : (\E i \in DOMAIN queue : queue[i] = s) => \E i \in DOMAIN queue' : queue'[i] = s
        /\ pending' \subseteq pending \cup {Len(runs) + 1}
        /\ Len(runs) + 1 \in pending' \ pending =>
             \E i \in DOMAIN queue' : queue'[i] = Len(runs) + 1
    BY <1>0, <2>0, <2>1, EnqueueDelivers
  <2>4. \A r \in Marked' : (r \in Marked /\ r \in Runs) \/ \E i \in DOMAIN queue' : queue'[i] = r
    BY <1>0, <2>1, <2>3 DEF Marked
  <2>5. AllDelivered'
    BY <1>0, <2>1, <2>2, <2>3, <2>4, DeliveryKept DEF Base, Faultless
  <2> QED
    BY <2>1, <2>5 DEF WaitingHoldsNothing
<1>2. ASSUME NEW q \in CronRequests, CronLookup(q)  PROVE Delivery'
  BY <1>2 DEF CronLookup, AllDelivered, WaitingHoldsNothing, Marked, Delivered, Faultless
<1>3. CASE CronInsert
  <2>1. \A r \in Runs : runs'[r] = runs[r]
    BY <1>0, <1>3 DEF CronInsert
  <2>2. Marked' = Marked
    BY <1>3 DEF CronInsert, Marked
  <2>3. AllDelivered'
    BY <1>0, <1>3, <2>1, <2>2 DEF CronInsert, AllDelivered, Delivered, Faultless
  <2> QED
    BY <1>3, <2>3 DEF CronInsert, WaitingHoldsNothing
<1>4. CASE CronPut
  <2>1. \A s : (\E i \in DOMAIN queue : queue[i] = s) => \E i \in DOMAIN queue' : queue'[i] = s
    BY <1>0, <1>4 DEF CronPut
  <2>2. \A r \in Marked' : r \in Marked \/ \E i \in DOMAIN queue' : queue'[i] = r
    BY <1>0, <1>4 DEF CronPut, Marked
  <2>3. UNCHANGED <<runs, proc, pc, run, pending, faults>>
    BY <1>4 DEF CronPut
  <2>4. AllDelivered'
    BY <2>1, <2>2, <2>3 DEF AllDelivered, Delivered, Faultless
  <2>5. cron'.at = "mark" => proc = "up"
    BY <1>4 DEF CronPut
  <2> QED
    BY <2>3, <2>4, <2>5 DEF WaitingHoldsNothing
<1>5. CASE CronMark
  <2>1. Marked' = Marked
    BY <1>5 DEF CronMark, Marked
  <2>2. UNCHANGED <<runs, proc, pc, run, queue, faults>> /\ proc # "down"
    BY <1>5 DEF CronMark, WaitingHoldsNothing
  <2> QED
    BY <1>5, <2>1, <2>2 DEF CronMark, AllDelivered, Delivered, Faultless, WaitingHoldsNothing
<1> QED
  BY <1>1, <1>2, <1>3, <1>4, <1>5 DEF Cron

(* The worker loop, up to its call of execute and after it.                *)
LEMMA WorkerLoopDelivers ==
  ASSUME Base, Delivery, Redeliver \/ Get \/ Release \/ Heartbeat, Base'
  PROVE  Delivery'
<1> USE DEF worker, clock, counts, local, Delivery
<1>0. /\ Runs = 1 .. Len(runs) /\ Len(runs) \in Nat /\ Marked \subseteq Runs /\ NoRun \notin Nat
      /\ queue \in Seq(Nat \cup {NoRun})
      /\ proc = "down" => pc = "idle"
  BY HandlesAreRows DEF Base, WorkerPlace
<1>1. ASSUME Redelivery, UNCHANGED <<runs, proc, run, cron, faults>>  PROVE AllDelivered'
  <2>1. \A r \in Marked' : r \in Marked \/ \E i \in DOMAIN queue' : queue'[i] = r
    BY <1>1, RedeliveryDelivers DEF Marked, Base
  <2>2. \A r : (\E i \in DOMAIN queue : queue[i] = r) => \E i \in DOMAIN queue' : queue'[i] = r
    BY <1>1, RedeliveryDelivers DEF Base
  <2> QED
    BY <1>1, <2>1, <2>2 DEF AllDelivered, Delivered, Faultless
<1>2. CASE Redeliver
  BY <1>1, <1>2 DEF Redeliver, WaitingHoldsNothing
<1>3. CASE Get
  <2>1. pc' \in {"claim", "exited"} /\ UNCHANGED <<runs, proc, cron, faults>>
        /\ run = NoRun /\ proc # "down"
    BY <1>3 DEF Get, WaitingHoldsNothing
  <2>2. AllDelivered'
    <3> SUFFICES ASSUME Faultless, proc = "up", NEW r \in Marked', runs[r].status = "queued"
                 PROVE  Delivered(r)'
      BY <1>3, <2>1 DEF Get, AllDelivered, Faultless
    <3>1. r \in Marked /\ r \in Nat
      BY <1>0, <1>3, <2>1 DEF Get, Marked
    <3>2. PICK i \in DOMAIN queue : queue[i] = r
      BY <1>0, <2>1, <3>1 DEF AllDelivered, Delivered
    <3>3. CASE i = 1
      BY <1>0, <1>3, <3>1, <3>2, <3>3 DEF Get, Delivered
    <3>4. CASE i # 1
      <4>1. queue' = Tail(queue)
        BY <1>3 DEF Get
      <4>2. i - 1 \in DOMAIN queue' /\ queue'[i - 1] = r
        BY <1>0, <3>2, <3>4, <4>1
      <4> QED
        BY <4>2 DEF Delivered
    <3> QED
      BY <3>3, <3>4
  <2> QED
    BY <2>1, <2>2 DEF WaitingHoldsNothing
<1>4. CASE Release
  <2>1. UNCHANGED <<runs, proc, run, cron, faults>> /\ run' = NoRun /\ proc # "down"
    BY <1>0, <1>4 DEF Release, WaitingHoldsNothing
  <2>2. AllDelivered'
    BY <1>1, <1>4, <2>1 DEF Release, AllDelivered, Marked, Delivered, Faultless
  <2> QED
    BY <2>1, <2>2 DEF WaitingHoldsNothing
<1>5. CASE Heartbeat
  BY <1>5 DEF Heartbeat, AllDelivered, Marked, Delivered, Faultless, WaitingHoldsNothing
<1> QED
  BY <1>2, <1>3, <1>4, <1>5

(* No step queues a row that exists.                                       *)
LEMMA NoneIsRequeued ==
  ASSUME TypeOK, RowChange
  PROVE  \A r \in Runs : runs'[r].status = "queued" => runs[r].status = "queued"
<1>1. "queued" \notin TerminalStatus \cup {"running"}
  BY DEF TerminalStatus, ActiveStatus
<1>2. ASSUME NEW r \in Runs, NEW status, status # "queued", Moved(r, status)
      PROVE  \A s \in Runs : runs'[s].status = "queued" => runs[s].status = "queued"
  BY <1>2 DEF Moved
<1>3. ASSUME NEW r \in Runs, Replaced(r)
      PROVE  \A s \in Runs : runs'[s].status = "queued" => runs[s].status = "queued"
  <2>1. runs[r] \in Row
    BY DEF TypeOK, Runs
  <2>2. runs'[r].status = "interrupted"
    BY <1>3, <2>1 DEF Replaced, Row
  <2> QED
    BY <1>3, <2>2 DEF Replaced
<1> QED
  BY <1>1, <1>2, <1>3 DEF RowChange, Added

(* A step that only moves the worker, and blanks it when its run is over.  *)
LEMMA WorkerDelivers ==
  ASSUME TypeOK, Delivery, RowChange, UNCHANGED <<proc, local, cron>>, Faultless' => Faultless,
         \/ run' = run /\ pc' \notin {"idle", "release"}
         \/ run' = NoRun /\ (Faultless' /\ run \in Runs => runs'[run].status # "queued")
  PROVE  Delivery'
<1>1. \A r \in Runs : runs'[r].status = "queued" => runs[r].status = "queued"
  BY NoneIsRequeued
<1>2. Marked' = Marked /\ UNCHANGED <<proc, queue, pending>> /\ cron' = cron
  BY DEF Marked, local
<1>3. Marked \subseteq Runs
  BY HandlesAreRows
<1>4. AllDelivered'
  BY <1>1, <1>2, <1>3 DEF AllDelivered, Delivered, Delivery
<1>5. WaitingHoldsNothing'
  BY <1>2 DEF WaitingHoldsNothing, Delivery
<1> QED
  BY <1>4, <1>5 DEF Delivery

LEMMA ExecuteDelivers ==
  ASSUME Base, Delivery, Execute \/ RestoreFails \/ BoundaryFails, RowChange
  PROVE  Delivery'
<1>1. /\ \A r \in Runs : runs'[r].status = "queued" => runs[r].status = "queued"
      /\ faults \in Nat /\ TypeOK
      /\ pc \in {"restore", "boundary", "step", "decide"} =>
           run \in Runs /\ runs[run].status = "running"
      /\ pc = "claim" => run \in Runs
  BY NoneIsRequeued, HandlesAreRows DEF Base, WorkerOwnsRunning, WorkerPlace
<1>2. ASSUME NEW place, Goto(place), place \notin {"idle", "release"}  PROVE Delivery'
  BY <1>1, <1>2, WorkerDelivers DEF Goto, counts, Faultless
<1>3. ASSUME NEW place, Blank(place), UNCHANGED <<proc, local, cron>>, Faultless' => Faultless,
             Faultless' => pc \in {"restore", "boundary", "step", "decide"}
      PROVE  Delivery'
  BY <1>1, <1>3, WorkerDelivers DEF Blank
<1>4. CASE Claim \/ RestoreCheckpoints \/ StartStep \/ FinishStep
  BY <1>2, <1>4 DEF Claim, RestoreCheckpoints, StartStep, FinishStep
<1>5. ASSUME NEW status, Finish(status), pc \in {"boundary", "decide"}  PROVE Delivery'
  BY <1>3, <1>5 DEF Finish, counts, Faultless
<1>6. CASE Interrupt \/ TimeOutBeforeStep \/ TimeOutAfterStep \/ WaitForAction \/ Succeed
  BY <1>5, <1>6 DEF Interrupt, TimeOutBeforeStep, TimeOutAfterStep, WaitForAction, Succeed, InLoop
<1>7. CASE FailStepAndRun \/ StopPipeline
  BY <1>3, <1>7 DEF FailStepAndRun, StopPipeline, counts, Faultless
<1>8. CASE ClaimExpired
  <2>1. run \in Runs /\ runs'[run].status = "timed_out" /\ Blank("release")
        /\ UNCHANGED <<proc, local, cron, faults>>
    <3>1. run \in Runs /\ runs' = [runs EXCEPT ![run].status = "timed_out"] /\ runs \in Seq(Row)
          /\ Blank("release") /\ UNCHANGED <<proc, local, cron, faults>>
      BY <1>1, <1>8 DEF ClaimExpired, Finish, End, TypeOK, counts
    <3>2. runs[run] \in Row
      BY <3>1 DEF Runs
    <3> QED
      BY <3>1, <3>2 DEF Row, Runs
  <2> QED
    BY <1>1, <2>1, WorkerDelivers DEF Blank, Faultless
<1>9. CASE ClaimRefused
  <2>1. runs'[run].status # "queued" /\ Blank("release") /\ UNCHANGED <<proc, local, cron, faults>>
    BY <1>9 DEF ClaimRefused, counts
  <2> QED
    BY <1>1, <2>1, WorkerDelivers DEF Blank, Faultless
<1>10. CASE SkipStep \/ NextStep
  BY <1>1, <1>10, WorkerDelivers DEF SkipStep, NextStep, InLoop, counts, Faultless
<1>11. CASE RestoreFails \/ BoundaryFails
  <2>1. faults' = faults + 1 /\ faults' # 0
    BY <1>1, <1>11 DEF RestoreFails, BoundaryFails
  <2> QED
    BY <1>3, <1>11, <2>1 DEF RestoreFails, BoundaryFails, Faultless, counts
<1> QED
  BY <1>4, <1>6, <1>7, <1>8, <1>9, <1>10, <1>11 DEF Execute

LEMMA RecoveryDelivers ==
  ASSUME Base, Delivery, Recovery, RowChange
  PROVE  Delivery'
<1> USE DEF local, worker, counts, Delivery
<1>0. /\ Runs = 1 .. Len(runs) /\ Len(runs) \in Nat /\ Marked \subseteq Runs
      /\ queue \in Seq(Nat \cup {NoRun}) /\ TypeOK
      /\ \A r \in Runs : runs'[r].status = "queued" => runs[r].status = "queued"
  BY HandlesAreRows, NoneIsRequeued DEF Base
<1>1. CASE Boot
  <2>1. UNCHANGED <<runs, pc, run, cron, faults>> /\ proc' = "recovering" /\ proc = "down"
        /\ Redelivery
    BY <1>1 DEF Boot
  <2>2. \A r \in Marked' : \E i \in DOMAIN queue' : queue'[i] = r
    BY <1>0, <2>1, RedeliveryDelivers DEF Marked, WaitingHoldsNothing
  <2> QED
    BY <2>1, <2>2 DEF AllDelivered, WaitingHoldsNothing, Delivered
<1>2. CASE Serve
  BY <1>2 DEF Serve, AllDelivered, WaitingHoldsNothing, Delivered, Marked, Faultless
<1>3. ASSUME NEW r \in todo, RecoverStale(r)  PROVE Delivery'
  <2>1. UNCHANGED <<proc, pc, run, cron, faults>> /\ proc # "down"
    BY <1>3 DEF RecoverStale
  <2>2. CASE UNCHANGED <<queue, pending>>
    BY <1>0, <2>1, <2>2 DEF AllDelivered, WaitingHoldsNothing, Delivered, Marked, Faultless
  <2>3. CASE Enqueue(Len(runs) + 1)
    <3>0. Len(runs) + 1 \in Nat
      BY <1>0
    <3>1. /\ \A s : (\E i \in DOMAIN queue : queue[i] = s) => \E i \in DOMAIN queue' : queue'[i] = s
          /\ pending' \subseteq pending \cup {Len(runs) + 1}
          /\ Len(runs) + 1 \in pending' \ pending =>
               \E i \in DOMAIN queue' : queue'[i] = Len(runs) + 1
      BY <1>0, <2>3, <3>0, EnqueueDelivers
    <3>2. \A s \in Marked' : (s \in Marked /\ s \in Runs) \/ \E i \in DOMAIN queue' : queue'[i] = s
      BY <1>0, <2>1, <3>1 DEF Marked
    <3>3. AllDelivered'
      BY <1>0, <2>1, <3>1, <3>2, DeliveryKept DEF Faultless
    <3> QED
      BY <2>1, <3>3 DEF WaitingHoldsNothing
  <2> QED
    BY <1>3, <2>2, <2>3 DEF RecoverStale
<1> QED
  BY <1>1, <1>2, <1>3 DEF Recovery

LEMMA OtherDelivers ==
  ASSUME Base, Delivery,
         \/ BeginShutdown \/ GraceExpires \/ Exit \/ Crash
         \/ HeartbeatAges \/ DeadlinePasses \/ UNCHANGED vars
  PROVE  Delivery'
<1> USE DEF Delivery, worker, counts, clock, local, Blank
<1>1. CASE BeginShutdown \/ GraceExpires
  BY <1>1 DEF BeginShutdown, GraceExpires, AllDelivered, WaitingHoldsNothing
<1>2. CASE Down
  BY <1>2 DEF Down, AllDelivered, WaitingHoldsNothing
<1>3. CASE HeartbeatAges \/ DeadlinePasses \/ UNCHANGED vars
  BY <1>3 DEF HeartbeatAges, DeadlinePasses, vars, AllDelivered, WaitingHoldsNothing, Delivered,
              Marked, Faultless
<1> QED
  BY <1>1, <1>2, <1>3 DEF Exit, Crash

(* Until a transaction of execute raises, the executor holds every queued  *)
(* row it believes to have delivered, whichever way the scheduler thread's *)
(* unsynchronised put and mark interleave with the worker, redelivery and  *)
(* startup: redelivery passes over no row that nobody has.                 *)
THEOREM PendingRowsAreHeld == Spec => [](Faultless => PendingIsHeld)
<1>1. Init => Delivery
  BY DEF Init, Delivery, AllDelivered, WaitingHoldsNothing
<1>2. IInv /\ Delivery /\ [Next]_vars => Delivery'
  BY NextInvariant, SubmissionDelivers, WorkerLoopDelivers, ExecuteDelivers, RecoveryDelivers,
     OtherDelivers DEF IInv, Next
<1>3. Delivery => (Faultless => PendingIsHeld)
  BY DEF Delivery, AllDelivered, Delivered, Marked, PendingIsHeld
<1> QED
  BY <1>1, <1>2, <1>3, Invariance, PTL DEF Spec

-----------------------------------------------------------------------------
(* Lineages *)

(* Where parents come first, the recursion over them has a solution.       *)
LEMMA AncestryExists ==
  ASSUME NEW n \in Nat, NEW parent,
         \A r \in 1 .. n : parent[r] = NoRun \/ (parent[r] \in 1 .. n /\ parent[r] < r)
  PROVE  \E f : f = [r \in 1 .. n |-> {r} \cup (IF parent[r] = NoRun THEN {} ELSE f[parent[r]])]
<1> DEFINE Solves(f, m) ==
             \A r \in 1 .. m : f[r] = {r} \cup (IF parent[r] = NoRun THEN {} ELSE f[parent[r]])
           T == {m \in 0 .. n : ~ \E f : f = [r \in 1 .. m |-> f[r]] /\ Solves(f, m)}
<1>1. T = {}
  <2> SUFFICES ASSUME T # {} PROVE FALSE
    OBVIOUS
  <2>1. T \subseteq Nat
    OBVIOUS
  <2> HIDE DEF T
  <2>2. PICK m \in T : \A k \in T : m <= k
    BY <2>1, LeastNumber
  <2> USE DEF T
  <2>3. CASE m = 0
    <3> DEFINE f == [r \in 1 .. 0 |-> {}]
    <3>1. f = [r \in 1 .. 0 |-> f[r]] /\ Solves(f, 0)
      OBVIOUS
    <3> QED
      BY <2>2, <2>3, <3>1
  <2>4. CASE m # 0
    <3>1. m \in 1 .. n /\ m - 1 \in 0 .. n /\ ~ (m <= m - 1)
      BY <2>4
    <3>2. PICK f : f = [r \in 1 .. m - 1 |-> f[r]] /\ Solves(f, m - 1)
      BY <2>2, <3>1
    <3> DEFINE g == [r \in 1 .. m |-> IF r = m
                       THEN {m} \cup (IF parent[m] = NoRun THEN {} ELSE f[parent[m]]) ELSE f[r]]
    <3>3. g = [r \in 1 .. m |-> g[r]]
      OBVIOUS
    <3>4. ASSUME NEW r \in 1 .. m
          PROVE  g[r] = {r} \cup (IF parent[r] = NoRun THEN {} ELSE g[parent[r]])
      <4>1. parent[r] # NoRun => parent[r] \in 1 .. m /\ parent[r] # m
        BY <3>1
      <4>2. parent[r] # NoRun => g[parent[r]] = f[parent[r]]
        BY <4>1
      <4>3. r # m => r \in 1 .. m - 1
        BY <3>1
      <4> QED
        BY <3>2, <4>2, <4>3
    <3> QED
      BY <3>3, <3>4
  <2> QED
    BY <2>3, <2>4
<1>2. n \in 0 .. n
  OBVIOUS
<1>3. PICK f : f = [r \in 1 .. n |-> f[r]] /\ Solves(f, n)
  BY <1>1, <1>2, Zenon
<1> QED
  BY <1>3

LEMMA LineageSolves ==
  TypeOK /\ ChildReplacesParent =>
    Lineage = [r \in Runs |->
      {r} \cup (IF runs[r].parent = NoRun THEN {} ELSE Lineage[runs[r].parent])]
<1> SUFFICES ASSUME TypeOK, ChildReplacesParent
             PROVE  Lineage = [r \in Runs |->
                      {r} \cup (IF runs[r].parent = NoRun THEN {} ELSE Lineage[runs[r].parent])]
  OBVIOUS
<1> DEFINE parent == [r \in Runs |-> runs[r].parent]
<1>1. Runs = 1 .. Len(runs) /\ Len(runs) \in Nat
  BY DEF TypeOK, Runs
<1>2. \A r \in 1 .. Len(runs) :
        parent[r] = NoRun \/ (parent[r] \in 1 .. Len(runs) /\ parent[r] < r)
  BY <1>1 DEF ChildReplacesParent
<1>3. PICK f : f = [r \in 1 .. Len(runs) |->
                      {r} \cup (IF parent[r] = NoRun THEN {} ELSE f[parent[r]])]
  <2> HIDE DEF parent
  <2> QED
    BY <1>1, <1>2, AncestryExists
<1>4. f = [r \in Runs |-> {r} \cup (IF runs[r].parent = NoRun THEN {} ELSE f[runs[r].parent])]
  BY <1>1, <1>3
<1> QED
  BY <1>4, Zenon DEF Lineage

LEMMA LineagesAreOver == IInv => LineageOK
<1> SUFFICES ASSUME IInv PROVE LineageOK
  OBVIOUS
<1>1. /\ Runs = 1 .. Len(runs) /\ Len(runs) \in Nat
      /\ \A r \in Runs : LET p == runs[r].parent IN
           p # NoRun => p \in Runs /\ p < r /\ runs[p].status = "interrupted"
  BY DEF IInv, Base, TypeOK, Runs, ChildReplacesParent
<1>2. Lineage = [r \in Runs |->
        {r} \cup (IF runs[r].parent = NoRun THEN {} ELSE Lineage[runs[r].parent])]
  BY LineageSolves DEF IInv, Base
<1> DEFINE Good(r) == /\ r \in Lineage[r] /\ Lineage[r] \subseteq 1 .. r
                      /\ \A a \in Lineage[r] \ {r} : runs[a].status = "interrupted"
           T == {r \in Runs : ~Good(r)}
<1>3. T = {}
  <2> SUFFICES ASSUME T # {} PROVE FALSE
    OBVIOUS
  <2>1. T \subseteq Nat
    BY <1>1
  <2> HIDE DEF T
  <2>2. PICK r \in T : \A s \in T : r <= s
    BY <2>1, LeastNumber
  <2>3. r \in Runs /\ ~Good(r) /\ \A s \in Runs : s < r => Good(s)
    BY <1>1, <2>2 DEF T
  <2>4. Lineage[r] = {r} \cup (IF runs[r].parent = NoRun THEN {} ELSE Lineage[runs[r].parent])
    BY <1>2, <2>3
  <2>5. CASE runs[r].parent = NoRun
    BY <1>1, <2>3, <2>4, <2>5
  <2>6. CASE runs[r].parent # NoRun
    <3> DEFINE p == runs[r].parent
    <3>1. p \in Runs /\ p < r /\ runs[p].status = "interrupted" /\ Good(p)
      BY <1>1, <2>3, <2>6
    <3>2. Lineage[r] = {r} \cup Lineage[p]
      BY <2>4, <2>6
    <3> HIDE DEF p
    <3> QED
      BY <1>1, <2>3, <3>1, <3>2
  <2> QED
    BY <2>5, <2>6
<1> QED
  BY <1>2, <1>3 DEF LineageOK

(* No step changes the parent of a row.                                    *)
LEMMA ParentsKept ==
  ASSUME TypeOK, RowChange
  PROVE  \A r \in Runs : r \in Runs' /\ runs'[r].parent = runs[r].parent
<1>1. Runs = 1 .. Len(runs) /\ Len(runs) \in Nat
  BY DEF TypeOK, Runs
<1>2. ASSUME NEW r \in Runs, Replaced(r)
      PROVE  \A s \in Runs : s \in Runs' /\ runs'[s].parent = runs[s].parent
  <2>1. runs[r] \in Row
    BY DEF TypeOK, Runs
  <2>2. runs'[r].parent = runs[r].parent
    BY <1>2, <2>1 DEF Replaced, Row
  <2>3. Runs \subseteq Runs' /\ \A s \in Runs \ {r} : runs'[s] = runs[s]
    BY <1>1, <1>2 DEF Replaced, Runs
  <2> QED
    BY <2>2, <2>3
<1>3. ASSUME NEW r \in Runs, NEW status, Moved(r, status)
      PROVE  \A s \in Runs : s \in Runs' /\ runs'[s].parent = runs[s].parent
  <2>1. Runs' = Runs
    BY <1>3 DEF Moved, Runs
  <2>2. /\ \A s \in Runs \ {r} : runs'[s] = runs[s]
        /\ runs'[r].parent = runs[r].parent
    BY <1>3 DEF Moved
  <2> QED
    BY <2>1, <2>2
<1>4. ASSUME NEW row, Added(row)
      PROVE  \A s \in Runs : s \in Runs' /\ runs'[s].parent = runs[s].parent
  BY <1>1, <1>4 DEF Added, Runs
<1>5. CASE UNCHANGED runs
  BY <1>5 DEF Runs
<1> QED
  BY <1>2, <1>3, <1>4, <1>5 DEF RowChange

(* A lineage is fixed when its last run is inserted.                       *)
LEMMA LineageKept ==
  ASSUME IInv, IInv', RowChange
  PROVE  \A r \in Runs : r \in Runs' /\ Lineage'[r] = Lineage[r]
<1>1. LineageOK /\ LineageOK'
  <2>1. (IInv => LineageOK)'
    BY LineagesAreOver, PTL
  <2> QED
    BY <2>1, LineagesAreOver
<1>2. Runs = 1 .. Len(runs) /\ Len(runs) \in Nat
      /\ \A r \in Runs : LET p == runs[r].parent IN p # NoRun => p \in Runs /\ p < r
  BY DEF IInv, Base, TypeOK, Runs, ChildReplacesParent
<1>3. \A r \in Runs : r \in Runs' /\ runs'[r].parent = runs[r].parent
  BY ParentsKept DEF IInv, Base
<1> DEFINE T == {r \in Runs : Lineage'[r] # Lineage[r]}
<1>4. T = {}
  <2> SUFFICES ASSUME T # {} PROVE FALSE
    OBVIOUS
  <2>1. T \subseteq Nat
    BY <1>2
  <2> HIDE DEF T
  <2>2. PICK r \in T : \A s \in T : r <= s
    BY <2>1, LeastNumber
  <2>3. r \in Runs /\ Lineage'[r] # Lineage[r] /\ \A s \in Runs : s < r => Lineage'[s] = Lineage[s]
    BY <1>2, <2>2 DEF T
  <2>4. /\ Lineage[r] = {r} \cup (IF runs[r].parent = NoRun THEN {} ELSE Lineage[runs[r].parent])
        /\ Lineage'[r] = {r} \cup (IF runs[r].parent = NoRun THEN {} ELSE Lineage'[runs[r].parent])
    BY <1>1, <1>3, <2>3 DEF LineageOK
  <2> QED
    BY <1>2, <2>3, <2>4
<1> QED
  BY <1>3, <1>4

-----------------------------------------------------------------------------
(* What a step does to the history of a run *)

LEMMA LineagesAreRuns ==
  ASSUME IInv, LineageOK, \A r \in Runs : r \in Runs'
  PROVE  \A r \in Runs : Lineage[r] \subseteq Runs /\ Lineage[r] \subseteq Runs'
<1>1. Runs = 1 .. Len(runs) /\ Len(runs) \in Nat
  BY DEF IInv, Base, TypeOK, Runs
<1>2. \A r \in Runs : 1 .. r \subseteq Runs
  BY <1>1
<1>3. \A r \in Runs : Lineage[r] \subseteq 1 .. r
  BY DEF LineageOK
<1> QED
  BY <1>2, <1>3

(* What a run has completed depends on the attempts in its lineage alone.  *)
LEMMA HistoryKept ==
  ASSUME NEW r \in Runs, Lineage[r] \subseteq Runs, Lineage[r] \subseteq Runs',
         Lineage'[r] = Lineage[r],
         NEW i \in Steps, \A a \in Lineage[r] : runs'[a].steps[i] = runs[a].steps[i]
  PROVE  /\ Completed(r, i)' <=> Completed(r, i)
         /\ InheritsWarning(r, i)' <=> InheritsWarning(r, i)
<1>2. \A a : LatestSuccess(r, i, a)' <=> LatestSuccess(r, i, a)
  BY DEF LatestSuccess
<1>3. \A a : LatestSuccess(r, i, a) => a \in Lineage[r]
  BY DEF LatestSuccess
<1> QED
  BY <1>2, <1>3 DEF Completed, InheritsWarning

(* No attempt is recorded, no row gets through the pipeline, and a new row *)
(* has attempted nothing.                                                  *)
Quiet(r) == /\ runs'[r].steps = runs[r].steps
            /\ runs'[r].status \in Done /\ ~ runs'[r].stopped =>
                 runs[r].status = runs'[r].status /\ ~ runs[r].stopped

QuietHistory ==
  /\ \A r \in Runs : Quiet(r)
  /\ \A r \in Runs' \ Runs : runs'[r].status = "queued" /\ Untouched(r)'

HistoryStays ==
  \A r \in Runs : /\ runs'[r].steps = runs[r].steps
                  /\ \A i \in Steps : /\ Completed(r, i)' <=> Completed(r, i)
                                      /\ InheritsWarning(r, i)' <=> InheritsWarning(r, i)

(* The history of the runs depends on the attempts alone.                  *)
LEMMA HistoryStaysWithSteps ==
  ASSUME IInv, IInv', RowChange, \A r \in Runs : runs'[r].steps = runs[r].steps
  PROVE  HistoryStays
<1>1. LineageOK /\ LineageOK' /\ \A r \in Runs : r \in Runs' /\ Lineage'[r] = Lineage[r]
  <2>1. (IInv => LineageOK)'
    BY LineagesAreOver, PTL
  <2> QED
    BY <2>1, LineagesAreOver, LineageKept
<1>2. \A r \in Runs : Lineage[r] \subseteq Runs /\ Lineage[r] \subseteq Runs'
  BY <1>1, LineagesAreRuns
<1> QED
  BY <1>1, <1>2, HistoryKept DEF HistoryStays

LEMMA QuietRows ==
  ASSUME IInv, IInv', RowChange, Progress, QuietHistory
  PROVE  QueuedIsUntouched' /\ StepsNeedTheirPrefix' /\ SuccessIsComplete' /\ HistoryStays
<1>2. \A r \in Runs : runs'[r].steps = runs[r].steps
  BY DEF QuietHistory, Quiet
<1>3. HistoryStays
  BY <1>2, HistoryStaysWithSteps
<1>4. \A r \in Runs, i \in Steps : /\ Completed(r, i)' <=> Completed(r, i)
                                   /\ InheritsWarning(r, i)' <=> InheritsWarning(r, i)
  BY <1>3 DEF HistoryStays
<1>5. \A r \in Runs : runs'[r].status = "queued" => runs[r].status = "queued"
  BY NoneIsRequeued DEF IInv, Base
<1>6. QueuedIsUntouched'
  BY <1>2, <1>5 DEF QueuedIsUntouched, Untouched, QuietHistory, Progress
<1>7. StepsNeedTheirPrefix'
  <2> SUFFICES ASSUME NEW r \in Runs', NEW i \in Steps, runs'[r].steps[i] # "absent",
                      NEW j \in 1 .. i - 1
               PROVE  Completed(r, j)'
    BY DEF StepsNeedTheirPrefix, Steps
  <2>1. r \in Runs /\ runs[r].steps[i] # "absent"
    BY <1>2 DEF QuietHistory, Untouched
  <2>2. j \in Steps
    BY ConstantsOK DEF Steps
  <2> QED
    BY <1>4, <2>1, <2>2 DEF Progress, StepsNeedTheirPrefix
<1>8. SuccessIsComplete'
  <2> SUFFICES ASSUME NEW r \in Runs', runs'[r].status \in Done, ~ runs'[r].stopped
               PROVE  /\ \A i \in Steps : Completed(r, i)'
                      /\ runs'[r].status = "succeeded_with_warnings"
                           <=> \E i \in Steps : InheritsWarning(r, i)'
    BY DEF SuccessIsComplete, Steps
  <2>1. r \in Runs
    BY DEF QuietHistory, Done
  <2>2. runs[r].status = runs'[r].status /\ ~ runs[r].stopped
    BY <2>1 DEF QuietHistory, Quiet
  <2>3. /\ \A i \in Steps : Completed(r, i)
        /\ runs[r].status = "succeeded_with_warnings" <=> \E i \in Steps : InheritsWarning(r, i)
    BY <2>1, <2>2 DEF Progress, SuccessIsComplete
  <2> QED
    BY <1>4, <2>1, <2>2, <2>3
<1> QED
  BY <1>3, <1>6, <1>7, <1>8

(* The writes that record no attempt and complete no pipeline.             *)
LEMMA StatusIsQuiet ==
  ASSUME TypeOK, NEW r \in Runs, NEW status \in RunStatus \ Done,
         runs' = [runs EXCEPT ![r].status = status]
  PROVE  QuietHistory
<1>1. runs \in Seq(Row) /\ runs[r] \in Row
  BY DEF TypeOK, Runs
<1>2. Runs' = Runs /\ runs'[r] = [runs[r] EXCEPT !.status = status]
      /\ \A s \in Runs \ {r} : runs'[s] = runs[s]
  BY <1>1 DEF Runs
<1>3. runs'[r].status = status /\ runs'[r].steps = runs[r].steps
  BY <1>1, <1>2 DEF Row
<1> QED
  BY <1>2, <1>3 DEF QuietHistory, Quiet

LEMMA StopIsQuiet ==
  ASSUME TypeOK, NEW r \in Runs, NEW status,
         runs' = [runs EXCEPT ![r].status = status, ![r].stopped = TRUE]
  PROVE  QuietHistory
<1>1. runs \in Seq(Row) /\ runs[r] \in Row
  BY DEF TypeOK, Runs
<1>2. Runs' = Runs /\ runs'[r] = [runs[r] EXCEPT !.status = status, !.stopped = TRUE]
      /\ \A s \in Runs \ {r} : runs'[s] = runs[s]
  BY <1>1 DEF Runs
<1>3. runs'[r].stopped = TRUE /\ runs'[r].steps = runs[r].steps
  <2> DEFINE row == runs[r]
  <2>1. row = [row EXCEPT !.key = row.key] /\ "stopped" \in DOMAIN row /\ "steps" \in DOMAIN row
    BY <1>1 DEF Row
  <2> HIDE DEF row
  <2>2. [row EXCEPT !.status = status, !.stopped = TRUE].stopped = TRUE
        /\ [row EXCEPT !.status = status, !.stopped = TRUE].steps = row.steps
    BY <2>1
  <2> QED
    BY <1>2, <2>2 DEF row
<1> QED
  BY <1>2, <1>3 DEF QuietHistory, Quiet

(* A new row, with or without a status written elsewhere.                  *)
LEMMA InsertIsQuiet ==
  ASSUME NEW table \in Seq(Row), DOMAIN table = Runs, NEW row,
         \A r \in Runs : /\ table[r].steps = runs[r].steps
                         /\ table[r] = runs[r] \/ table[r].status = "interrupted",
         row.status = "queued", row.steps = [i \in Steps |-> "absent"],
         runs' = Append(table, row)
  PROVE  QuietHistory
<1>1. Len(table) \in Nat /\ Runs = 1 .. Len(table)
  BY DEF Runs
<1>2. Runs' = Runs \cup {Len(table) + 1} /\ runs'[Len(table) + 1] = row
      /\ \A r \in Runs : runs'[r] = table[r]
  BY <1>1 DEF Runs
<1>3. \A r \in Runs : Quiet(r)
  BY <1>2 DEF Quiet, Done
<1>4. \A r \in Runs' \ Runs : runs'[r] = row
  BY <1>2
<1> QED
  BY <1>3, <1>4 DEF QuietHistory, Untouched

LEMMA NoWriteIsQuiet ==
  ASSUME UNCHANGED runs
  PROVE  QuietHistory
BY DEF QuietHistory, Quiet, Runs

LEMMA RequestIsQuiet ==
  ASSUME TypeOK, NEW q \in Requests, runs' = Append(runs, RequestRow(q))
  PROVE  QuietHistory
<1>1. runs \in Seq(Row)
  BY DEF TypeOK
<1>2. RequestRow(q).status = "queued" /\ RequestRow(q).steps = [i \in Steps |-> "absent"]
  BY DEF RequestRow, NewRow
<1> QED
  BY <1>1, <1>2, InsertIsQuiet DEF Runs

LEMMA RecoveryIsQuiet ==
  ASSUME Base, NEW r \in Runs, RecoverStale(r)
  PROVE  QuietHistory
<1> DEFINE status == IF Expired(r) THEN "timed_out" ELSE "interrupted"
           ended  == [runs EXCEPT ![r].status = status]
<1>1. status \in RunStatus \ Done /\ runs \in Seq(Row) /\ runs[r] \in Row
  BY DEF RunStatus, Done, Base, TypeOK, Runs
<1>2. CASE Expired(r) \/ KeyTaken(RecoveryKey(r))
  <2>1. runs' = ended
    BY <1>2 DEF RecoverStale
  <2> HIDE DEF status
  <2> QED
    BY <1>1, <2>1, StatusIsQuiet DEF Base
<1>3. CASE ~ Expired(r) /\ ~ KeyTaken(RecoveryKey(r))
  <2>1. runs' = Append(ended, Child(r)) /\ ended = [runs EXCEPT ![r].status = "interrupted"]
    BY <1>3 DEF RecoverStale
  <2>2. [runs[r] EXCEPT !.status = "interrupted"] \in Row
    BY <1>1 DEF Row, RunStatus
  <2>3. ended = [runs EXCEPT ![r] = [runs[r] EXCEPT !.status = "interrupted"]]
    BY <2>1
  <2> HIDE DEF ended
  <2>4. ended \in Seq(Row) /\ DOMAIN ended = Runs
        /\ ended[r] = [runs[r] EXCEPT !.status = "interrupted"]
        /\ \A s \in Runs \ {r} : ended[s] = runs[s]
    BY <1>1, <2>2, <2>3, ReplacedEntry DEF Runs
  <2>5. ended[r].steps = runs[r].steps /\ ended[r].status = "interrupted"
    BY <1>1, <2>4 DEF Row
  <2>6. Child(r).status = "queued" /\ Child(r).steps = [i \in Steps |-> "absent"]
    BY DEF Child, NewRow
  <2>7. \A s \in Runs : /\ ended[s].steps = runs[s].steps
                        /\ ended[s] = runs[s] \/ ended[s].status = "interrupted"
    BY <2>4, <2>5
  <2>8. runs' = Append(ended, Child(r))
    BY <2>1
  <2> QED
    BY <2>4, <2>6, <2>7, <2>8, InsertIsQuiet
<1> QED
  BY <1>2, <1>3

(* All steps but the worker's own records and its success.                 *)
LEMMA MostStepsAreQuiet ==
  ASSUME Base, [Next]_vars
  PROVE  QuietHistory \/ StartStep \/ FinishStep \/ FailStepAndRun \/ Succeed
<1>0. /\ pc \in {"claim", "restore", "boundary", "step", "decide"} => run \in Runs
      /\ todo \subseteq Runs /\ cron \in CronPlace /\ TypeOK
  BY DEF Base, WorkerPlace, WorkerOwnsRunning, TypeOK
<1>1. ASSUME NEW status \in RunStatus \ Done, Finish(status),
             pc \in {"claim", "restore", "boundary", "decide"}
      PROVE  QuietHistory
  BY <1>0, <1>1, StatusIsQuiet DEF Finish, End
<1>2. {"running", "timed_out", "failed", "interrupted", "waiting_action"} \subseteq RunStatus \ Done
  BY DEF RunStatus, Done
<1>3. CASE (\E q \in ApiRequests : Submit(q)) \/ Cron
  <2>1. ASSUME NEW q \in ApiRequests, Submit(q)  PROVE QuietHistory
    BY <1>0, <2>1, RequestIsQuiet, ConstantsOK DEF Submit
  <2>2. CASE CronInsert
    <3>1. cron.run \in Requests
      BY <1>0, <2>2 DEF CronInsert, CronPlace
    <3>2. UNCHANGED runs \/ runs' = Append(runs, RequestRow(cron.run))
      BY <2>2 DEF CronInsert
    <3> QED
      BY <1>0, <3>1, <3>2, RequestIsQuiet, NoWriteIsQuiet
  <2>3. CASE UNCHANGED runs
    BY <2>3, NoWriteIsQuiet
  <2> QED
    BY <1>3, <2>1, <2>2, <2>3 DEF Cron, CronLookup, CronPut, CronMark
<1>4. CASE UNCHANGED runs
  BY <1>4, NoWriteIsQuiet
<1>5. CASE Redeliver \/ Get \/ Release \/ Heartbeat \/ BoundaryFails \/ Boot \/ Serve
           \/ BeginShutdown \/ GraceExpires \/ Exit \/ Crash \/ HeartbeatAges \/ DeadlinePasses
           \/ UNCHANGED vars \/ ClaimRefused \/ RestoreCheckpoints \/ SkipStep \/ NextStep
  BY <1>4, <1>5 DEF Redeliver, Get, Release, Heartbeat, BoundaryFails, Boot, Serve, BeginShutdown,
     GraceExpires, Exit, Crash, Down, HeartbeatAges, DeadlinePasses, vars, ClaimRefused,
     RestoreCheckpoints, SkipStep, NextStep
<1>6. CASE Claim
  BY <1>0, <1>2, <1>6, StatusIsQuiet DEF Claim
<1>7. CASE RestoreFails
  BY <1>0, <1>2, <1>7, StatusIsQuiet DEF RestoreFails, End
<1>8. CASE ClaimExpired \/ Interrupt \/ TimeOutBeforeStep \/ TimeOutAfterStep \/ WaitForAction
  BY <1>1, <1>2, <1>8 DEF ClaimExpired, Interrupt, TimeOutBeforeStep, TimeOutAfterStep,
     WaitForAction, InLoop
<1>9. CASE StopPipeline
  BY <1>0, <1>9, StopIsQuiet DEF StopPipeline
<1>10. ASSUME NEW r \in todo, RecoverStale(r)  PROVE QuietHistory
  BY <1>0, <1>10, RecoveryIsQuiet
<1> QED
  BY <1>3, <1>5, <1>6, <1>7, <1>8, <1>9, <1>10 DEF Next, Execute, Recovery

-----------------------------------------------------------------------------
(* The worker's record of its progress *)

(* A worker that holds no run, or one it has not claimed.                  *)
LEMMA WorkerAway ==
  ASSUME pc' \in {"idle", "claim", "release", "exited"},
         pc' = "exited" \/ (step' = 1 /\ skip' = 0)
  PROVE  WorkerProgress'
BY DEF WorkerProgress

LEMMA BlankIsAway ==
  ASSUME NEW place \in {"idle", "release", "exited"}, Blank(place)
  PROVE  WorkerProgress'
BY WorkerAway DEF Blank

(* A step of somebody else.                                                *)
LEMMA WorkerStays ==
  ASSUME Base, WorkerProgress, HistoryStays, UNCHANGED worker
  PROVE  WorkerProgress'
<1>1. pc \in {"restore", "boundary", "step", "decide"} => run \in Runs
  BY DEF Base, WorkerOwnsRunning
<1>2. UNCHANGED <<pc, run, step, skip, warned>> /\ Behind' = Behind /\ Behind \subseteq Steps
  BY DEF worker, Behind
<1>3. pc \in {"restore", "boundary", "step", "decide"} => runs'[run].steps = runs[run].steps
  BY <1>1 DEF HistoryStays
<1>4. CASE pc = "restore"
  BY <1>2, <1>3, <1>4 DEF WorkerProgress, Untouched
<1>5. CASE pc \in {"boundary", "step", "decide"}
  <2>1. \A i \in Behind : /\ Completed(run, i)' <=> Completed(run, i)
                          /\ InheritsWarning(run, i)' <=> InheritsWarning(run, i)
    BY <1>1, <1>2, <1>5 DEF HistoryStays
  <2>2. \A i \in Behind' : Completed(run, i)'
    BY <1>2, <1>5, <2>1 DEF WorkerProgress
  <2>3. warned' <=> \E i \in Behind' : InheritsWarning(run, i)'
    BY <1>2, <1>5, <2>1 DEF WorkerProgress
  <2> QED
    BY <1>2, <1>3, <1>5, <2>2, <2>3 DEF WorkerProgress
<1>6. CASE pc \notin {"restore", "boundary", "step", "decide"}
  BY <1>2, <1>6 DEF WorkerProgress
<1> QED
  BY <1>4, <1>5, <1>6

(* The steps of execute that record no attempt.                            *)
LEMMA QuietProgress ==
  ASSUME Base, Progress, HistoryStays, Claim \/ RestoreCheckpoints \/ SkipStep \/ NextStep
  PROVE  WorkerProgress'
<1>0. run \in Runs /\ run' = run
  BY DEF Base, WorkerOwnsRunning, WorkerPlace, Claim, RestoreCheckpoints, SkipStep, NextStep,
     InLoop, Goto
<1>1. /\ runs'[run].steps = runs[run].steps /\ step \in Nat /\ skip \in Nat
      /\ NumSteps \in Nat /\ Steps = 1 .. NumSteps
      /\ \A i \in Steps : /\ Completed(run, i)' <=> Completed(run, i)
                          /\ InheritsWarning(run, i)' <=> InheritsWarning(run, i)
  <2>1. NumSteps \in Nat /\ Steps = 1 .. NumSteps /\ step \in Nat /\ skip \in Nat
    BY ConstantsOK DEF Base, TypeOK, Steps
  <2> QED
    BY <1>0, <2>1 DEF HistoryStays
<1>2. CASE Claim
  <2>1. Untouched(run)'
    BY <1>0, <1>1, <1>2 DEF Claim, Progress, QueuedIsUntouched, Untouched
  <2> QED
    BY <1>2, <2>1 DEF Claim, Goto, Progress, WorkerProgress
<1>3. CASE RestoreCheckpoints
  <2>1. PICK k \in 0 .. NumSteps : RestoredPrefix(k) /\ skip' = k /\ warned' = RestoredWarning(k)
    BY <1>3 DEF RestoreCheckpoints
  <2>2. run' = run /\ pc' = "boundary" /\ step' = 1 /\ Untouched(run)
    BY <1>3 DEF RestoreCheckpoints, Goto, Progress, WorkerProgress
  <2>3. Behind' = 1 .. k /\ Behind' \subseteq Steps
    BY <1>1, <2>1, <2>2 DEF Behind
  <2>4. \A i \in Behind' : Completed(run, i)'
    BY <1>1, <2>1, <2>2, <2>3 DEF RestoredPrefix
  <2>5. warned' <=> \E i \in Behind' : InheritsWarning(run, i)'
    BY <1>1, <2>1, <2>2, <2>3 DEF RestoredWarning
  <2>6. \A i \in Steps : runs'[run].steps[i] = "absent"
    BY <1>1, <2>2 DEF Untouched
  <2> QED
    BY <2>2, <2>4, <2>5, <2>6 DEF WorkerProgress
<1>4. CASE SkipStep \/ NextStep
  <2>1. /\ run' = run /\ pc' = "boundary" /\ step' = step + 1 /\ skip' = skip /\ warned' = warned
        /\ (pc = "boundary" /\ step <= skip) \/ pc = "decide"
    BY <1>4 DEF SkipStep, NextStep, InLoop
  <2>2. Behind' = Behind /\ Behind \subseteq Steps
    BY <1>1, <2>1 DEF Behind
  <2>3. \A i \in Steps : i >= step' => runs'[run].steps[i] = "absent"
    BY <1>1, <2>1 DEF Progress, WorkerProgress
  <2>4. (\A i \in Behind : Completed(run, i)) /\ (warned <=> \E i \in Behind : InheritsWarning(run, i))
    BY <2>1 DEF Progress, WorkerProgress
  <2>5. \A i \in Behind' : Completed(run, i)'
    BY <1>1, <2>1, <2>2, <2>4
  <2>6. warned' <=> \E i \in Behind' : InheritsWarning(run, i)'
    BY <1>1, <2>1, <2>2, <2>4
  <2> QED
    BY <1>1, <2>1, <2>3, <2>5, <2>6 DEF WorkerProgress
<1> QED
  BY <1>2, <1>3, <1>4

-----------------------------------------------------------------------------
(* The attempts of the worker *)

(* Only the worker's own run inherits from its row: it is the last of its  *)
(* lineage, and every other lineage holds finished rows beside its last.   *)
Attempts(status) ==
  /\ Runs' = Runs
  /\ \A r \in Runs \ {run} : runs'[r] = runs[r]
  /\ \A i \in Steps \ {step} : runs'[run].steps[i] = runs[run].steps[i]
  /\ runs'[run].status = status
  /\ runs'[run].stopped = runs[run].stopped

LEMMA AttemptHistory ==
  ASSUME IInv, IInv', RowChange, run \in Runs, runs[run].status = "running",
         NEW status, Attempts(status)
  PROVE  /\ \A r \in Runs \ {run}, i \in Steps :
              /\ Completed(r, i)' <=> Completed(r, i)
              /\ InheritsWarning(r, i)' <=> InheritsWarning(r, i)
         /\ \A r \in {run}, i \in Steps \ {step} :
              /\ Completed(r, i)' <=> Completed(r, i)
              /\ InheritsWarning(r, i)' <=> InheritsWarning(r, i)
<1>1. LineageOK /\ LineageOK' /\ \A r \in Runs : r \in Runs' /\ Lineage'[r] = Lineage[r]
  <2>1. (IInv => LineageOK)'
    BY LineagesAreOver, PTL
  <2> QED
    BY <2>1, LineagesAreOver, LineageKept
<1>2. \A r \in Runs : Lineage[r] \subseteq Runs /\ Lineage[r] \subseteq Runs'
  BY <1>1, LineagesAreRuns
<1>3. \A r \in Runs \ {run} : run \notin Lineage[r]
  BY <1>1 DEF LineageOK
<1>4. ASSUME NEW r \in Runs, NEW i \in Steps, r # run \/ i # step
      PROVE  \A a \in Lineage[r] : runs'[a].steps[i] = runs[a].steps[i]
  BY <1>2, <1>3, <1>4 DEF Attempts
<1> QED
  BY <1>1, <1>2, <1>4, HistoryKept

(* Rows other than the worker's keep what they say.                        *)
LEMMA AttemptRows ==
  ASSUME IInv, IInv', RowChange, Progress, run \in Runs, runs[run].status = "running",
         NEW status \in {"running", "failed"}, Attempts(status),
         step \in Steps, \A i \in Steps : i < step => Completed(run, i),
         \A i \in Steps : i > step => runs[run].steps[i] = "absent"
  PROVE  QueuedIsUntouched' /\ StepsNeedTheirPrefix' /\ SuccessIsComplete'
<1>0. Steps = 1 .. NumSteps /\ NumSteps \in Nat /\ step \in Nat
  BY ConstantsOK DEF Steps
<1>1. /\ \A r \in Runs \ {run}, i \in Steps :
           /\ Completed(r, i)' <=> Completed(r, i)
           /\ InheritsWarning(r, i)' <=> InheritsWarning(r, i)
      /\ \A r \in {run}, i \in Steps \ {step} : Completed(r, i)' <=> Completed(r, i)
  BY AttemptHistory
<1>2. QueuedIsUntouched'
  BY DEF Progress, QueuedIsUntouched, Untouched, Attempts
<1>3. StepsNeedTheirPrefix'
  <2> SUFFICES ASSUME NEW r \in Runs', NEW i \in Steps, runs'[r].steps[i] # "absent",
                      NEW j \in 1 .. i - 1
               PROVE  Completed(r, j)'
    BY DEF StepsNeedTheirPrefix, Steps
  <2>0. j \in Steps /\ j < i
    BY <1>0
  <2>1. CASE r # run
    <3>1. r \in Runs /\ runs[r].steps[i] # "absent"
      BY <2>1 DEF Attempts
    <3> QED
      BY <1>1, <2>0, <2>1, <3>1 DEF Progress, StepsNeedTheirPrefix
  <2>2. CASE r = run
    <3>1. i <= step
      BY <1>0, <2>2 DEF Attempts
    <3>2. j < step /\ Completed(run, j)
      BY <1>0, <2>0, <3>1
    <3> QED
      BY <1>0, <1>1, <2>0, <2>2, <3>2
  <2> QED
    BY <2>1, <2>2
<1>4. SuccessIsComplete'
  <2> SUFFICES ASSUME NEW r \in Runs', runs'[r].status \in Done, ~ runs'[r].stopped
               PROVE  /\ \A i \in Steps : Completed(r, i)'
                      /\ runs'[r].status = "succeeded_with_warnings"
                           <=> \E i \in Steps : InheritsWarning(r, i)'
    BY DEF SuccessIsComplete, Steps
  <2>1. r \in Runs \ {run} /\ runs'[r] = runs[r]
    BY DEF Attempts, Done
  <2>2. /\ \A i \in Steps : Completed(r, i)
        /\ runs[r].status = "succeeded_with_warnings" <=> \E i \in Steps : InheritsWarning(r, i)
    BY <2>1 DEF Progress, SuccessIsComplete
  <2> QED
    BY <1>1, <2>1, <2>2
<1> QED
  BY <1>2, <1>3, <1>4

(* Writing the row of the step under way.                                  *)
LEMMA RecordIsAttempt ==
  ASSUME Base, run \in Runs, step \in Steps, NEW result \in StepStatus,
         \/ /\ runs' = [runs EXCEPT ![run].steps[step] = result]
            /\ runs[run].status = "running"
         \/ /\ runs' = [runs EXCEPT ![run].steps[step] = result, ![run].status = "failed"]
  PROVE  /\ Attempts("running") \/ Attempts("failed")
         /\ runs'[run].steps[step] = result
<1>1. runs \in Seq(Row) /\ run \in DOMAIN runs /\ runs[run] \in Row
  BY DEF Base, TypeOK, Runs
<1> DEFINE row == runs[run]
<1>2. {"steps", "status", "stopped"} \subseteq DOMAIN row /\ row.steps \in [Steps -> StepStatus]
      /\ row = [row EXCEPT !.key = row.key]
  BY <1>1 DEF Row
<1>3. CASE runs' = [runs EXCEPT ![run].steps[step] = result] /\ runs[run].status = "running"
  <2>1. Runs' = Runs /\ runs'[run] = [row EXCEPT !.steps[step] = result]
        /\ \A r \in Runs \ {run} : runs'[r] = runs[r]
    BY <1>1, <1>3 DEF Runs
  <2> HIDE DEF row
  <2>2. /\ runs'[run].steps = [row.steps EXCEPT ![step] = result]
        /\ runs'[run].status = row.status /\ runs'[run].stopped = row.stopped
    BY <1>2, <2>1
  <2>3. /\ \A i \in Steps \ {step} : runs'[run].steps[i] = row.steps[i]
        /\ runs'[run].steps[step] = result
    BY <1>2, <2>2
  <2> QED
    BY <1>3, <2>1, <2>2, <2>3 DEF row, Attempts
<1>4. CASE runs' = [runs EXCEPT ![run].steps[step] = result, ![run].status = "failed"]
  <2>1. Runs' = Runs /\ runs'[run] = [row EXCEPT !.steps[step] = result, !.status = "failed"]
        /\ \A r \in Runs \ {run} : runs'[r] = runs[r]
    BY <1>1, <1>4 DEF Runs
  <2> HIDE DEF row
  <2>2. /\ runs'[run].steps = [row.steps EXCEPT ![step] = result]
        /\ runs'[run].status = "failed" /\ runs'[run].stopped = row.stopped
    BY <1>2, <2>1
  <2>3. /\ \A i \in Steps \ {step} : runs'[run].steps[i] = row.steps[i]
        /\ runs'[run].steps[step] = result
    BY <1>2, <2>2
  <2> QED
    BY <2>1, <2>2, <2>3 DEF row, Attempts
<1> QED
  BY <1>3, <1>4

LEMMA AttemptKeepsProgress ==
  ASSUME IInv, IInv', RowChange, Progress, StartStep \/ FinishStep \/ FailStepAndRun
  PROVE  Progress'
<1>0. /\ run \in Runs /\ runs[run].status = "running" /\ Base
      /\ Steps = 1 .. NumSteps /\ NumSteps \in Nat /\ step \in Nat /\ skip \in Nat
  <2>1. run \in Runs /\ runs[run].status = "running" /\ Base
    BY DEF IInv, Base, WorkerOwnsRunning, StartStep, FinishStep, FailStepAndRun, InLoop
  <2>2. Steps = 1 .. NumSteps /\ NumSteps \in Nat /\ step \in Nat /\ skip \in Nat
    BY <2>1, ConstantsOK DEF Base, TypeOK, Steps
  <2> QED
    BY <2>1, <2>2
<1>1. step \in Steps /\ step > skip
  BY <1>0 DEF Base, WorkerPlace, StartStep, FinishStep, FailStepAndRun, InLoop, Progress,
     WorkerProgress
<1>2. /\ \A i \in Behind : Completed(run, i)
      /\ warned <=> \E i \in Behind : InheritsWarning(run, i)
      /\ \A i \in Steps : i > step => runs[run].steps[i] = "absent"
  BY DEF StartStep, FinishStep, FailStepAndRun, InLoop, Progress, WorkerProgress
<1>3. Behind = {i \in Steps : i < step}
  BY <1>0, <1>1 DEF Behind, StartStep, FinishStep, FailStepAndRun, InLoop
<1>4. (Attempts("running") \/ Attempts("failed"))
      /\ (FinishStep => runs'[run].steps[step] \in Done)
  <2>1. CASE StartStep
    BY <1>0, <1>1, <2>1, RecordIsAttempt DEF StartStep, FinishStep, InLoop, StepStatus
  <2>2. CASE FinishStep
    <3>1. PICK status \in Done : runs' = [runs EXCEPT ![run].steps[step] = status]
      BY <2>2 DEF FinishStep
    <3>2. status \in StepStatus
      BY DEF StepStatus
    <3> QED
      BY <1>0, <1>1, <3>1, <3>2, RecordIsAttempt
  <2>3. CASE FailStepAndRun
    BY <1>0, <1>1, <2>3, RecordIsAttempt DEF FailStepAndRun, FinishStep, StepStatus
  <2> QED
    BY <2>1, <2>2, <2>3
<1>5. \A i \in Steps \ {step} : /\ (Completed(run, i)' <=> Completed(run, i)) \/ run' # run
                                /\ (InheritsWarning(run, i)' <=> InheritsWarning(run, i)) \/ run' # run
  BY <1>0, <1>4, AttemptHistory
<1>6. QueuedIsUntouched' /\ StepsNeedTheirPrefix' /\ SuccessIsComplete'
  BY <1>0, <1>1, <1>2, <1>3, <1>4, AttemptRows
<1>7. CASE FailStepAndRun
  BY <1>6, <1>7, BlankIsAway DEF FailStepAndRun, Progress
<1>8. ASSUME run' = run  PROVE \A i \in Steps : i > step => runs'[run].steps[i] = "absent"
  BY <1>0, <1>2, <1>4 DEF Attempts
<1>9. CASE StartStep
  <2>1. run' = run /\ step' = step /\ skip' = skip /\ warned' = warned /\ pc' = "step"
    BY <1>9 DEF StartStep, Goto
  <2>2. Behind' = Behind
    BY <1>0, <1>1, <1>3, <2>1 DEF Behind
  <2>3. \A i \in Behind' : Completed(run, i)'
    BY <1>0, <1>2, <1>3, <1>5, <2>1, <2>2
  <2>4. warned' <=> \E i \in Behind' : InheritsWarning(run, i)'
    BY <1>0, <1>2, <1>3, <1>5, <2>1, <2>2
  <2> QED
    BY <1>1, <1>6, <1>8, <2>1, <2>3, <2>4 DEF Progress, WorkerProgress
<1>10. CASE FinishStep
  <2>1. run' = run /\ step' = step /\ skip' = skip /\ pc' = "decide"
    BY <1>10 DEF FinishStep, Goto
  <2>2. Behind' = Behind \cup {step}
    BY <1>0, <1>1, <1>3, <2>1 DEF Behind
  <2>3. \A a : LatestSuccess(run, step, a)' <=> a = run
    <3>1. LineageOK /\ LineageOK'
      <4>1. (IInv => LineageOK)'
        BY LineagesAreOver, PTL
      <4> QED
        BY <4>1, LineagesAreOver
    <3>2. run \in Lineage'[run] /\ Lineage'[run] \subseteq 1 .. run /\ run \in Nat
      BY <1>0, <1>4, <3>1 DEF LineageOK, Attempts, Base, TypeOK, Runs
    <3>3. "absent" \notin Done
      BY DEF Done
    <3> QED
      BY <1>4, <1>10, <2>1, <3>2, <3>3 DEF LatestSuccess
  <2>4. Completed(run, step)' /\ (InheritsWarning(run, step)' <=>
          runs'[run].steps[step] = "succeeded_with_warnings")
    BY <1>0, <1>4, <2>1, <2>3 DEF Completed, InheritsWarning, Attempts
  <2>5. warned' <=> (warned \/ runs'[run].steps[step] = "succeeded_with_warnings")
    <3>1. PICK status \in Done : /\ runs' = [runs EXCEPT ![run].steps[step] = status]
                                 /\ warned' = (warned \/ status = "succeeded_with_warnings")
      BY <1>10 DEF FinishStep
    <3>2. status \in StepStatus
      BY DEF StepStatus
    <3>3. runs'[run].steps[step] = status
      BY <1>0, <1>1, <3>1, <3>2, RecordIsAttempt
    <3> QED
      BY <3>1, <3>3, Zenon
  <2>6. \A i \in Behind' : Completed(run, i)'
    BY <1>0, <1>2, <1>3, <1>5, <2>1, <2>2, <2>4
  <2>7. warned' <=> \E i \in Behind' : InheritsWarning(run, i)'
    <3>1. \A i \in Behind : InheritsWarning(run, i)' <=> InheritsWarning(run, i)
      BY <1>0, <1>3, <1>5, <2>1
    <3>2. (\E i \in Behind' : InheritsWarning(run, i)')
            <=> (\E i \in Behind : InheritsWarning(run, i)) \/ InheritsWarning(run, step)'
      BY <2>1, <2>2, <3>1
    <3> QED
      BY <1>2, <2>4, <2>5, <3>2
  <2> QED
    BY <1>1, <1>6, <1>8, <2>1, <2>6, <2>7 DEF Progress, WorkerProgress
<1> QED
  BY <1>7, <1>9, <1>10

(* The end of the pipeline.                                                *)
LEMMA SuccessKeepsProgress ==
  ASSUME IInv, IInv', RowChange, Progress, Succeed
  PROVE  Progress'
<1> DEFINE status == IF warned THEN "succeeded_with_warnings" ELSE "succeeded"
<1>1. /\ run \in Runs /\ runs[run].status = "running" /\ runs \in Seq(Row) /\ runs[run] \in Row
      /\ runs' = [runs EXCEPT ![run].status = status] /\ Blank("release")
  BY DEF IInv, Base, TypeOK, WorkerOwnsRunning, Succeed, Finish, End, Runs
<1>2. Behind = Steps
  BY ConstantsOK DEF Behind, Steps, Succeed, IInv, Base, TypeOK
<1>3. /\ \A i \in Steps : Completed(run, i)
      /\ warned <=> \E i \in Steps : InheritsWarning(run, i)
  BY <1>2 DEF Succeed, Progress, WorkerProgress
<1>4. /\ Runs' = Runs /\ \A r \in Runs \ {run} : runs'[r] = runs[r]
      /\ runs'[run] = [runs[run] EXCEPT !.status = status]
  BY <1>1 DEF Runs
<1>5. runs'[run].status = status /\ runs'[run].steps = runs[run].steps
  BY <1>1, <1>4 DEF Row
<1>6. HistoryStays
  BY <1>4, <1>5, HistoryStaysWithSteps
<1>7. QueuedIsUntouched'
  <2> SUFFICES ASSUME NEW r \in Runs', runs'[r].status = "queued" PROVE Untouched(r)'
    BY DEF QueuedIsUntouched
  <2>1. r # run /\ r \in Runs /\ runs'[r] = runs[r]
    BY <1>4, <1>5
  <2> QED
    BY <2>1 DEF Progress, QueuedIsUntouched, Untouched, Steps
<1>8. StepsNeedTheirPrefix'
  <2> SUFFICES ASSUME NEW r \in Runs', NEW i \in Steps, runs'[r].steps[i] # "absent",
                      NEW j \in 1 .. i - 1
               PROVE  Completed(r, j)'
    BY DEF StepsNeedTheirPrefix, Steps
  <2>1. r \in Runs /\ runs[r].steps[i] # "absent" /\ j \in Steps
    <3>1. j \in Steps
      BY ConstantsOK DEF Steps
    <3>2. r \in Runs /\ runs'[r].steps = runs[r].steps
      BY <1>4, <1>5
    <3> QED
      BY <3>1, <3>2
  <2> QED
    BY <1>6, <2>1 DEF Progress, StepsNeedTheirPrefix, HistoryStays
<1>9. SuccessIsComplete'
  <2> SUFFICES ASSUME NEW r \in Runs', runs'[r].status \in Done, ~ runs'[r].stopped
               PROVE  /\ \A i \in Steps : Completed(r, i)'
                      /\ runs'[r].status = "succeeded_with_warnings"
                           <=> \E i \in Steps : InheritsWarning(r, i)'
    BY DEF SuccessIsComplete, Steps
  <2>1. /\ \A i \in Steps : Completed(r, i)
        /\ runs'[r].status = "succeeded_with_warnings" <=> \E i \in Steps : InheritsWarning(r, i)
    <3>1. CASE r = run
      BY <1>3, <1>5, <3>1
    <3>2. CASE r # run
      BY <1>4, <3>2 DEF Progress, SuccessIsComplete
    <3> QED
      BY <3>1, <3>2
  <2> QED
    BY <1>4, <1>6, <2>1 DEF HistoryStays
<1> QED
  BY <1>1, <1>7, <1>8, <1>9, BlankIsAway DEF Progress

LEMMA NextProgress ==
  ASSUME IInv, Progress, [Next]_vars
  PROVE  Progress'
<1>1. RowChange /\ IInv' /\ Base
  BY NextInvariant DEF IInv
<1>2. CASE QuietHistory
  <2>1. QueuedIsUntouched' /\ StepsNeedTheirPrefix' /\ SuccessIsComplete' /\ HistoryStays
    BY <1>1, <1>2, QuietRows
  <2>2. WorkerProgress'
    <3>1. CASE UNCHANGED worker
      BY <1>1, <2>1, <3>1, WorkerStays DEF Progress
    <3>2. CASE Claim \/ RestoreCheckpoints \/ SkipStep \/ NextStep
      BY <1>1, <2>1, <3>2, QuietProgress
    <3>3. ASSUME NEW place \in {"idle", "release", "exited"}, Blank(place)  PROVE WorkerProgress'
      BY <3>3, BlankIsAway
    <3>4. CASE Get \/ Release
      BY <3>4, WorkerAway DEF Get, Release, Progress, WorkerProgress
    <3>5. UNCHANGED worker \/ Claim \/ RestoreCheckpoints \/ SkipStep \/ NextStep \/ Get \/ Release
          \/ StartStep \/ FinishStep \/ \E place \in {"idle", "release", "exited"} : Blank(place)
      BY DEF Next, Cron, Execute, Recovery, Submit, CronLookup, CronInsert, CronPut, CronMark,
         Redeliver, Heartbeat, ClaimExpired, ClaimRefused, Interrupt, TimeOutBeforeStep,
         FailStepAndRun, TimeOutAfterStep, WaitForAction, StopPipeline, Succeed, RestoreFails,
         BoundaryFails, Boot, RecoverStale, Serve, BeginShutdown, GraceExpires, Exit, Crash, Down,
         HeartbeatAges, DeadlinePasses, vars, Finish
    <3>6. CASE StartStep \/ FinishStep
      BY <1>1, <3>6, AttemptKeepsProgress DEF Progress
    <3> QED
      BY <3>1, <3>2, <3>3, <3>4, <3>5, <3>6
  <2> QED
    BY <2>1, <2>2 DEF Progress
<1> QED
  BY <1>1, <1>2, MostStepsAreQuiet, AttemptKeepsProgress, SuccessKeepsProgress

LEMMA ProgressInvariance == Spec => []Progress
<1>1. Init => Progress
  BY DEF Init, Runs, Progress, QueuedIsUntouched, WorkerProgress, StepsNeedTheirPrefix,
         SuccessIsComplete
<1>2. IInv /\ Progress /\ [Next]_vars => Progress'
  BY NextProgress
<1> QED
  BY <1>1, <1>2, Invariance, PTL DEF Spec

(* However often a run is interrupted and replaced, and whatever of its    *)
(* checkpoints each child can restore, no step is started before the       *)
(* newest attempt at every earlier step has succeeded.                     *)
THEOREM StepsFollowTheirPrefix == Spec => []StepsNeedTheirPrefix
<1>1. Progress => StepsNeedTheirPrefix
  BY DEF Progress
<1> QED
  BY <1>1, ProgressInvariance, PTL

(* A run that ends the pipeline has completed every step, itself or        *)
(* through its ancestors, and its status tells whether any of them warned. *)
THEOREM SuccessfulRunsAreComplete == Spec => []SuccessIsComplete
<1>1. Progress => SuccessIsComplete
  BY DEF Progress
<1> QED
  BY <1>1, ProgressInvariance, PTL

=============================================================================
