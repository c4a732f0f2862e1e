---------------------------- MODULE TaskLifecycle ----------------------------
(***************************************************************************)
(* What the task table promises to everyone who reads it, whoever writes   *)
(* it: a row moves along the table of pipeline/state.py, one row at a      *)
(* time; a business key has at most one active row; and a running row may  *)
(* be handed over to a successor, in one step that ends the one and queues *)
(* the other.  TaskExecution implements it.                                *)
(***************************************************************************)
EXTENDS Naturals, Sequences

CONSTANTS Businesses, NoRun

VARIABLE rows    \* a sequence of [business, status, parent], never shortened

Ending == {"succeeded", "succeeded_with_warnings", "waiting_action",
           "failed", "interrupted", "timed_out"}

(* _ALLOWED_TRANSITIONS, without "cancelled" and "interrupted" -> "queued", *)
(* which no code performs.                                                  *)
AllowedTransition(from) ==
  CASE from = "queued"  -> {"running", "timed_out"}
    [] from = "running" -> Ending
    [] OTHER            -> {}

Busy(business) ==
  \E r \in DOMAIN rows : /\ rows[r].business = business
                         /\ rows[r].status \in {"queued", "running"}

Queued(business, parent) ==
  [business |-> business, status |-> "queued", parent |-> parent]

Init == rows = <<>>

Submit(business) ==
  /\ ~Busy(business)
  /\ rows' = Append(rows, Queued(business, NoRun))

Move(r) ==
  \E status \in AllowedTransition(rows[r].status) :
    rows' = [rows EXCEPT ![r].status = status]

Replace(r) ==
  /\ rows[r].status = "running"
  /\ rows' = Append([rows EXCEPT ![r].status = "interrupted"],
                    Queued(rows[r].business, r))

Next ==
  \/ \E business \in Businesses : Submit(business)
  \/ \E r \in DOMAIN rows : Move(r) \/ Replace(r)

Spec == Init /\ [][Next]_rows

=============================================================================
