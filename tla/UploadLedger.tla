---------------------------- MODULE UploadLedger ----------------------------
(***************************************************************************)
(* What a distribution target promises to a platform that cannot           *)
(* recognise a repeated submission: every submission belongs to a try that *)
(* was recorded before it, one at most to each, and a target is closed     *)
(* only when something was accepted, once and for all.                     *)
(***************************************************************************)
EXTENDS Naturals

CONSTANT Items

VARIABLES
  phase,     \* "open", "trying" or "done"
  tries,
  accepted

vars == <<phase, tries, accepted>>

Init ==
  /\ phase = [i \in Items |-> "open"]
  /\ tries = [i \in Items |-> 0]
  /\ accepted = [i \in Items |-> 0]

Try(i) ==
  /\ phase[i] = "open"
  /\ phase' = [phase EXCEPT ![i] = "trying"]
  /\ tries' = [tries EXCEPT ![i] = @ + 1]
  /\ UNCHANGED accepted

Accept(i) ==
  /\ phase[i] = "trying" /\ accepted[i] < tries[i]
  /\ accepted' = [accepted EXCEPT ![i] = @ + 1]
  /\ UNCHANGED <<phase, tries>>

GiveUp(i) ==
  /\ phase[i] = "trying"
  /\ phase' = [phase EXCEPT ![i] = "open"]
  /\ UNCHANGED <<tries, accepted>>

Close(i) ==
  /\ phase[i] = "trying" /\ accepted[i] > 0
  /\ phase' = [phase EXCEPT ![i] = "done"]
  /\ UNCHANGED <<tries, accepted>>

Next == \E i \in Items : Try(i) \/ Accept(i) \/ GiveUp(i) \/ Close(i)

Spec == Init /\ [][Next]_vars

=============================================================================
