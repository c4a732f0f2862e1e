----------------------------- MODULE PublicFeed -----------------------------
(***************************************************************************)
(* What a podcast feed promises its subscribers.                           *)
(*                                                                         *)
(* An episode is published by a decision that is taken once, after the     *)
(* feed already shows it, with the audio the feed shows.  Every new feed   *)
(* shows all published episodes, with that same audio, and at most one     *)
(* candidate that is not published yet.  Only while the service is down    *)
(* may the feed file get lost.                                             *)
(***************************************************************************)
EXTENDS FiniteSets, Naturals

CONSTANTS
  Episodes,
  Audios,
  NoAudio

VARIABLES
  published,  \* the audio each episode is published with, or NoAudio
  shown,      \* the items of the feed: pairs of an episode and an audio
  down        \* whether the service is down

Promised == {<<e, published[e]>> : e \in {x \in Episodes : published[x] # NoAudio}}

Candidates == {x \in Episodes : published[x] = NoAudio} \X Audios

Init ==
  /\ published = [e \in Episodes |-> NoAudio]
  /\ shown = {}
  /\ down = TRUE

Show(new) ==
  /\ ~down
  /\ \A c, d \in new : c = d
  /\ shown' = Promised \cup new
  /\ UNCHANGED <<published, down>>

Settle(e, a) ==
  /\ ~down
  /\ published[e] = NoAudio /\ <<e, a>> \in shown
  /\ published' = [published EXCEPT ![e] = a]
  /\ UNCHANGED <<shown, down>>

Lose ==
  /\ down
  /\ shown' = {}
  /\ UNCHANGED <<published, down>>

Turn ==
  /\ down' = ~down
  /\ UNCHANGED <<published, shown>>

Next ==
  \/ \E new \in SUBSET Candidates : Show(new)
  \/ \E e \in Episodes, a \in Audios : Settle(e, a)
  \/ Lose
  \/ Turn

Spec == Init /\ [][Next]_<<published, shown, down>>

=============================================================================
