----------------------------- MODULE MCBriefing -----------------------------
(***************************************************************************)
(* Instances of Briefing for TLC: a working day and the day off after it,  *)
(* three telecom articles of two publishers and two AI articles.           *)
(***************************************************************************)
EXTENDS Briefing

CONSTANTS t1, t2, t3, a1, a2

MCCategoryOrder == <<"telecom", "ai">>
MCByRecency == <<t1, a1, t2, t3, a2>>
MCCategory  == [a \in {t1, t2, t3, a1, a2} |-> IF a \in {a1, a2} THEN "ai" ELSE "telecom"]
MCOutlet    == [a \in {t1, t2, t3, a1, a2} |-> IF a \in {t1, t2} THEN "east" ELSE "west"]
MCUntitled  == {t3}
MCBytes     == [a \in {t1, t2, t3, a1, a2} |-> IF a = t2 THEN 4 ELSE 2]
MCDays      == 1..2

\* Bound: of the runs of the day off only those of a tick that was late are followed.  A run
\* from a route meets nothing there that it does not meet on the first day.
LateTicksOnDayOff == run.day \notin Working \cup {0} => run.kind = "prepare"

=============================================================================
