------------------------------- MODULE MCNews -------------------------------
(***************************************************************************)
(* An instance of News for TLC: three articles over two days, listed by    *)
(* two podcast sources and one briefing source.                            *)
(***************************************************************************)
EXTENDS News

MCArticles == 1..3
MCTitle    == [a \in 1..3 |-> IF a = 3 THEN "other" ELSE "same"]
MCLanguage == [a \in 1..3 |-> "zh"]
MCLength   == [t \in {"note", "story", "report", "feature"} |->
                 CASE t = "note" -> 1 [] t = "story" -> 2 [] OTHER -> 3]
MCNear     == {{"story", "report"}}
MCPriority == [s \in {"wire", "tracker", "tagged"} |-> IF s = "tagged" THEN 2 ELSE 1]
MCMaxAge   == [s \in {"wire", "tracker", "tagged"} |-> IF s = "tracker" THEN 1 ELSE 0]
MCLists    == [s \in {"wire", "tracker", "tagged"} |->
                 CASE s = "wire" -> {1, 2} [] s = "tracker" -> {2, 3} [] s = "tagged" -> {1, 3}]
MCFeedText == [a \in 1..3 |-> IF a = 2 THEN "story" ELSE "absent"]
MCFeedDate == [a \in 1..3 |-> IF a = 2 THEN 0 ELSE 9]
MCOrder    == <<"tagged", "tracker", "wire">>
MCPages    == {[text |-> "report", date |-> 9], [text |-> "feature", date |-> 9],
               [text |-> "note", date |-> 0]}

=============================================================================
