----------------------------- MODULE MCProduction -----------------------------
(***************************************************************************)
(* A day of five events, two providers of which the first knows the JSON   *)
(* fallback, and scripts of one and of three sections that share texts.    *)
(***************************************************************************)
EXTENDS Production

MCByWeight     == <<2, 4, 3, 1, 5>>
MCRecruitment  == {1}
MCDomestic     == {1, 2, 5}
MCAI           == {2, 3, 4}
MCExcerpts     == <<<<2, 1>>, <<3>>, <<2, 2>>, <<1>>, <<3, 1>>>>
MCProviders    == <<"responses", "compatible">>
MCFallsBack    == {"responses"}
MCOrders       == {<<1, 2, 3, 4, 5>>}
MCFoundSets    == {{}, {1, 2, 3, 4, 5}}
MCGates        == {TRUE, FALSE}
MCSections     == [take \in {"first", "revised"} |->
                    IF take = "first" THEN <<"a">> ELSE <<"a", "b", "a">>]
MCSymmetry     == Permutations(Takes)

=============================================================================
