--------------------------- MODULE MCDistribution ---------------------------
(***************************************************************************)
(* Instances of Distribution for TLC.                                      *)
(***************************************************************************)
EXTENDS Distribution

CONSTANTS monday, first, second

MCEpisodes  == {monday}
MCPlatforms == {"rss", "netease", "xiaoyuzhou"}
MCNetEase   == {"rss", "netease"}
MCRequests  == {first, second}

=============================================================================
