---------------------------- MODULE MCPublication ----------------------------
(***************************************************************************)
(* Instances of Publication for TLC.                                       *)
(***************************************************************************)
EXTENDS Publication

CONSTANTS monday, tuesday, one, other

MCBoth    == {monday, tuesday}
MCMonday  == {monday}
MCAudios  == {one, other}
MCVolume  == {"feed", "media"}
MCNothing == {}

=============================================================================
