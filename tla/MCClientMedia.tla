--------------------------- MODULE MCClientMedia ----------------------------
(***************************************************************************)
(* Songs of a few frames, with files that are missing or of another kind.  *)
(***************************************************************************)
EXTENDS ClientMedia, TLC

CONSTANTS a1, a2, none

\* The header of the song promises a sample more than there is.
MCMusic ==
    "song" :> [kind |-> "ok", size |-> 7, there |-> 6] @@
    "mp3"  :> [kind |-> "bad format", size |-> 0, there |-> 0]
MCLights ==
    "lights" :> [kind |-> "ok", frames |-> 3, length |-> 4, there |-> 3] @@
    "old"    :> [kind |-> "unsupported", frames |-> 1, length |-> 1, there |-> 1]

MCLoads == {<<"song", "lights">>, <<"mp3", "old">>}

\* A whole frame, and a part of it that a frame of lights does not have.
MCPru == 0 :> [offset |-> 0, length |-> 9] @@ 1 :> [offset |-> 6, length |-> 9]
=============================================================================
