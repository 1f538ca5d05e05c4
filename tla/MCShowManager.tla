--------------------------- MODULE MCShowManager ----------------------------
(***************************************************************************)
(* Days of two hours of five minutes in a year of four days.               *)
(***************************************************************************)
EXTENDS ShowManager, TLC

At(h, m) == [hour |-> h, minute |-> m]
On(m, d) == [month |-> m, day |-> d]

MCPlayList == <<"entry", "[other]", "entry", "[prologue]", "{", "entry", "empty entry", "}",
                "entry", "[body]", "entry", "entry", "[epilogue]", "entry">>

\* A season over the new year, with a show that starts when the server does.
Winter ==
    "runTime"    :> [start |-> On(2, 2), end |-> On(1, 1)] @@
    "listenTime" :> [start |-> At(0, 1), end |-> At(1, 4)] @@
    "showTime"   :> [start |-> At(0, 1), end |-> At(1, 3)] @@
    "delay"      :> 1 @@
    "playlist"   :> MCPlayList
\* A season in spring, without a delay; the playlist stays what it was.
Spring ==
    "runTime"    :> [start |-> On(1, 1), end |-> On(2, 2)] @@
    "listenTime" :> [start |-> At(0, 0), end |-> At(0, 4)] @@
    "showTime"   :> [start |-> At(0, 0), end |-> At(0, 3)]
\* A show that starts later than the server.
Late ==
    "runTime"    :> [start |-> On(1, 1), end |-> On(2, 2)] @@
    "listenTime" :> [start |-> At(0, 0), end |-> At(0, 4)] @@
    "showTime"   :> [start |-> At(0, 2), end |-> At(0, 3)] @@
    "playlist"   :> MCPlayList

WinterOrSpring == {Winter, Spring}
LateOnly == {Late}
=============================================================================
