---------------------------- MODULE MCBlinkyShow ----------------------------
(***************************************************************************)
(* Small instances of the show.                                            *)
(***************************************************************************)
EXTENDS BlinkyShow

CONSTANTS k1, k2    \* two keys

\* The configuration of all clients.
SameKey == [c \in Clients |-> k1]
OtherKey == [c \in Clients |-> k2]
AllSongs == [c \in Clients |-> Songs]
=============================================================================
