--------------------------- MODULE MCPeerTransfer ---------------------------
(***************************************************************************)
(* Values for TLC: two downloads of one song and one of another, whose     *)
(* file has the same name.                                                 *)
(***************************************************************************)
EXTENDS PeerTransfer

CONSTANTS a1, a2, b1, a, b, mp3

MCSongOf == [d \in Attempts |-> IF d = b1 THEN b ELSE a]
MCNameOf == [s \in Songs |-> mp3]

\* Safety is checked with two overlapping downloads, liveness with one.
MCSetups    == {<<"desktop", "desktop">>, <<"termux", "desktop">>, <<"termux", "termux">>}
MCAllSetups == Clients \X Clients
=============================================================================
