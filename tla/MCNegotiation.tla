--------------------------- MODULE MCNegotiation ---------------------------
(***************************************************************************)
(* Values for TLC: an owner with one song, and a downloader.               *)
(***************************************************************************)
EXTENDS Negotiation, TLC

CONSTANTS owner, ann, song, r1, r2, t1, t2, t3, h1, h2

MCOwnerOf == [s \in Songs |-> owner]
MCSongOf  == [r \in Requests |-> song]
MCAnn     == [r \in Requests |-> ann]

\* Tasks and tokens are alike (used for safety properties only).
Symmetry == Permutations(Tasks) \union Permutations(Tokens)
=============================================================================
