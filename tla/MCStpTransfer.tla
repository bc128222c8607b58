--------------------------- MODULE MCStpTransfer ---------------------------
(***************************************************************************)
(* Values for TLC: a file of distinct blocks, so that a chunk stored in    *)
(* another's place shows, one spare block an edit can write, and the       *)
(* faults each run allows.                                                 *)
(***************************************************************************)
EXTENDS StpTransfer, TLC

CONSTANTS b1, b2, b3, edited, ownToken, otherToken

MCBlocks   == {b1, b2, b3, edited}
MCOriginal == [i \in ChunkIds |-> <<b1, b2, b3>>[i + 1]]
MCTokens   == {ownToken, otherToken}
MCOwnToken == {ownToken}

NoFaults == [k \in Faults |-> 0]

\* Every kind of fault once.
MCEveryFault == [k \in Faults |-> 1]

\* The same, and one damaged chunk more.
MCMoreDamage == [MCEveryFault EXCEPT !["corrupt"] = 2]

\* Two timeouts and a damaged chunk.
MCTwoTimeouts == [NoFaults EXCEPT !["timeout"] = 2, !["corrupt"] = 1]

MCNone == NoFaults

\* total_chunks as the catalogue knows it, and off by one.
MCExact  == {NumChunks}
MCClaims == {NumChunks - 1, NumChunks, NumChunks + 1}

MCFresh   == {0}
MCResumed == {NumChunks - 1}
MCAny     == {0, NumChunks - 1}
=============================================================================
