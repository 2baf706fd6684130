---------------------------- MODULE MCTpLifecycle ----------------------------
(***************************************************************************)
(* TpLifecycle with three records (say the peer's parameters, a copy of   *)
(* them and a copy of the copy) and three buffers: enough for every       *)
(* record to own one, for a copy or decode to find the heap exhausted,    *)
(* and for a failed allocation beside them.                               *)
(***************************************************************************)
EXTENDS TpLifecycle, TLC

CONSTANTS r1, r2, r3, b1, b2, b3

MCRecords == {r1, r2, r3}
MCBuffers == {b1, b2, b3}

\* VersionInfo blobs of 0, 1 and 2 bytes.
MCLengths == {0, 1, 2}

Symmetry == Permutations(MCRecords) \cup Permutations(MCBuffers)
=============================================================================
