--------------------------- MODULE MCDocketBuffer ---------------------------
(* Two buffers and four chunks of two bytes: a write needs up to two chunks,  *)
(* reads and peeks end inside, at the end of and beyond a chunk, and the pool *)
(* of one chunk is at its limit after a single release.  Four bytes are       *)
(* written in all, so malloc never runs out of chunks.                        *)
EXTENDS DocketBuffer, TLC

CONSTANTS b1, b2, c1, c2, c3, c4

MCBuffers == {b1, b2}
MCChunks == {c1, c2, c3, c4}
MCSizes == 0..3
Symmetric == Permutations(MCBuffers) \cup Permutations(MCChunks)
=============================================================================
