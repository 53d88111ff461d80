--------------------------- MODULE MCChunkSequencer ---------------------------
(* ChunkSequencer with a window smaller than the run of indices that can be *)
(* missing, so gaps by a full window, by flush, and duplicates all happen.  *)
EXTENDS ChunkSequencer

MCIndices == 0..6
=============================================================================
